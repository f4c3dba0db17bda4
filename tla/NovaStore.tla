----------------------------- MODULE NovaStore -----------------------------
(***************************************************************************)
(* A collection of NovaDB (src/database/index.ts): a write-ahead log, a    *)
(* memtable that keeps versions for open snapshots, memtables that wait to *)
(* be flushed, tables in levels, a manifest.  One writer at a time; its    *)
(* memtable is flushed, and tables are compacted, in the background, and   *)
(* readers hold snapshots.  A crash keeps the files.                       *)
(*                                                                         *)
(* A value is the id of the transaction that wrote it.  Bloom filters,     *)
(* blocks, checksums, caches, secondary indexes and replicas are left out; *)
(* a table has one block and a compaction one output.  Ids start at 1.     *)
(***************************************************************************)
EXTENDS Integers, Sequences, FiniteSets, SequencesExt, FiniteSetsExt

CONSTANTS
    Key,           \* keys, numbers in the order of their strings
    Reader,        \* those that hold a snapshot
    Limit,         \* versions that fill a memtable (memtableLimitBytes)
    MaxImmutable,  \* maxImmutableMemtables
    Threshold,     \* l0CompactionThreshold
    NumLevels,     \* numLevels
    LevelLimit,    \* entries above which a level is compacted (l1MaxBytes)
    Event,         \* what may happen, beside the rest: see below
    MaxTxn,        \* bound on writes
    MaxEvents      \* bound on crashes, failed flushes and snapshots together

(* overlap: a flush starts while another flush or a compaction is on.      *)
(* blank:   a process ends and the last committed write is not replayed.   *)
(* torn:    a crash in the middle of an append keeps a part of it.         *)
(* gap:     a snapshot is opened inside commit, between the new id and the *)
(*          writes.                                                        *)
Events == {"overlap", "blank", "torn", "gap"}

ASSUME NovaAssumption ==
    /\ Key \subseteq Nat \ {0} /\ IsFiniteSet(Key)
    /\ {Limit, MaxImmutable, Threshold} \subseteq Nat \ {0}
    /\ NumLevels \in Nat \ {0, 1} /\ LevelLimit \in Nat
    /\ Event \subseteq Events
    /\ {MaxTxn, MaxEvents} \subseteq Nat

VARIABLES
    active,    \* active.wal
    sealed,    \* the logs of memtables that are being flushed
    files,     \* the table files
    manifest,  \* the tables that MANIFEST names and their levels
    flushedTo, \* the walLsn that MANIFEST remembers
    up,        \* "down", "loaded" or "up"
    mem,       \* mem[k]: versions, the newest first
    imm,       \* immutableQueue, the oldest first
    tables,    \* levels
    ids,       \* counters: committedTxnId, nextTxnId, walLsn, nextSstableId
    writer,    \* the write under way
    flushes,   \* the background flushes
    compaction,\* the compaction
    registry,  \* the snapshot registry
    snap,      \* the snapshots of the readers
    budget     \* crashes, failures and snapshots left

disk == <<active, sealed, files, manifest, flushedTo>>
memory == <<up, mem, imm, tables, ids>>
work == <<writer, flushes, compaction>>
readers == <<registry, snap>>
vars == <<disk, memory, work, readers, budget>>

Txn == 1 .. MaxTxn
Lsn == 0 .. MaxTxn * Cardinality(Key)

(* mark: the __lsn__ of a tombstone.                                       *)
Version == [txn : Txn, del : BOOLEAN, mark : Lsn]
None == [txn |-> 0, del |-> FALSE, mark |-> 0]
Record == [key : Key, lsn : Lsn, v : Version]

Empty == [k \in Key |-> <<>>]

(* plain: the entry of the key; old: its versioned entries.                *)
File == [id : Nat, plain : [Key -> Version \cup {None}], old : [Key -> SUBSET Version]]

Idle == [pc |-> "idle", batch |-> FALSE, recs |-> <<>>]
Closed == [at |-> 0, saw |-> [k \in Key |-> 0], open |-> FALSE, soiled |-> FALSE]
Resting == [pc |-> "resting", level |-> 0, inputs |-> {}, cutoff |-> 0, out |-> 0]
Fresh == [committed |-> 0, next |-> 1, lsn |-> 0, table |-> 1]

TypeOK ==
    /\ active \in Seq(Record)
    /\ \A s \in sealed : s.id \in Nat /\ s.recs \in Seq(Record)
    /\ files \subseteq File
    /\ \A e \in manifest : e.id \in Nat /\ e.level \in 0 .. NumLevels - 1
    /\ up \in {"down", "loaded", "up"}
    /\ mem \in [Key -> Seq(Version)]
    /\ \A i \in DOMAIN imm : imm[i].mem \in [Key -> Seq(Version)]
    /\ \A t, u \in tables : t.id = u.id => t = u
    /\ ids.committed \in 0 .. MaxTxn /\ ids.next \in 1 .. MaxTxn + 1
    /\ ids.lsn \in Nat /\ flushedTo \in Nat
    /\ writer.pc \in {"idle", "logging", "logged", "committed", "full", "sealing"}
    /\ writer.recs \in Seq(Record)
    /\ compaction.pc \in {"resting", "reading", "writing", "written", "installed", "recorded"}
    /\ \A r \in Reader : snap[r].saw \in [Key -> 0 .. MaxTxn]
    /\ budget \in 0 .. MaxEvents

Init ==
    /\ active = <<>> /\ sealed = {} /\ files = {} /\ manifest = {} /\ flushedTo = 0
    /\ up = "up" /\ mem = Empty /\ imm = <<>> /\ tables = {} /\ ids = Fresh
    /\ writer = Idle /\ flushes = {} /\ compaction = Resting
    /\ registry = {} /\ snap = [r \in Reader |-> Closed]
    /\ budget = MaxEvents

Spend == budget > 0 /\ budget' = budget - 1

-------------------------------------------------------------------------------
(* Memtable and lookup                                                     *)

(* Mutant of Oldest: open snapshots are not asked for.                     *)
OldestForgets(reg) == MaxTxn + 1

Oldest(reg) == IF reg = {} THEN MaxTxn + 1 ELSE Min(reg)

(* Versions after the first one that the oldest snapshot sees are dropped. *)
Trim(vs, oldest) ==
    LET seen == {i \in DOMAIN vs : vs[i].txn <= oldest}
    IN IF seen = {} THEN vs ELSE SubSeq(vs, 1, Min(seen))

Put(m, rec, oldest) == [m EXCEPT ![rec.key] = Trim(<<rec.v>> \o @, oldest)]

Size(m) == FoldSet(LAMBDA k, n : n + Len(m[k]), 0, Key)

(* The first version in m that a snapshot sees.                            *)
InMem(m, k, at) ==
    LET seen == {i \in DOMAIN m[k] : m[k][i].txn <= at}
    IN IF seen = {} THEN None ELSE m[k][Min(seen)]

(* The memtable first, then the waiting memtables from the newest on.      *)
InMemory(k, at, m, queue) ==
    LET waiting == {i \in DOMAIN queue : InMem(queue[i].mem, k, at) # None}
        first == InMem(m, k, at)
    IN IF first # None THEN first
       ELSE IF waiting # {} THEN InMem(queue[Max(waiting)].mem, k, at)
       ELSE None

Newer(ts) == CHOOSE t \in ts : \A u \in ts : u.id <= t.id

(* readVersionedFromDisk: the best older version.                          *)
InOld(t, k, at) ==
    LET seen == {v \in t.old[k] : v.txn <= at}
    IN IF seen = {} THEN None ELSE CHOOSE v \in seen : \A w \in seen : w.txn <= v.txn

Visible(t, k, at) == t.plain[k] # None /\ t.plain[k].txn <= at

(* NovaCollection.get: memory, then tables from the highest id on.         *)
Lookup(k, at, m, queue, ts) ==
    LET stored == {t \in ts : Visible(t, k, at) \/ InOld(t, k, at) # None}
        first == InMemory(k, at, m, queue)
        t == Newer(stored)
    IN IF first # None THEN first
       ELSE IF stored = {} THEN None
       ELSE IF Visible(t, k, at) THEN t.plain[k] ELSE InOld(t, k, at)

(* scan, for one key of the range from .. to: tables that end before the   *)
(* range or start after it are not opened.  The newest entry of the key    *)
(* counts; when it is not visible an older version of any table, and at    *)
(* last the newest entry that is visible.                                  *)
Scanned(k, from, to, at) ==
    LET having == {t \in tables : t.hi >= from /\ t.lo <= to /\ t.plain[k] # None}
        older == {t \in tables : InOld(t, k, at) # None}
        visible == {t \in having : Visible(t, k, at)}
        first == InMemory(k, at, mem, imm)
    IN IF first # None THEN first
       ELSE IF having = {} THEN None
       ELSE IF ~Visible(Newer(having), k, at) /\ older # {} THEN InOld(Newer(older), k, at)
       ELSE IF visible # {} THEN Newer(visible).plain[k]
       ELSE None

Seen(v) == IF v.del THEN 0 ELSE v.txn

View(at, m, queue, ts) == [k \in Key |-> Seen(Lookup(k, at, m, queue, ts))]

-------------------------------------------------------------------------------
(* Writes: upsert, delete and commit                                       *)

RecordsOf(keys, dels, batch) ==
    LET ordered == SetToSortSeq(keys, <)
    IN [i \in DOMAIN ordered |->
          [key |-> ordered[i], lsn |-> ids.lsn + i - 1,
           v |-> [txn |-> ids.next, del |-> ordered[i] \in dels,
                  mark |-> IF ordered[i] \in dels /\ ~batch THEN ids.lsn ELSE 0]]]

Begin ==
    /\ up = "up" /\ writer = Idle /\ ids.next <= MaxTxn
    /\ \E batch \in BOOLEAN, keys \in SUBSET Key \ {{}}, dels \in SUBSET Key :
         /\ dels \subseteq keys
         /\ Cardinality(keys) > 1 => batch
         /\ writer' = [pc |-> "logging", batch |-> batch, recs |-> RecordsOf(keys, dels, batch)]
         /\ ids' = [ids EXCEPT !.next = @ + 1, !.lsn = @ + Cardinality(keys)]
    /\ UNCHANGED <<disk, up, mem, imm, tables, flushes, compaction, readers, budget>>

(* flushWal: appended and synced.                                          *)
Log ==
    /\ writer.pc = "logging"
    /\ active' = active \o writer.recs
    /\ writer' = [writer EXCEPT !.pc = "logged"]
    /\ UNCHANGED <<sealed, files, manifest, flushedTo, memory, flushes, compaction, readers, budget>>

(* commit moves the committed id before it puts the writes in the memtable.*)
Commit ==
    /\ writer.pc = "logged" /\ writer.batch
    /\ ids' = [ids EXCEPT !.committed = writer.recs[1].v.txn]
    /\ writer' = [writer EXCEPT !.pc = "committed"]
    /\ UNCHANGED <<disk, up, mem, imm, tables, flushes, compaction, readers, budget>>

Applied == FoldLeft(LAMBDA m, rec : Put(m, rec, Oldest(registry)), mem, writer.recs)

Apply ==
    /\ writer.pc = IF writer.batch THEN "committed" ELSE "logged"
    /\ mem' = Applied
    /\ ids' = [ids EXCEPT !.committed = writer.recs[1].v.txn]
    /\ writer' = IF Size(Applied) >= Limit THEN [writer EXCEPT !.pc = "full"] ELSE Idle
    /\ UNCHANGED <<disk, up, imm, tables, flushes, compaction, readers, budget>>

(* triggerBackgroundFlush, once there is a slot: the memtable is queued.   *)
Swap ==
    /\ writer.pc = "full"
    /\ Len(imm) < MaxImmutable
    /\ "overlap" \in Event \/ (flushes = {} /\ compaction = Resting)
    /\ imm' = Append(imm, [id |-> 0, mem |-> mem])
    /\ mem' = Empty
    /\ writer' = [writer EXCEPT !.pc = "sealing"]
    /\ UNCHANGED <<disk, up, tables, ids, flushes, compaction, readers, budget>>

(* The log is renamed after the table to come, over a file of that name,   *)
(* and the flush is scheduled.                                             *)
Seal ==
    LET id == ids.table
    IN /\ writer.pc = "sealing"
       /\ sealed' = {s \in sealed : s.id # id} \cup {[id |-> id, recs |-> active]}
       /\ active' = <<>>
       /\ ids' = [ids EXCEPT !.table = @ + 1]
       /\ imm' = [imm EXCEPT ![Len(imm)].id = id]
       /\ flushes' = flushes \cup
            {[id |-> id, pc |-> "queued", lsn |-> ids.lsn, mem |-> imm[Len(imm)].mem,
              snaps |-> registry # {}, oldest |-> Oldest(registry)]}
       /\ writer' = Idle
       /\ UNCHANGED <<files, manifest, flushedTo, up, mem, tables, compaction, readers, budget>>

-------------------------------------------------------------------------------
(* The background flush                                                    *)

Newest(vs) == IF vs = <<>> THEN None ELSE vs[1]

(* toMap, or toFlushEntries while snapshots are open.                      *)
Flushed(f) ==
    [id |-> f.id,
     plain |-> [k \in Key |-> Newest(f.mem[k])],
     old |-> [k \in Key |-> IF f.snaps THEN {v \in Range(f.mem[k]) : v.txn >= f.oldest} ELSE {}]]

Keys(file) == {k \in Key : file.plain[k] # None}

(* The empty string, before all keys.                                      *)
EmptyKey == -(MaxTxn + 1) * (Max(Key) + 1)

(* The keys of a file as they are sorted: the versioned ones, by           *)
(* transaction and key, before the plain ones.                             *)
Sorted(file) ==
    Keys(file) \cup UNION {{(v.txn - MaxTxn - 1) * (Max(Key) + 1) + k : v \in file.old[k]} : k \in Key}

(* What memory knows of a table: its level and the range of its keys.      *)
Entry(file, level, lo, hi) ==
    [id |-> file.id, plain |-> file.plain, old |-> file.old, level |-> level, lo |-> lo, hi |-> hi]

Step(f, from, to) ==
    /\ f.pc = from
    /\ flushes' = (flushes \ {f}) \cup {[f EXCEPT !.pc = to]}

(* Mutant of FlushWrites: the log goes as soon as the table is written.    *)
FlushWritesAndUnlinks(f) ==
    /\ Step(f, "queued", "written")
    /\ files' = {t \in files : t.id # f.id} \cup {Flushed(f)}
    /\ sealed' = {s \in sealed : s.id # f.id}
    /\ UNCHANGED <<active, manifest, flushedTo, memory, writer, compaction, readers, budget>>

FlushWrites(f) ==
    /\ Step(f, "queued", "written")
    /\ files' = {t \in files : t.id # f.id} \cup {Flushed(f)}
    /\ UNCHANGED <<active, sealed, manifest, flushedTo, memory, writer, compaction, readers, budget>>

Soil == snap' = [r \in Reader |-> [snap[r] EXCEPT !.soiled = snap[r].open]]

(* Mutant of FlushInstalls: the memtable stays in the queue.               *)
FlushInstallsKeepsQueue(f) ==
    LET file == Flushed(f)
    IN /\ Step(f, "written", "installed")
       /\ tables' = tables \cup {Entry(file, 0, Min(Sorted(file)), Max(Sorted(file)))}
       /\ Soil
       /\ UNCHANGED <<disk, up, mem, imm, ids, writer, compaction, registry, budget>>

(* The table is in level 0 and the memtable leaves the queue.              *)
FlushInstalls(f) ==
    LET file == Flushed(f)
    IN /\ Step(f, "written", "installed")
       /\ tables' = tables \cup {Entry(file, 0, Min(Sorted(file)), Max(Sorted(file)))}
       /\ imm' = SelectSeq(imm, LAMBDA q : q.id # f.id)
       /\ Soil
       /\ UNCHANGED <<disk, up, mem, ids, writer, compaction, registry, budget>>

FlushRecords(f) ==
    /\ Step(f, "installed", "recorded")
    /\ manifest' = manifest \cup {[id |-> f.id, level |-> 0]}
    /\ flushedTo' = Max({flushedTo, f.lsn + 1})
    /\ UNCHANGED <<active, sealed, files, memory, writer, compaction, readers, budget>>

Level(l) == {t \in tables : t.level = l}

Overlaps(t, lo, hi) == ~(t.hi < lo \/ t.lo > hi)

(* runLeveledCompaction up to its first await: everything in level 0, or   *)
(* the largest table of another level, and what it overlaps one level down.*)
StartCompaction(l) ==
    LET entries(t) == Cardinality(Sorted(t))
        here == IF l = 0 THEN Level(0)
                ELSE {CHOOSE t \in Level(l) : \A u \in Level(l) : entries(u) <= entries(t)}
        lo == Min({t.lo : t \in here})
        hi == Max({t.hi : t \in here})
        below == {t \in Level(l + 1) : Overlaps(t, lo, hi)}
    IN [pc |-> "reading", level |-> l, cutoff |-> Oldest(registry), out |-> 0,
        inputs |-> {t.id : t \in here \cup below}]

FlushRemoves(f) ==
    /\ f.pc = "recorded"
    /\ flushes' = flushes \ {f}
    /\ sealed' = {s \in sealed : s.id # f.id}
    /\ compaction' = IF Cardinality(Level(0)) >= Threshold /\ compaction = Resting
                     THEN StartCompaction(0) ELSE compaction
    /\ UNCHANGED <<active, files, manifest, flushedTo, memory, writer, readers, budget>>

(* It is tried again from its start.                                       *)
FlushFails(f) ==
    /\ f.pc # "recorded"
    /\ Spend
    /\ flushes' = (flushes \ {f}) \cup {[f EXCEPT !.pc = "queued"]}
    /\ UNCHANGED <<disk, memory, writer, compaction, readers>>

-------------------------------------------------------------------------------
(* Compaction                                                              *)

Inputs == {t \in tables : t.id \in compaction.inputs}

CompactionOpens ==
    /\ compaction.pc = "reading"
    /\ compaction' = [compaction EXCEPT !.pc = "writing", !.out = ids.table]
    /\ ids' = [ids EXCEPT !.table = @ + 1]
    /\ UNCHANGED <<disk, up, mem, imm, tables, writer, flushes, readers, budget>>

(* isBottommostLevel, as it was when the compaction started.               *)
Bottommost ==
    LET here == {t \in Inputs : t.level = compaction.level}
        lo == Min({t.lo : t \in here})
        hi == Max({t.hi : t \in here})
    IN \A t \in tables : t.level > compaction.level + 1 => ~Overlaps(t, lo, hi)

(* Of each key the entry with the highest table id; tombstones end at the  *)
(* bottom, older versions at the cutoff.                                   *)
Compacted ==
    LET with(k) == {t \in Inputs : t.plain[k] # None}
        top(k) == CHOOSE t \in with(k) : \A u \in with(k) : u.id <= t.id
        kept(k) == with(k) # {} /\ ~(top(k).plain[k].del /\ Bottommost)
    IN [id |-> compaction.out,
        plain |-> [k \in Key |-> IF kept(k) THEN top(k).plain[k] ELSE None],
        old |-> [k \in Key |-> {v \in UNION {t.old[k] : t \in Inputs} : v.txn >= compaction.cutoff}]]

CompactionWrites ==
    /\ compaction.pc = "writing"
    /\ files' = files \cup {Compacted}
    /\ compaction' = [compaction EXCEPT !.pc = "written"]
    /\ UNCHANGED <<active, sealed, manifest, flushedTo, memory, writer, flushes, readers, budget>>

(* The largest key of an output is the first one of its last block, "" when*)
(* it is empty.                                                            *)
LoadedEntry(file, level) ==
    LET first == IF Sorted(file) = {} THEN EmptyKey ELSE Min(Sorted(file))
    IN Entry(file, level, first, first)

CompactionInstalls ==
    /\ compaction.pc = "written"
    /\ tables' = (tables \ Inputs) \cup
         {LoadedEntry(CHOOSE t \in files : t.id = compaction.out, compaction.level + 1)}
    /\ compaction' = [compaction EXCEPT !.pc = "installed"]
    /\ Soil
    /\ UNCHANGED <<disk, up, mem, imm, ids, writer, flushes, registry, budget>>

CompactionRecords ==
    /\ compaction.pc = "installed"
    /\ manifest' = {e \in manifest : e.id \notin compaction.inputs} \cup
                   {[id |-> compaction.out, level |-> compaction.level + 1]}
    /\ compaction' = [compaction EXCEPT !.pc = "recorded"]
    /\ UNCHANGED <<active, sealed, files, flushedTo, memory, writer, flushes, readers, budget>>

(* The next level is compacted in turn when it is too large.               *)
CompactionRemoves ==
    LET next == compaction.level + 1
        entries == FoldSet(LAMBDA t, n : n + Cardinality(Sorted(t)), 0, Level(next))
    IN /\ compaction.pc = "recorded"
       /\ files' = {t \in files : t.id \notin compaction.inputs}
       /\ compaction' = IF next < NumLevels - 1 /\ entries > LevelLimit
                        THEN StartCompaction(next) ELSE Resting
       /\ UNCHANGED <<active, sealed, manifest, flushedTo, memory, writer, flushes, readers, budget>>

-------------------------------------------------------------------------------
(* Crash and boot                                                          *)

(* loadFromManifest; without a MANIFEST every table file, in level 0.      *)
Named ==
    IF manifest = {} THEN {LoadedEntry(t, 0) : t \in files}
    ELSE {LoadedEntry(t, e.level) : <<t, e>> \in {p \in files \X manifest : p[1].id = p[2].id}}

Load ==
    /\ up = "down"
    /\ up' = "loaded"
    /\ tables' = Named
    /\ files' = {t \in files : manifest = {} \/ \E e \in manifest : e.id = t.id}
    /\ ids' = [Fresh EXCEPT !.lsn = flushedTo, !.table = Max({t.id : t \in Named} \cup {0}) + 1]
    /\ flushedTo' = IF manifest = {} THEN flushedTo ELSE 0
    /\ UNCHANGED <<active, sealed, manifest, mem, imm, work, readers, budget>>

(* The logs of unfinished flushes in the order of their names, then the    *)
(* active one.                                                             *)
Logs(log) == FoldLeft(LAMBDA recs, s : recs \o s.recs, <<>>,
                      SetToSortSeq(sealed, LAMBDA s, t : s.id < t.id)) \o log

(* probeSStableForTombstone: a flushed tombstone that is not older.        *)
Buried(rec, ts) ==
    LET tombs == {t \in ts : t.plain[rec.key] # None /\ t.plain[rec.key].del}
    IN /\ tombs # {}
       /\ (CHOOSE t \in tombs : \A u \in tombs : u.id <= t.id).plain[rec.key].mark >= rec.lsn

Replayed(log, ts) == SelectSeq(Logs(log), LAMBDA rec : ~Buried(rec, ts))

(* No snapshot is open: the memtable keeps the last version of a key.      *)
MemOf(recs) ==
    [k \in Key |-> LET hits == {i \in DOMAIN recs : recs[i].key = k}
                   IN IF hits = {} THEN <<>> ELSE <<recs[Max(hits)].v>>]

TxnOf(recs) == Max({0} \cup {recs[i].v.txn : i \in DOMAIN recs})

Replay ==
    /\ up = "loaded"
    /\ up' = "up"
    /\ mem' = MemOf(Replayed(active, tables))
    /\ ids' = [ids EXCEPT !.committed = TxnOf(Replayed(active, tables)),
                          !.next = TxnOf(Replayed(active, tables)) + 1,
                          !.lsn = Max({@} \cup {rec.lsn + 1 : rec \in Range(Logs(active))})]
    /\ UNCHANGED <<disk, imm, tables, work, readers, budget>>

(* A process ends, by a crash or after close.                              *)
Crash ==
    /\ up # "down"
    /\ Spend
    /\ \E n \in IF writer.pc # "logging" THEN {0}
                ELSE IF "torn" \in Event THEN 0 .. Len(writer.recs) ELSE {0, Len(writer.recs)} :
         LET log == active \o SubSeq(writer.recs, 1, n)
         IN /\ "blank" \in Event \/ TxnOf(Replayed(log, Named)) >= ids.committed
            /\ active' = log
    /\ up' = "down"
    /\ mem' = Empty /\ imm' = <<>> /\ tables' = {} /\ ids' = Fresh
    /\ writer' = Idle /\ flushes' = {} /\ compaction' = Resting
    /\ registry' = {} /\ snap' = [r \in Reader |-> Closed]
    /\ UNCHANGED <<sealed, files, manifest, flushedTo>>

-------------------------------------------------------------------------------
(* Snapshots                                                               *)

OpenSnapshot(r) ==
    /\ up = "up" /\ ~snap[r].open /\ Spend
    /\ "gap" \in Event \/ writer.pc # "committed"
    /\ registry' = registry \cup {ids.committed}
    /\ snap' = [snap EXCEPT ![r] = [at |-> ids.committed, open |-> TRUE, soiled |-> FALSE,
                                    saw |-> View(ids.committed, mem, imm, tables)]]
    /\ UNCHANGED <<disk, memory, work>>

(* The registry is a set: it forgets every snapshot of that id.            *)
CloseSnapshot(r) ==
    /\ snap[r].open
    /\ registry' = registry \ {snap[r].at}
    /\ snap' = [snap EXCEPT ![r] = Closed]
    /\ UNCHANGED <<disk, memory, work, budget>>

Background ==
    \/ \E f \in flushes : FlushWrites(f) \/ FlushInstalls(f) \/ FlushRecords(f) \/ FlushRemoves(f)
    \/ CompactionOpens \/ CompactionWrites \/ CompactionInstalls
    \/ CompactionRecords \/ CompactionRemoves

Next ==
    \/ Begin \/ Log \/ Commit \/ Apply \/ Swap \/ Seal
    \/ Background \/ \E f \in flushes : FlushFails(f)
    \/ Load \/ Replay \/ Crash
    \/ \E r \in Reader : OpenSnapshot(r) \/ CloseSnapshot(r)

Spec == Init /\ [][Next]_vars

(* Files are written, timers fire, and the process is started again.       *)
FairSpec == Spec /\ WF_vars(Log \/ Commit \/ Apply \/ Swap \/ Seal)
                 /\ WF_vars(Background) /\ WF_vars(Load \/ Replay)

-------------------------------------------------------------------------------
(* Properties                                                              *)

(* What get answers, or will answer once the process is up again.          *)
Contents ==
    IF up = "up" THEN View(ids.committed, mem, imm, tables)
    ELSE CHOOSE view \in {View(TxnOf(b.recs), MemOf(b.recs), <<>>, b.ts) :
                             b \in {[ts |-> Named, recs |-> Replayed(active, Named)]}} : TRUE

Offered ==
    IF writer.pc \in {"logging", "logged", "committed"}
    THEN [k \in {writer.recs[i].key : i \in DOMAIN writer.recs} |->
            Seen((CHOOSE rec \in Range(writer.recs) : rec.key = k).v)]
    ELSE [k \in {} |-> 0]

Abstract == INSTANCE DurableMap WITH Value <- Txn, store <- Contents, offered <- Offered

(* The engine implements the map: flushes, compactions, crashes and        *)
(* recoveries never change what is read, a write changes all its keys.     *)
IsDurableMap == Abstract!Spec

(* A snapshot reads what it read when it was opened, at least until a      *)
(* table is made: nothing is trimmed too early.                            *)
SnapshotsAreStable ==
    \A r \in Reader : snap[r].open /\ ~snap[r].soiled
                      => View(snap[r].at, mem, imm, tables) = snap[r].saw

(* A scan of everything finds what get finds, key by key (scan, get).      *)
FullScanIsGet ==
    up = "up" => \A k \in Key : Seen(Scanned(k, EmptyKey, Max(Key), ids.committed))
                                 = Seen(Lookup(k, ids.committed, mem, imm, tables))

(* Every way to read agrees: the state has its shape, a snapshot sees what *)
(* it saw and a full scan what get finds.                                  *)
ReadsAgree == TypeOK /\ SnapshotsAreStable /\ FullScanIsGet

(* So does a scan that starts at the key (NovaDB.md 6: all documents whose *)
(* id is in the range).                                                    *)
RangeScanIsGet ==
    up = "up" => \A k \in Key : Seen(Scanned(k, k, k, ids.committed))
                                 = Seen(Lookup(k, ids.committed, mem, imm, tables))

(* Every write is answered, or lost in a crash.                            *)
WritesEnd == [](writer # Idle => <>(writer = Idle))
=============================================================================
