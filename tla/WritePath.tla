------------------------------ MODULE WritePath ------------------------------
(***************************************************************************)
(* Qcow2Reader's write path with everything that runs beside it: writers   *)
(* serialised by `write_lock`, readers that take no such lock, the L1      *)
(* table in memory, the single-slot L2 and decompression caches, and a     *)
(* device that may persist unflushed writes in any order, fail a call, or  *)
(* lose power.  One action per device call, in the order the code issues   *)
(* them.  Which free cluster an allocation gets, and how its count is      *)
(* stored, is RefcountAllocator's business: here any free cluster may be   *)
(* chosen (ClusterPool).                                                   *)
(***************************************************************************)
EXTENDS ImageLayout

CONSTANTS
    Writers, Readers,           \* threads sharing one handle
    Nobody,                     \* the owner of a free lock
    Images,                     \* the images that may be opened
    FirstFit,                   \* allocation takes the first free cluster
    FirstValue,                 \* the n-th write writes FirstValue + n - 1
    MaxWrites, MaxReads,        \* bounds on the calls made
    MaxFaults, MaxCrashes       \* bounds on device failures

Threads == Writers \cup Readers

Backing == [size : Nat, data : [VCluster -> [Word -> Nat]]]
Image == [dev : Device, snap : [L1Index -> Offset], backing : Backing]

ASSUME WriteAssumption ==
    /\ Nobody \notin Threads /\ Writers \cap Readers = {}
    /\ Images \subseteq Image
    /\ FirstValue \in Nat /\ MaxWrites \in Nat /\ MaxReads \in Nat
    /\ MaxFaults \in Nat /\ MaxCrashes \in Nat

(* The words of the virtual clusters from `first` to `last` a call covers. *)
CallRange == {r \in [first : VCluster, from : Word, last : VCluster, to : Word] :
            \/ r.first = r.last /\ r.from <= r.to
            \/ r.first[1] < r.last[1]
            \/ r.first[1] = r.last[1] /\ r.first[2] < r.last[2]}

(* Mutant: the step goes to the next L1 index.                             *)
AfterVInL1(v) == <<v[1] + 1, v[2]>>

AfterV(v) == IF v[2] + 1 < L2Len THEN <<v[1], v[2] + 1>> ELSE <<v[1] + 1, 0>>

FromV(v) == {u \in VCluster : u[1] > v[1] \/ (u[1] = v[1] /\ u[2] >= v[2])}

Chunk(r, v) == {w \in Word : (v = r.first => w >= r.from) /\ (v = r.last => w <= r.to)}

VARIABLES
    img,           \* the image as it was opened first: device, snapshot, backing
    dev, durable,  \* the device as reads see it, and as of its last flush
    l1, imageLen,  \* the L1 table in memory, and how far the image reaches
    l2Cache,       \* <<l1_index, table>> or <<>>
    deCache,       \* <<virtual cluster, words>> or <<>>
    writeLock, l1Lock,
    pc, reg,       \* each thread's step and its local variables
    writes, reads, faults, crashes,
    may, seen      \* history: see Observe

memory == <<l1, imageLen, l2Cache, deCache>>
locks == <<writeLock, l1Lock>>
bounds == <<writes, reads, faults, crashes>>
vars == <<img, dev, durable, memory, locks, pc, reg, bounds, may, seen>>

(* A thread's locals: the call's range and value, the cluster it is at,    *)
(* the L1 entry and mapping it looked up, the seeded cluster, the clusters *)
(* it allocated, the one to release, and why it is allocating.             *)
Local ==
    [range : CallRange, val : Nat, at : VCluster, l1Entry : L1Entry,
     map : ClusterMap,
     full : [Word -> Nat], new : Offset, table : Offset, old : Offset,
     why : {"data", "table", "copy", "release"}]

Blank ==
    [range |-> [first |-> <<0, 0>>, from |-> 0, last |-> <<0, 0>>, to |-> 0],
     val |-> 0, at |-> <<0, 0>>, l1Entry |-> NoL1Entry, map |-> Unallocated,
     full |-> [w \in Word |-> 0], new |-> None, table |-> None, old |-> None,
     why |-> "data"]

WriteSteps == {"fill", "inPlace", "zero", "copy", "l1Write", "entry", "allocate"}
FlushSteps == {"allocateFlush", "fillFlush", "zeroFlush", "copyFlush", "l1Flush",
               "entryFlush"}
ReleaseSteps == {"release", "releaseFlush"}
OtherSteps == {"idle", "lock", "l1", "l2", "plan", "repoint", "forgetL2",
               "forgetData", "next", "fetch", "store", "done"}
Steps == WriteSteps \cup FlushSteps \cup ReleaseSteps \cup OtherSteps

TypeOK ==
    /\ img \in Images
    /\ dev \in Device /\ durable \in Device
    /\ l1 \in [L1Index -> L1Entry]
    /\ imageLen \in 0 .. Clusters
    /\ l2Cache = <<>> \/ l2Cache \in L1Index \X [L2Index -> L2Entry]
    /\ deCache = <<>> \/ deCache \in VCluster \X [Word -> Nat]
    /\ writeLock \in Writers \cup {Nobody}
    /\ l1Lock \in Writers \cup {Nobody}
    /\ pc \in [Threads -> Steps]
    /\ reg \in [Threads -> Local]
    /\ writes \in 0 .. MaxWrites /\ reads \in 0 .. MaxReads
    /\ faults \in 0 .. MaxFaults /\ crashes \in 0 .. MaxCrashes
    /\ may \in [VWord -> SUBSET Nat]
    /\ seen \in [Readers -> SUBSET Nat]

(* The disk as a lookup that went to the device would see it now.          *)
View == ViewThrough(dev, Targets(l1), img.backing)

Idle == [t \in Threads |-> "idle"]
NoLocals == [t \in Threads |-> Blank]

Init ==
    /\ img \in Images
    /\ dev = img.dev /\ durable = img.dev
    /\ l1 = dev.l1 /\ imageLen = dev.len
    /\ l2Cache = <<>> /\ deCache = <<>>
    /\ writeLock = Nobody /\ l1Lock = Nobody
    /\ pc = Idle /\ reg = NoLocals
    /\ writes = 0 /\ reads = 0 /\ faults = 0 /\ crashes = 0
    /\ may = [x \in VWord |-> {View[x]}]
    /\ seen = [r \in Readers |-> {}]

-----------------------------------------------------------------------------
(* Control flow, and the device *)

(* What a crash may leave: of the words, entries and counts written since  *)
(* the last flush, any may have reached the medium and any may not.        *)
Survivors ==
    [l1 : Mixed(durable.l1, dev.l1),
     rc : Mixed(durable.rc, dev.rc),
     table : MixedRows(durable.table, dev.table),
     data : MixedRows(durable.data, dev.data),
     len : {durable.len, dev.len}]

Go(t, step) == pc' = [pc EXCEPT ![t] = step]

Set(t, fields) == reg' = [reg EXCEPT ![t] = fields]

(* An error or an Ok leaves write_at or read_at and drops its guards.      *)
ReleaseLocks(t) ==
    /\ writeLock' = IF writeLock = t THEN Nobody ELSE writeLock
    /\ l1Lock' = IF l1Lock = t THEN Nobody ELSE l1Lock

Leave(t) ==
    /\ Go(t, "idle")
    /\ Set(t, Blank)
    /\ ReleaseLocks(t)

Fault == faults < MaxFaults /\ faults' = faults + 1

(* Mutant: the length taken at open is kept.                               *)
ReachStale(c) == imageLen' = imageLen

(* dev_write also records how far the image now reaches.                   *)
Reach(c) == imageLen' = IF c > imageLen THEN c ELSE imageLen

(* A write to cluster c has landed; the device reports success, and        *)
(* image_len follows, or an error after all.                               *)
WrittenTo(t, c, step) ==
    \/ Go(t, step) /\ Reach(c) /\ UNCHANGED <<reg, locks, faults>>
    \/ Fault /\ Leave(t) /\ UNCHANGED imageLen

(* The same for a write to what the image already holds.                   *)
Written(t, step) == WrittenTo(t, None, step)

(* Mutant: any offset will do.                                             *)
Anywhere(c) == TRUE

(* checked_host_offset: the offset must lie inside the image.              *)
Inside(c) == c <= imageLen

(* The values a read of each word may return now: the disk's, and, until   *)
(* the writer that has just repointed it has emptied the L2 cache, the one *)
(* it held before.                                                         *)
Current ==
    [x \in VWord |-> {View[x]} \cup
        {ClusterWords(dev.data, img.backing, x[1], reg[t].map)[x[2]] :
            t \in {u \in Writers : /\ pc[u] \in {"entryFlush", "forgetL2"}
                                  /\ reg[u].at = x[1]}}]

(* History: what each word may hold after a crash is what it has held      *)
(* since the last flush(); what a read may return is what its word may     *)
(* have read as since it began.                                            *)
Observe ==
    /\ may' = [x \in VWord |-> {View'[x]} \cup
                (IF crashes' # crashes THEN {} ELSE may[x])]
    /\ seen' = [r \in Readers |->
                IF pc'[r] = "idle" THEN {}
                ELSE LET x == <<reg'[r].at, reg'[r].range.from>>
                     IN  seen[r] \cup Current[x] \cup Current'[x]]

Settle ==
    /\ may' = [x \in VWord |-> {View'[x]}]
    /\ UNCHANGED seen

StartWrite(t) ==
    /\ pc[t] = "idle"
    /\ writes < MaxWrites /\ writes' = writes + 1
    /\ \E r \in CallRange :
        Set(t, [Blank EXCEPT !.range = r, !.at = r.first, !.val = FirstValue + writes])
    /\ Go(t, "lock")
    /\ UNCHANGED <<img, dev, durable, memory, locks, reads, faults, crashes>>
    /\ Observe

(* One writer at a time, until the call returns.                           *)
LockFree == writeLock = Nobody

TakeWriteLock(t) ==
    /\ pc[t] = "lock"
    /\ LockFree
    /\ writeLock' = t
    /\ Go(t, "l1")
    /\ UNCHANGED <<img, dev, durable, memory, l1Lock, reg, bounds>>
    /\ Observe

StartRead(t) ==
    /\ pc[t] = "idle"
    /\ reads < MaxReads /\ reads' = reads + 1
    /\ \E x \in VWord :
        Set(t, [Blank EXCEPT !.at = x[1], !.range = [first |-> x[1], from |-> x[2],
                                                     last |-> x[1], to |-> x[2]]])
    /\ Go(t, "l1")
    /\ UNCHANGED <<img, dev, durable, memory, locks, writes, faults, crashes>>
    /\ Observe

-----------------------------------------------------------------------------
(* lookup_cluster, shared by readers and writers *)

Looked(t) == IF t \in Writers THEN "plan" ELSE "fetch"

(* The L1 entry is read under its own lock, which is dropped at once.      *)
LookupL1(t) ==
    /\ pc[t] = "l1" /\ l1Lock = Nobody
    /\ LET entry == l1[reg[t].at[1]] IN
        IF Inside(entry.at)
        THEN /\ Set(t, [reg[t] EXCEPT !.l1Entry = entry, !.map = Unallocated])
             /\ Go(t, IF entry.at = None THEN Looked(t) ELSE "l2")
             /\ UNCHANGED locks
        ELSE Leave(t)
    /\ UNCHANGED <<img, dev, durable, memory, bounds>>
    /\ Observe

(* Mutant: the slot is used whatever L1 index it holds.                    *)
CachedAnyIndex(i, table) ==
    IF l2Cache # <<>> THEN l2Cache ELSE <<i, dev.table[table]>>

(* read_l2_entry: the slot is reloaded from the table the L1 entry named   *)
(* when it holds another L1 index or nothing.                              *)
Cached(i, table) ==
    IF l2Cache # <<>> /\ l2Cache[1] = i THEN l2Cache ELSE <<i, dev.table[table]>>

LookupL2(t) ==
    /\ pc[t] = "l2"
    /\ LET v == reg[t].at
           cache == Cached(v[1], reg[t].l1Entry.at)
           map == MapOf(cache[2][v[2]], reg[t].l1Entry.copied)
       IN /\ l2Cache' = cache
          /\ IF map.case = "Zero" \/ Inside(map.last)
             THEN /\ Set(t, [reg[t] EXCEPT !.map = map])
                  /\ Go(t, Looked(t))
                  /\ UNCHANGED locks
             ELSE Leave(t)
    /\ UNCHANGED <<img, dev, durable, l1, imageLen, deCache, bounds>>
    /\ Observe

-----------------------------------------------------------------------------
(* read_at *)

DeCached(v) == deCache # <<>> /\ deCache[1] = v

(* read_decompressed_slice finds the cluster in the cache, or decodes it.  *)
Readable(v, map) ==
    map.case = "Compressed" => DeCached(v) \/ Decodes(dev.data, map)

(* A payload that does not decode ends the call, a write's before it has   *)
(* allocated anything.                                                     *)
Undecodable(t) ==
    /\ pc[t] \in {"plan", "fetch"}
    /\ ~Readable(reg[t].at, reg[t].map)
    /\ Leave(t)
    /\ UNCHANGED <<img, dev, durable, memory, bounds>>
    /\ Observe

(* The word is fetched from where the mapping said; a compressed cluster   *)
(* comes from the cache if it is there.                                    *)
Fetch(t) ==
    /\ pc[t] = "fetch"
    /\ Readable(reg[t].at, reg[t].map)
    /\ LET v == reg[t].at
           map == reg[t].map
           hit == map.case = "Compressed" /\ DeCached(v)
           words == IF hit THEN deCache[2]
                    ELSE ClusterWords(dev.data, img.backing, v, map)
       IN /\ Set(t, [reg[t] EXCEPT !.full = words, !.val = words[reg[t].range.from]])
          /\ Go(t, IF map.case = "Compressed" /\ ~hit THEN "store" ELSE "done")
    /\ UNCHANGED <<img, dev, durable, memory, locks, bounds>>
    /\ Observe

(* The decompressed cluster is cached under its virtual cluster.           *)
Store(t) ==
    /\ pc[t] = "store"
    /\ deCache' = <<reg[t].at, reg[t].full>>
    /\ Go(t, "done")
    /\ UNCHANGED <<img, dev, durable, l1, imageLen, l2Cache, locks, reg, bounds>>
    /\ Observe

EndRead(t) ==
    /\ pc[t] = "done"
    /\ Leave(t)
    /\ UNCHANGED <<img, dev, durable, memory, bounds>>
    /\ Observe

-----------------------------------------------------------------------------
(* write_at: plan_write and seed_cluster *)

(* Mutant: off by one.                                                     *)
SharedByThree(map) == ~map.copied /\ dev.rc[map.host] > 2

(* COPIED is trusted; without it the count decides.                        *)
Shared(map) == ~map.copied /\ dev.rc[map.host] > 1

InPlace(map) == map.case = "Plain" /\ ~Shared(map)

(* Mutant: a shared cluster is not released when it is replaced.           *)
ReleaseCompressedOnly(map) == IF map.case = "Compressed" THEN map.host ELSE None

(* The old cluster to release: a shared one loses this reference, a        *)
(* compressed one its only reference from this table.  Of a payload that   *)
(* straddles, the last cluster is not released; nor is the cluster a       *)
(* zero-flagged entry kept.                                                *)
ReleaseOf(map) == IF map.case \in {"Plain", "Compressed"} THEN map.host ELSE None

(* What a reader sees in the whole cluster now.                            *)
Seed(v, map) ==
    IF map.case = "Compressed" /\ DeCached(v) THEN deCache[2]
    ELSE ClusterWords(dev.data, img.backing, v, map)

(* The call's words spliced into a cluster.                                *)
Spliced(words, r, v, val) ==
    [w \in Word |-> IF w \in Chunk(r, v) THEN val ELSE words[w]]

PlanInPlace(t) ==
    /\ pc[t] = "plan"
    /\ InPlace(reg[t].map)
    /\ Go(t, "inPlace")
    /\ UNCHANGED <<img, dev, durable, memory, locks, reg, bounds>>
    /\ Observe

PlanReallocate(t) ==
    /\ pc[t] = "plan"
    /\ ~InPlace(reg[t].map)
    /\ Readable(reg[t].at, reg[t].map)
    /\ LET v == reg[t].at
           map == reg[t].map
           seed == Seed(v, map)
       IN /\ Set(t, [reg[t] EXCEPT !.full = Spliced(seed, reg[t].range, v, reg[t].val),
                                   !.old = ReleaseOf(map), !.why = "data"])
          /\ deCache' = IF map.case = "Compressed" THEN <<v, seed>> ELSE deCache
    /\ Go(t, "allocate")
    /\ UNCHANGED <<img, dev, durable, l1, imageLen, l2Cache, locks, bounds>>
    /\ Observe

(* Not flushed: durability is the caller's flush().  It is the only write  *)
(* that may overwrite an unflushed one, which the device may have          *)
(* persisted by then, in whole or in part.                                 *)
WriteInPlace(t) ==
    /\ pc[t] = "inPlace"
    /\ LET host == reg[t].map.host IN
        /\ dev' = [dev EXCEPT !.data[host] =
                    Spliced(@, reg[t].range, reg[t].at, reg[t].val)]
        /\ \E words \in Mixed(durable.data[host], dev.data[host]) :
            durable' = [durable EXCEPT !.data[host] = words]
        /\ WrittenTo(t, host, "next")
    /\ UNCHANGED <<img, l1, l2Cache, deCache, writes, reads, crashes>>
    /\ Observe

-----------------------------------------------------------------------------
(* allocate_cluster, for the data, a new L2 table or a copy of one *)

(* Mutant: a cluster in use once is taken for free.                        *)
FreeOrOnce(c) == dev.rc[c] <= 1

FreeCluster(c) ==
    /\ dev.rc[c] = 0
    /\ FirstFit => \A d \in Cluster : d < c => dev.rc[d] > 0

Longer(c) == IF c > dev.len THEN c ELSE dev.len

Allocate(t) ==
    /\ pc[t] = "allocate"
    /\ \E c \in Cluster :
        /\ FreeCluster(c)
        /\ dev' = [dev EXCEPT !.rc[c] = 1, !.len = Longer(c)]
        /\ \/ /\ Set(t, IF reg[t].why = "data" THEN [reg[t] EXCEPT !.new = c]
                        ELSE [reg[t] EXCEPT !.table = c])
              /\ Go(t, "allocateFlush")
              /\ UNCHANGED <<locks, faults>>
           \/ Fault /\ Leave(t)
    /\ UNCHANGED <<img, durable, memory, writes, reads, crashes>>
    /\ Observe

(* The refcount table and every block are full.                            *)
NoRoom(t) ==
    /\ pc[t] = "allocate"
    /\ \A c \in Cluster : ~FreeCluster(c)
    /\ Leave(t)
    /\ UNCHANGED <<img, dev, durable, memory, bounds>>
    /\ Observe

(* A flush makes every write so far durable.                               *)
FlushThen(t, step) ==
    /\ durable' = dev
    /\ Go(t, step)
    /\ UNCHANGED <<img, dev, memory, locks, reg, bounds>>
    /\ Observe

FlushAllocate(t) ==
    /\ pc[t] = "allocateFlush"
    /\ FlushThen(t, CASE reg[t].why = "data" -> "fill"
                      [] reg[t].why = "table" -> "zero"
                      [] reg[t].why = "copy" -> "copy")

(* The new cluster is filled before anything points at it.                 *)
Fill(t) ==
    /\ pc[t] = "fill"
    /\ dev' = [dev EXCEPT !.data[reg[t].new] = reg[t].full]
    /\ WrittenTo(t, reg[t].new, "fillFlush")
    /\ UNCHANGED <<img, durable, l1, l2Cache, deCache, writes, reads, crashes>>
    /\ Observe

(* Mutant: the data is not flushed before it is pointed at.                *)
UnflushedFill(t) ==
    /\ pc[t] = "fillFlush"
    /\ Go(t, "repoint")
    /\ UNCHANGED <<img, dev, durable, memory, locks, reg, bounds>>
    /\ Observe

FlushFill(t) == pc[t] = "fillFlush" /\ FlushThen(t, "repoint")

-----------------------------------------------------------------------------
(* repoint_l2: update_l2_entry, allocate_l2_table, update_l1_entry *)

(* Mutant: no table is taken for shared.                                   *)
TableNeverShared(entry) == FALSE

(* l2_table_is_shared *)
TableShared(entry) == ~entry.copied /\ dev.rc[entry.at] > 1

WhatTable(entry) ==
    IF entry.at = None THEN "table" ELSE IF TableShared(entry) THEN "copy" ELSE "own"

Repoint(t) ==
    /\ pc[t] = "repoint"
    /\ LET entry == l1[reg[t].at[1]]
           what == WhatTable(entry)
       IN \/ /\ what = "own"
             /\ Set(t, [reg[t] EXCEPT !.table = entry.at])
             /\ Go(t, "entry")
          \/ /\ what # "own"
             /\ Set(t, [reg[t] EXCEPT !.why = what, !.l1Entry = entry])
             /\ Go(t, "allocate")
    /\ UNCHANGED <<img, dev, durable, memory, locks, bounds>>
    /\ Observe

(* zero_cluster, for a new table ...                                       *)
Zero(t) ==
    /\ pc[t] = "zero"
    /\ dev' = [dev EXCEPT !.table[reg[t].table] = EmptyTable]
    /\ WrittenTo(t, reg[t].table, "zeroFlush")
    /\ UNCHANGED <<img, durable, l1, l2Cache, deCache, writes, reads, crashes>>
    /\ Observe

FlushZero(t) == pc[t] = "zeroFlush" /\ FlushThen(t, "l1Write")

(* Mutant: the copied entries are marked as owned.                         *)
TableCopyOwned(from) ==
    [j \in L2Index |-> [dev.table[from][j] EXCEPT !.copied = TRUE]]

(* ... or the shared table, byte for byte.                                 *)
TableCopy(from) == dev.table[from]

CopyTable(t) ==
    /\ pc[t] = "copy"
    /\ dev' = [dev EXCEPT !.table[reg[t].table] = TableCopy(reg[t].l1Entry.at)]
    /\ WrittenTo(t, reg[t].table, "copyFlush")
    /\ UNCHANGED <<img, durable, l1, l2Cache, deCache, writes, reads, crashes>>
    /\ Observe

FlushCopy(t) == pc[t] = "copyFlush" /\ FlushThen(t, "l1Write")

(* update_l1_entry holds the L1 lock from the write until memory follows.  *)
WriteL1(t) ==
    /\ pc[t] = "l1Write" /\ l1Lock = Nobody
    /\ dev' = [dev EXCEPT !.l1[reg[t].at[1]] = L1EntryFor(reg[t].table)]
    /\ \/ Go(t, "l1Flush") /\ l1Lock' = t /\ UNCHANGED <<reg, writeLock, faults>>
       \/ Fault /\ Leave(t)
    /\ UNCHANGED <<img, durable, memory, writes, reads, crashes>>
    /\ Observe

(* Mutant: memory does not follow the device.                              *)
FlushL1Only(t) ==
    /\ pc[t] = "l1Flush"
    /\ durable' = dev
    /\ l1Lock' = Nobody
    /\ Go(t, IF reg[t].why = "copy" THEN "release" ELSE "entry")
    /\ UNCHANGED <<img, dev, memory, writeLock, reg, bounds>>
    /\ Observe

FlushL1(t) ==
    /\ pc[t] = "l1Flush"
    /\ durable' = dev
    /\ l1' = [l1 EXCEPT ![reg[t].at[1]] = L1EntryFor(reg[t].table)]
    /\ l1Lock' = Nobody
    /\ Go(t, IF reg[t].why = "copy" THEN "release" ELSE "entry")
    /\ UNCHANGED <<img, dev, imageLen, l2Cache, deCache, writeLock, reg, bounds>>
    /\ Observe

(* Mutant: the entry goes to the table named before the allocation.        *)
WriteEntryInOldTable(t) ==
    /\ pc[t] = "entry"
    /\ dev' = IF reg[t].l1Entry.at = None THEN dev
              ELSE [dev EXCEPT !.table[reg[t].l1Entry.at][reg[t].at[2]] =
                        L2EntryFor(reg[t].new)]
    /\ Written(t, "entryFlush")
    /\ UNCHANGED <<img, durable, memory, writes, reads, crashes>>
    /\ Observe

WriteEntry(t) ==
    /\ pc[t] = "entry"
    /\ dev' = [dev EXCEPT !.table[reg[t].table][reg[t].at[2]] = L2EntryFor(reg[t].new)]
    /\ Written(t, "entryFlush")
    /\ UNCHANGED <<img, durable, memory, writes, reads, crashes>>
    /\ Observe

(* Mutant: the entry is not flushed before the release.                    *)
UnflushedEntry(t) ==
    /\ pc[t] = "entryFlush"
    /\ Go(t, "forgetL2")
    /\ UNCHANGED <<img, dev, durable, memory, locks, reg, bounds>>
    /\ Observe

FlushEntry(t) == pc[t] = "entryFlush" /\ FlushThen(t, "forgetL2")

(* Mutant: the L2 cache survives the change.                               *)
AfterEntryKept == l2Cache

(* The caches are emptied only after the entry is on the device.           *)
AfterEntry == <<>>

ForgetL2(t) ==
    /\ pc[t] = "forgetL2"
    /\ l2Cache' = AfterEntry
    /\ Go(t, "forgetData")
    /\ UNCHANGED <<img, dev, durable, l1, imageLen, deCache, locks, reg, bounds>>
    /\ Observe

ForgetData(t) ==
    /\ pc[t] = "forgetData"
    /\ deCache' = <<>>
    /\ Set(t, [reg[t] EXCEPT !.why = "release"])
    /\ Go(t, IF reg[t].old = None THEN "next" ELSE "release")
    /\ UNCHANGED <<img, dev, durable, l1, imageLen, l2Cache, locks, bounds>>
    /\ Observe

-----------------------------------------------------------------------------
(* decrement_refcount, whose error the write path discards *)

(* Mutant: the table is released both times.                               *)
ReleasedTable(t) == reg[t].l1Entry.at

(* The old table after it was copied, or the old cluster at the end.       *)
Released(t) == IF reg[t].why = "copy" THEN reg[t].l1Entry.at ELSE reg[t].old

AfterRelease(t) == IF reg[t].why = "copy" THEN "entry" ELSE "next"

WriteRelease(t) ==
    /\ pc[t] = "release"
    /\ dev.rc[Released(t)] > 0
    /\ dev' = [dev EXCEPT !.rc[Released(t)] = @ - 1]
    /\ \/ Go(t, "releaseFlush") /\ UNCHANGED faults
       \/ Fault /\ Go(t, AfterRelease(t))
    /\ UNCHANGED <<img, durable, memory, locks, reg, writes, reads, crashes>>
    /\ Observe

FlushRelease(t) == pc[t] = "releaseFlush" /\ FlushThen(t, AfterRelease(t))

(* A count already zero, or a device error, is not reported.               *)
ReleaseFails(t) ==
    /\ \/ pc[t] = "release" /\ dev.rc[Released(t)] = 0 /\ UNCHANGED faults
       \/ pc[t] \in ReleaseSteps /\ Fault
    /\ Go(t, AfterRelease(t))
    /\ UNCHANGED <<img, dev, durable, memory, locks, reg, writes, reads, crashes>>
    /\ Observe

-----------------------------------------------------------------------------
(* The next chunk, or the end of the call.                                 *)
NextChunk(t) ==
    /\ pc[t] = "next" /\ reg[t].at # reg[t].range.last
    /\ Set(t, [reg[t] EXCEPT !.at = AfterV(@), !.new = None, !.table = None, !.old = None])
    /\ Go(t, "l1")
    /\ UNCHANGED <<img, dev, durable, memory, locks, bounds>>
    /\ Observe

EndWrite(t) ==
    /\ pc[t] = "next" /\ reg[t].at = reg[t].range.last
    /\ Leave(t)
    /\ UNCHANGED <<img, dev, durable, memory, bounds>>
    /\ Observe

(* A device call fails before it changes anything, or a flush fails.       *)
DeviceError(t) ==
    /\ pc[t] \in WriteSteps \cup FlushSteps \cup {"l2", "plan", "fetch"}
    /\ Fault
    /\ Leave(t)
    /\ UNCHANGED <<img, dev, durable, memory, writes, reads, crashes>>
    /\ Observe

-----------------------------------------------------------------------------
(* What happens beside the threads *)

(* flush() takes no lock.                                                  *)
Flush ==
    /\ durable # dev
    /\ durable' = dev
    /\ UNCHANGED <<img, dev, memory, locks, pc, reg, bounds>>
    /\ Settle

(* Power is lost and the image is opened again.                            *)
Crash ==
    /\ crashes < MaxCrashes /\ crashes' = crashes + 1
    /\ dev' \in Survivors
    /\ durable' = dev'
    /\ l1' = dev'.l1 /\ imageLen' = dev'.len
    /\ l2Cache' = <<>> /\ deCache' = <<>>
    /\ writeLock' = Nobody /\ l1Lock' = Nobody
    /\ pc' = Idle /\ reg' = NoLocals
    /\ UNCHANGED <<img, writes, reads, faults>>
    /\ Observe

Lookup(t) == LookupL1(t) \/ LookupL2(t) \/ Undecodable(t)

WriteStep(t) ==
    \/ TakeWriteLock(t)
    \/ PlanInPlace(t) \/ PlanReallocate(t) \/ WriteInPlace(t)
    \/ Allocate(t) \/ NoRoom(t) \/ FlushAllocate(t) \/ Fill(t) \/ FlushFill(t)
    \/ Repoint(t)
    \/ Zero(t) \/ FlushZero(t) \/ CopyTable(t) \/ FlushCopy(t)
    \/ WriteL1(t) \/ FlushL1(t)
    \/ WriteEntry(t) \/ FlushEntry(t) \/ ForgetL2(t) \/ ForgetData(t)
    \/ WriteRelease(t) \/ FlushRelease(t) \/ ReleaseFails(t)
    \/ NextChunk(t) \/ EndWrite(t)

ReadStep(t) == Fetch(t) \/ Store(t) \/ EndRead(t)

Next ==
    \/ \E t \in Threads : Lookup(t) \/ DeviceError(t)
    \/ \E t \in Writers : StartWrite(t) \/ WriteStep(t)
    \/ \E t \in Readers : StartRead(t) \/ ReadStep(t)
    \/ Flush
    \/ Crash

Spec == Init /\ [][Next]_vars

-----------------------------------------------------------------------------
(* Properties *)

(* An image at rest whose metadata is in order, whatever else it holds: its *)
(* counts cover its references, no cluster is a table and something else,  *)
(* and what is marked COPIED is counted once.                              *)
SoundImage(image) ==
    /\ \A c \in Cluster : References(image.dev, image.snap, c) <= image.dev.rc[c]
    /\ \A i \in L1Index : LET a == image.dev.l1[i].at IN
        a \in Cluster => PathsThrough(image.dev, Targets(image.dev.l1), a) = {<<i>>}
    /\ \A i \in L1Index : LET e == image.dev.l1[i] IN
        e.copied /\ e.at \in Cluster => image.dev.rc[e.at] = 1
    /\ \A v \in VCluster : LET e == EntryAt(image.dev, Targets(image.dev.l1), v) IN
        e.copied /\ e.at \in Cluster => image.dev.rc[e.at] = 1

(* An image in which no table is shared, with a snapshot or in any other   *)
(* way, and a cluster of plain data belongs to one virtual cluster of the  *)
(* active tables. A snapshot may share it; so may nothing else.            *)
Unshared(image) ==
    /\ \A i \in L1Index : LET a == image.dev.l1[i].at IN a \in Cluster => image.dev.rc[a] = 1
    /\ \A v \in VCluster : LET e == EntryAt(image.dev, Targets(image.dev.l1), v) IN
        e.kind = "standard" /\ e.at \in Cluster =>
            PathsThrough(image.dev, Targets(image.dev.l1), e.at) = {v}

(* Of an image: what its tables name lies inside it.                       *)
InsideImage(image) ==
    \A v \in VCluster :
        /\ image.dev.l1[v[1]].at \in Cluster => image.dev.l1[v[1]].at <= image.dev.len
        /\ LET at == EntryAt(image.dev, Targets(image.dev.l1), v).at
           IN  at \in Cluster => at <= image.dev.len

Counts(d) == \A c \in Cluster : References(d, img.snap, c) <= d.rc[c]

(* No host cluster has more references than its count says, on the device  *)
(* at every step and in every image a crash could leave: an allocation, a  *)
(* copy or a release interrupted anywhere leaks at worst.                  *)
CountsCoverReferences == Counts(dev) /\ \A d \in Survivors : Counts(d)

Honest(d) ==
    \A i \in L1Index : d.l1[i].copied /\ d.l1[i].at \in Cluster =>
        /\ d.rc[d.l1[i].at] = 1
        /\ References(d, img.snap, d.l1[i].at) = 1
        /\ \A j \in L2Index :
            LET entry == d.table[d.l1[i].at][j] IN
            entry.copied /\ entry.at \in Cluster =>
                d.rc[entry.at] = 1 /\ References(d, img.snap, entry.at) = 1

(* COPIED is never a lie where the code trusts it: a table or cluster      *)
(* marked so has one reference, so a write in place changes nobody else.   *)
CopiedIsHonest == Honest(dev) /\ \A d \in Survivors : Honest(d)

SnapshotView(d) == ViewThrough(d, img.snap, img.backing)

(* What an internal snapshot reads as never changes, nor would it after a  *)
(* crash: a cluster or table it shares is copied before it is written.     *)
SnapshotIntact ==
    /\ SnapshotView(dev) = SnapshotView(img.dev)
    /\ \A d \in Survivors : SnapshotView(d) = SnapshotView(img.dev)

(* The rewritten clusters whose old entry had a reference to c that the    *)
(* write path never gives back: a zero-flagged entry's cluster, and the    *)
(* last cluster of a payload that straddles two.                           *)
LeftBehind(c) ==
    {v \in VCluster :
        LET was == EntryAt(img.dev, Targets(img.dev.l1), v) IN
        /\ EntryAt(dev, Targets(dev.l1), v) # was
        /\ \/ was.kind = "zero" /\ was.at = c
           \/ was.kind = "straddling" /\ LastOf(was) = c}

(* With no call in progress and nothing gone wrong the image is as clean   *)
(* as a single thread leaves it: every count equals its references, plus   *)
(* exactly the ones left behind, each once, whatever was shared. A full    *)
(* image is another matter: a write that finds no cluster for a table      *)
(* gives up and leaves the data cluster it filled counted.                 *)
NothingLeaks ==
    (\A t \in Threads : pc[t] = "idle") /\ faults = 0 /\ crashes = 0 =>
        \A c \in Cluster :
            References(dev, img.snap, c) + Cardinality(LeftBehind(c)) = dev.rc[c]

(* Whenever the L1 lock is free, the L1 table in memory is the device's.   *)
L1MatchesDevice == l1Lock = Nobody => l1 = dev.l1

(* A bound taken from `image_len` never refuses a cluster this handle      *)
(* published: what the tables name is inside, unless it was outside before.*)
PublishedIsInside ==
    \A v \in VCluster :
        /\ l1[v[1]].at \in Cluster => Inside(l1[v[1]].at)
        /\ LET at == EntryAt(dev, Targets(l1), v).at IN at \in Cluster => Inside(at)

(* The words a lookup starting now would find, caches included.            *)
Visible(v) ==
    LET entry == IF l1[v[1]].at = None THEN NoEntry
                 ELSE Cached(v[1], l1[v[1]].at)[2][v[2]]
        map == MapOf(entry, FALSE)
    IN  IF map.case = "Compressed" /\ DeCached(v) THEN deCache[2]
        ELSE ClusterWords(dev.data, img.backing, v, map)

FollowingSteps == {"l2", "plan", "fetch", "allocate", "inPlace", "release"}

OffsetsAreChecked ==
    \A t \in Threads : pc[t] \in FollowingSteps =>
        /\ reg[t].l1Entry.at <= dev.len
        /\ reg[t].map.case = "Zero" \/ reg[t].map.last <= dev.len

PayloadsAreChecked ==
    \A t \in Writers :
        pc[t] = "allocate" /\ reg[t].why = "data" /\ reg[t].map.case = "Compressed"
            => Decodes(dev.data, reg[t].map)

(* No step reads, counts or writes at an offset the device does not reach, *)
(* however damaged the tables are: such an entry ends the call, and so     *)
(* does a payload that does not decode, before anything is allocated.      *)
DamageIsRefused == OffsetsAreChecked /\ PayloadsAreChecked

(* When a chunk is done, a lookup that starts then finds the new words,    *)
(* through the caches.                                                     *)
WriteIsVisible ==
    \A t \in Writers : pc[t] = "next" =>
        \A w \in Chunk(reg[t].range, reg[t].at) : Visible(reg[t].at)[w] = reg[t].val

(* A read returns a value its word held at some moment while it ran.       *)
ReadsAreCurrent ==
    \A r \in Readers : pc[r] = "done" => reg[r].val \in seen[r]

(* The chunk a writer is at has landed.                                    *)
Landed(t) ==
    \/ pc[t] \in {"entryFlush", "forgetL2", "forgetData", "next"}
    \/ pc[t] \in ReleaseSteps /\ reg[t].why = "release"

Todo(t) ==
    LET r == reg[t].range
        ahead == FromV(reg[t].at) \ FromV(AfterV(r.last))
    IN  IF pc[t] = "idle" THEN {}
        ELSE {x \in VWord :
                /\ x[1] \in IF Landed(t) THEN ahead \ {reg[t].at} ELSE ahead
                /\ x[2] \in Chunk(r, x[1])}

Disk == INSTANCE VirtualDisk WITH
    Writer <- Writers,
    Value <- Nat,
    disk <- View,
    todo <- [t \in Writers |-> Todo(t)],
    payload <- [t \in Writers |-> reg[t].val]

(* Two-level tables, copy-on-write, allocation, caches and crashes         *)
(* together implement a flat disk.                                         *)
ImplementsDisk == Disk!Spec
=============================================================================
