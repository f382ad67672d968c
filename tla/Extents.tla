------------------------------ MODULE Extents ------------------------------
(***************************************************************************)
(* `cluster_status_at` and the iterator behind `extents()`: a walk over    *)
(* the virtual disk that merges neighbouring clusters of one status.  A    *)
(* lookup reads the L1 entry under its lock and, after letting go of it,   *)
(* the L2 table through the cache.  Between any two such steps another     *)
(* thread's write_at may add an L2 table, copy a shared one and repoint    *)
(* the L1 entry, write an entry, or empty the caches, and either thread's  *)
(* device calls may fail.                                                  *)
(***************************************************************************)
EXTENDS TableEntry, FiniteSets, Sequences

CONSTANTS
    Images,         \* the images a walk may start on
    EntryBytes,     \* TABLE_ENTRY_BYTES
    MaxWrites,      \* how many table entries another thread may change
    None            \* no L2 table is cached

(* split_virtual.                                                          *)
L2Entries(img) == img.cluster_size \div EntryBytes
L1IndexOf(img, virt) == (virt \div img.cluster_size) \div L2Entries(img)
L2IndexOf(img, virt) == (virt \div img.cluster_size) % L2Entries(img)

TableNamed(img, word) == L2TableOffset(word, img.cluster_size, img.len)

(* What holds of any image: whole sectors and table entries to a cluster,  *)
(* a finite L1 table of any words, L2 tables of any words, offsets that    *)
(* fit the offset field and a descriptor with room for an offset.          *)
ImageTyped(img) ==
    /\ DOMAIN img = {"version", "cluster_size", "virtual_size", "len", "capacity",
                      "l1", "table"}
    /\ {img.version, img.virtual_size, img.len, img.capacity} \subseteq Nat
    /\ img.cluster_size \in Nat \ {0}
    /\ img.cluster_size >= Sector /\ img.cluster_size % Sector = 0
    /\ img.cluster_size >= EntryBytes
    /\ 2 * (img.cluster_size \div Sector) <= BodyLimit
    /\ img.l1 \in [DOMAIN img.l1 -> Word]
    /\ DOMAIN img.l1 \subseteq Nat /\ IsFiniteSet(DOMAIN img.l1)
    /\ img.table \in [DOMAIN img.table -> [0 .. L2Entries(img) - 1 -> Word]]
    /\ DOMAIN img.table \subseteq Nat
    /\ 0 < img.len /\ img.len <= img.capacity /\ img.capacity <= OffsetLimit

(* And of the images that are written: no two words of the active L1 table *)
(* name one L2 table.                                                      *)
TablesApart(img) ==
    \A i, k \in DOMAIN img.l1 :
        LET one == TableNamed(img, img.l1[i])
            two == TableNamed(img, img.l1[k])
        IN  one.case = "Table" =>
                /\ one.at \in DOMAIN img.table
                /\ two.case = "Table" /\ two.at = one.at => i = k

(* cluster_status_at, within the virtual size.                             *)
StatusIn(map) ==
    CASE map.case \in {"Plain", "Compressed"} -> "Allocated"
      [] map.case = "Corrupt" -> "Error"
      [] OTHER -> map.case

WordStatus(img, word, len) ==
    StatusIn(ClusterMap(word, FALSE, img.version, img.cluster_size, len))

(* No word says something else once the image has grown, as one that       *)
(* names a cluster past the end would.                                     *)
WordSettled(img, word) ==
    \A len \in img.len .. img.capacity :
        WordStatus(img, word, len) = WordStatus(img, word, img.len)

Settled(img) ==
    /\ \A i \in DOMAIN img.l1, len \in img.len .. img.capacity :
        L2TableOffset(img.l1[i], img.cluster_size, len) = TableNamed(img, img.l1[i])
    /\ \A at \in DOMAIN img.table, j \in 0 .. L2Entries(img) - 1 :
        WordSettled(img, img.table[at][j])

ASSUME ImagesAssumption ==
    \A img \in Images : ImageTyped(img) /\ TablesApart(img) /\ Settled(img)

(* What a run found; a status never found is not stored.                   *)
Status == {"Allocated", "Zero", "Unallocated"}
Run == [start : Nat, end : Nat, status : Status]

ASSUME WalkAssumption == EntryBytes \in Nat \ {0} /\ None \notin Nat \cup Run

VARIABLES
    image,          \* the header fields a walk uses, the tables, the length
                    \* and how far the device can be extended
    cached,         \* l2_cache: an L1 index and the bytes filed under it
    cursor,         \* ExtentIter::cursor
    run,            \* the locals of next(): start, end, status; or None
    looking,        \* the table a lookup in progress found in L1, or Idle
    yielded,        \* what next() has returned, an extent or Failure
    writer,         \* the other thread's write_at, or NoWrite
    lookups,        \* history: lookup_cluster calls of the walk
    loads,          \* history: L2 tables it read
    seen,           \* history: the statuses each cluster had since it began
    behind,         \* history: l2_cache was read from a table superseded by
                    \* then, or kept by a write that failed
    writes          \* history: writes the other thread began

history == <<lookups, loads, seen, behind, writes>>
vars == <<image, cached, cursor, run, looking, yielded, writer, history>>

Failure == [start |-> 0, end |-> 0, status |-> "Error"]
Total == image.virtual_size
ClusterSize == image.cluster_size
Min2(a, b) == IF a <= b THEN a ELSE b

(* No lookup in progress, nothing cached, no write in progress.            *)
Idle == [case |-> "Idle", at |-> 0, copied |-> FALSE]
Empty == [index |-> None, table |-> <<>>]
NoWrite == [step |-> "none", virt |-> 0, data |-> 0, at |-> 0]

(* lookup_cluster up to the L1 entry's verdict, and what it makes of the   *)
(* entry in the bytes of an L2 table.                                      *)
TableOf(img, virt) ==
    IF L1IndexOf(img, virt) \in DOMAIN img.l1
    THEN TableNamed(img, img.l1[L1IndexOf(img, virt)])
    ELSE Corrupt

EntryIn(img, virt, bytes, copied) ==
    ClusterMap(bytes[L2IndexOf(img, virt)], copied, img.version, img.cluster_size, img.len)

(* What the tables say of the cluster of a virtual byte.                   *)
LookupCluster(img, virt) ==
    LET table == TableOf(img, virt) IN
    IF table.case # "Table" THEN table
    ELSE EntryIn(img, virt, img.table[table.at], table.copied)

StatusAt(img, virt) == StatusIn(LookupCluster(img, virt))

(* A virtual cluster is named by its first byte.                           *)
Starts(img) == {virt \in 0 .. img.virtual_size - 1 : virt % img.cluster_size = 0}

Init ==
    /\ image \in Images
    /\ cached = Empty
    /\ cursor = 0
    /\ run = None
    /\ looking = Idle
    /\ yielded = <<>>
    /\ writer = NoWrite
    /\ lookups = 0
    /\ loads = 0
    /\ seen = [virt \in Starts(image) |-> {StatusAt(image, virt)}]
    /\ behind = FALSE
    /\ writes = 0

-----------------------------------------------------------------------------
(* Mutant: a cached table serves every L1 index.                           *)
AnyServes(virt) == cached.index # None

(* read_l2_entry: the cached bytes serve whenever they are filed under the *)
(* L1 index; otherwise those at the offset found are read and kept.        *)
Serves(virt) == cached.index = L1IndexOf(image, virt)

Contents(virt, at) == IF Serves(virt) THEN cached.table ELSE image.table[at]

Keeps(virt, at) == [index |-> L1IndexOf(image, virt), table |-> Contents(virt, at)]

(* Where the walk's next lookup is: the cursor, or the end of the run.     *)
Frontier == IF run = None THEN cursor ELSE run.end

(* A lookup of the walk begins: the L1 entry is read under its lock.       *)
ReadL1 ==
    /\ looking = Idle
    /\ Frontier < Total
    /\ TableOf(image, Frontier).case = "Table"
    /\ looking' = TableOf(image, Frontier)
    /\ UNCHANGED <<image, cached, cursor, run, yielded, writer, history>>

(* It ends there, when there is no L2 table or a damaged word.             *)
NoTable(virt, status) ==
    /\ looking = Idle
    /\ TableOf(image, virt).case # "Table"
    /\ status = StatusIn(TableOf(image, virt))
    /\ UNCHANGED <<cached, loads, behind>>

CacheAfter(virt) ==
    /\ cached' = Keeps(virt, looking.at)
    /\ loads' = IF Serves(virt) THEN loads ELSE loads + 1
    /\ behind' = IF Serves(virt) THEN behind ELSE TableOf(image, virt).at # looking.at

(* Or it goes on to the table, by now perhaps no longer the one in use.    *)
FromTable(virt, status) ==
    /\ looking # Idle
    /\ status = StatusIn(EntryIn(image, virt, Contents(virt, looking.at), looking.copied))
    /\ CacheAfter(virt)

LookedUp(virt, status) ==
    /\ NoTable(virt, status) \/ FromTable(virt, status)
    /\ lookups' = lookups + 1
    /\ looking' = Idle

LoadFailed(virt) ==
    /\ looking # Idle
    /\ ~Serves(virt)
    /\ lookups' = lookups + 1
    /\ looking' = Idle
    /\ UNCHANGED <<cached, loads, behind>>

(* Mutant: the last extent not clamped to the virtual size.                *)
RunUnclamped(virt, status) == [start |-> virt, end |-> virt + ClusterSize,
                               status |-> status]

(* next() past the end returns None and changes nothing; before it, it     *)
(* looks up the cluster at the cursor.                                     *)
NewRun(virt, status) == [start |-> virt, end |-> Min2(virt + ClusterSize, Total),
                         status |-> status]

Begin ==
    /\ run = None
    /\ cursor < Total
    /\ \E status \in Status :
        /\ LookedUp(cursor, status)
        /\ run' = NewRun(cursor, status)
    /\ UNCHANGED <<image, cursor, yielded, writer, seen, writes>>

(* Mutant: the cursor stays where it was.                                  *)
GiveUpHere ==
    /\ cursor' = IF run = None THEN cursor ELSE run.end
    /\ yielded' = Append(yielded, Failure)
    /\ run' = None
    /\ UNCHANGED <<image, writer, seen, writes>>

(* The first lookup fails, or a later one: the error takes the place of    *)
(* the run, and the iteration is over.                                     *)
GiveUp ==
    /\ cursor' = Total
    /\ yielded' = Append(yielded, Failure)
    /\ run' = None
    /\ UNCHANGED <<image, writer, seen, writes>>

LookupFails(virt) == LookedUp(virt, "Error") \/ LoadFailed(virt)

BeginFails == run = None /\ cursor < Total /\ LookupFails(cursor) /\ GiveUp

MergeFails == run # None /\ run.end < Total /\ LookupFails(run.end) /\ GiveUp

(* Mutant: a cluster of any status joins the run.                          *)
MergeAny ==
    /\ run # None
    /\ run.end < Total
    /\ \E status \in Status : LookedUp(run.end, status)
    /\ run' = [run EXCEPT !.end = Min2(run.end + ClusterSize, Total)]
    /\ UNCHANGED <<image, cursor, yielded, writer, seen, writes>>

(* The cluster at the end of the run has its status and joins it.          *)
Merge ==
    /\ run # None
    /\ run.end < Total
    /\ LookedUp(run.end, run.status)
    /\ run' = [run EXCEPT !.end = Min2(run.end + ClusterSize, Total)]
    /\ UNCHANGED <<image, cursor, yielded, writer, seen, writes>>

Yield ==
    /\ cursor' = run.end
    /\ yielded' = Append(yielded, run)
    /\ run' = None
    /\ UNCHANGED <<image, writer, seen, writes>>

(* It has another status, or the disk ends there: the run is returned.     *)
Break ==
    /\ run # None
    /\ run.end < Total
    /\ \E status \in Status \ {run.status} : LookedUp(run.end, status)
    /\ Yield

(* Mutant: a run that ends with the disk is never returned.                *)
FinishPast ==
    /\ run # None
    /\ run.end > Total
    /\ Yield
    /\ UNCHANGED <<cached, looking, lookups, loads, behind>>

Finish ==
    /\ run # None
    /\ run.end >= Total
    /\ Yield
    /\ UNCHANGED <<cached, looking, lookups, loads, behind>>

-----------------------------------------------------------------------------
(* Another thread's write_at of one cluster, up to update_l2_entry.  Every *)
(* cluster it allocates lies past the end of the image; which offset the   *)
(* allocator picks is RefcountAllocator's matter.                          *)
Fresh == ((image.len + ClusterSize - 1) \div ClusterSize) * ClusterSize

HasRoom == Fresh + ClusterSize <= image.capacity

(* History: what each cluster has been.                                    *)
SeenAfter ==
    seen' = [virt \in Starts(image) |-> seen[virt] \cup {StatusAt(image', virt)}]

WriterGoes(step, at) == writer' = [writer EXCEPT !.step = step, !.at = at]

(* The write looks its cluster up, through the same cache.  Unless it goes *)
(* in place, which leaves the tables alone, it fills a new cluster.        *)
BeginWrite ==
    \E virt \in Starts(image) :
        LET found == TableOf(image, virt)
            map == IF found.case # "Table" THEN found
                   ELSE EntryIn(image, virt, Contents(virt, found.at), found.copied)
        IN  /\ writer = NoWrite
            /\ writes < MaxWrites
            /\ HasRoom
            /\ map.case # "Corrupt"
            /\ ~(map.case = "Plain" /\ map.copied)
            /\ cached' = IF found.case = "Table" THEN Keeps(virt, found.at) ELSE cached
            /\ behind' = IF found.case = "Table" /\ ~Serves(virt) THEN FALSE ELSE behind
            /\ writer' = [step |-> "table", virt |-> virt, data |-> Fresh, at |-> 0]
            /\ image' = [image EXCEPT !.len = Fresh + ClusterSize]
            /\ SeenAfter
            /\ writes' = writes + 1
            /\ UNCHANGED <<cursor, run, looking, yielded, lookups, loads>>

(* A new L2 table with these bytes, named by the L1 entry and COPIED.      *)
Repointed(bytes) ==
    [image EXCEPT
        !.len = Fresh + ClusterSize,
        !.l1[L1IndexOf(image, writer.virt)] = L2EntryFor(Fresh),
        !.table = [at \in DOMAIN image.table \cup {Fresh} |->
                       IF at = Fresh THEN bytes ELSE image.table[at]]]

Repoint(bytes) ==
    /\ HasRoom
    /\ image' = Repointed(bytes)
    /\ SeenAfter
    /\ WriterGoes("entry", Fresh)
    /\ UNCHANGED <<cached, cursor, run, looking, yielded, lookups, loads, behind, writes>>

(* allocate_l2_table: there was none.                                      *)
AddTable ==
    /\ writer.step = "table"
    /\ TableOf(image, writer.virt).case = "Unallocated"
    /\ Repoint([j \in 0 .. L2Entries(image) - 1 |-> EmptyWord])

(* A table without COPIED is read for its refcount, and copied verbatim    *)
(* when that says it is shared; the old one stays as it is.                *)
CopyTable ==
    /\ writer.step = "table"
    /\ TableOf(image, writer.virt).case = "Table"
    /\ ~TableOf(image, writer.virt).copied
    /\ Repoint(image.table[TableOf(image, writer.virt).at])

KeepTable ==
    /\ writer.step = "table"
    /\ TableOf(image, writer.virt).case = "Table"
    /\ WriterGoes("entry", TableOf(image, writer.virt).at)
    /\ UNCHANGED <<image, cached, cursor, run, looking, yielded, history>>

(* The entry is written into the table, and both caches are emptied after. *)
WriteEntry ==
    /\ writer.step = "entry"
    /\ image' = [image EXCEPT !.table[writer.at][L2IndexOf(image, writer.virt)] =
                                    L2EntryFor(writer.data)]
    /\ SeenAfter
    /\ WriterGoes("caches", writer.at)
    /\ UNCHANGED <<cached, cursor, run, looking, yielded, lookups, loads, behind, writes>>

(* Mutant: the cache is left as it is.                                     *)
KeepCaches ==
    /\ writer.step = "caches"
    /\ writer' = NoWrite
    /\ UNCHANGED <<image, cached, cursor, run, looking, yielded, history>>

ForgetCaches ==
    /\ writer.step = "caches"
    /\ writer' = NoWrite
    /\ cached' = Empty
    /\ behind' = FALSE
    /\ UNCHANGED <<image, cursor, run, looking, yielded, lookups, loads, seen, writes>>

(* A device call fails, before or after it took effect: the write returns  *)
(* an error, and once its entry has landed the caches stay as they are.    *)
WriteFails ==
    /\ writer # NoWrite
    /\ writer' = NoWrite
    /\ behind' = (behind \/ writer.step = "caches")
    /\ UNCHANGED <<image, cached, cursor, run, looking, yielded, lookups, loads, seen, writes>>

Walk == ReadL1 \/ Begin \/ BeginFails \/ Merge \/ MergeFails \/ Break \/ Finish

Write ==
    \/ BeginWrite \/ AddTable \/ CopyTable \/ KeepTable
    \/ WriteEntry \/ ForgetCaches \/ WriteFails

Next == Walk \/ Write

(* The walk is one thread's loop over the iterator.                        *)
Spec == Init /\ [][Next]_vars /\ WF_vars(Walk)
-----------------------------------------------------------------------------
(* Each variable has its type.                                             *)
TypeOK ==
    /\ image.l1 \in [DOMAIN image.l1 -> Word]
    /\ cached.index \in DOMAIN image.l1 \cup {None}
    /\ cursor \in 0 .. Total
    /\ run \in Run \cup {None}
    /\ yielded \in Seq(Run \cup {Failure})
    /\ seen \in [Starts(image) -> SUBSET (Status \cup {"Error"})]
    /\ {lookups, loads, writes} \subseteq Nat

Failed == yielded # <<>> /\ yielded[Len(yielded)] = Failure
Over == run = None /\ cursor = Total
ExtentsOnly == IF Failed THEN Len(yielded) - 1 ELSE Len(yielded)

(* The extents returned so far tile the disk from byte 0 in order, without *)
(* a gap or an overlap; each starts on a cluster and only one that reaches *)
(* the virtual size may end inside a cluster; the walk goes on where the   *)
(* last one ended, and nothing is returned after an error.                 *)
ExtentsTile ==
    /\ \A n \in 1 .. ExtentsOnly :
        /\ yielded[n] # Failure
        /\ yielded[n].start = (IF n = 1 THEN 0 ELSE yielded[n - 1].end)
        /\ yielded[n].start < yielded[n].end
        /\ yielded[n].end <= Total
        /\ yielded[n].start % ClusterSize = 0
        /\ yielded[n].end % ClusterSize = 0 \/ yielded[n].end = Total
    /\ ~Failed => cursor = (IF yielded = <<>> THEN 0 ELSE yielded[Len(yielded)].end)
    /\ run # None => run.start = cursor /\ run.end > cursor /\ run.end <= Total
    /\ Failed => cursor = Total /\ run = None

(* Every extent, returned or being built, says of each of its clusters     *)
(* what that cluster was at some moment since the walk began: whatever     *)
(* tables another thread adds, copies or writes between the steps of a     *)
(* lookup, and though a lookup may keep a table superseded meanwhile and   *)
(* serve later calls of next() from it, no status is older than the walk   *)
(* and none is invented.  (The walk begins with nothing cached.)           *)
ToldTrue(extent) ==
    \A virt \in Starts(image) :
        extent.start <= virt /\ virt < extent.end => extent.status \in seen[virt]

ExtentsWereTrue ==
    /\ \A n \in 1 .. ExtentsOnly : ToldTrue(yielded[n])
    /\ run # None => ToldTrue(run)

(* A status can be out of date in only three ways: the cached bytes were   *)
(* read from a table that another thread had superseded by then (after     *)
(* the lookup let go of the L1 lock), or kept by a write that failed, or   *)
(* the entry's write has yet to empty the cache.  Otherwise every cached   *)
(* word is the one the tables hold now, so a lookup is current.            *)
StaleOnlyIfBehind ==
    cached.index # None /\ ~behind =>
        \A virt \in Starts(image) : Serves(virt) =>
            \/ /\ TableOf(image, virt).case = "Table"
               /\ cached.table[L2IndexOf(image, virt)]
                    = image.table[TableOf(image, virt).at][L2IndexOf(image, virt)]
            \/ writer.step = "caches" /\ writer.virt = virt

(* With no writer about, a finished walk describes the disk exactly: a     *)
(* walk without an error met no damaged cluster, each extent's clusters    *)
(* have its status, and neighbouring extents differ, so the runs are       *)
(* maximal.                                                                *)
WalkIsExact ==
    writes = 0 =>
        /\ Over /\ ~Failed => \A virt \in Starts(image) : StatusAt(image, virt) # "Error"
        /\ \A n \in 1 .. ExtentsOnly :
            /\ \A virt \in Starts(image) :
                yielded[n].start <= virt /\ virt < yielded[n].end =>
                    StatusAt(image, virt) = yielded[n].status
            /\ n > 1 => yielded[n].status # yielded[n - 1].status

(* What the doc comment of `extents()` budgets: a whole walk costs one     *)
(* lookup for each cluster and one more for each extent after the first,   *)
(* whoever writes meanwhile; alone, it reads no L2 table twice.            *)
WalkCost ==
    Over /\ ~Failed /\ Total > 0 =>
        /\ lookups = Cardinality(Starts(image)) + Len(yielded) - 1
        /\ writes = 0 => loads <= Cardinality(DOMAIN image.l1)

(* Nothing has happened to the image yet.                                  *)
Untouched == lookups = 0 /\ looking = Idle /\ writes = 0

(* In any image a walk starts on, a payload stored anywhere by a producer  *)
(* that follows the format is found where it was put: the span read covers *)
(* it, ends on a sector, and has less than a sector to spare.              *)
PayloadIsCovered ==
    Untouched => \A at \in 0 .. image.len - 1, length \in 1 .. ClusterSize :
        LET body == EncodeCompressed(at, length, ClusterSize)
            word == [copied |-> FALSE, compressed |-> TRUE, body |-> body]
            span == DecodeCompressed(body, ClusterSize).span
        IN  /\ at < OffsetSpan(ClusterSize)
            /\ at + length + Sector - 1 <= image.len
            => /\ word \in Word
               /\ ClusterMap(word, TRUE, image.version, ClusterSize, image.len)
                    = [case |-> "Compressed", at |-> at, copied |-> FALSE]
               /\ length <= span /\ span < length + Sector
               /\ (at + span) % Sector = 0

(* There too, the word l2_entry_for makes of any host offset, aligned or   *)
(* not, reads back as the cluster at the offset's sectors, writable in     *)
(* place; low bits of the offset never become flags.                       *)
FreshEntryReadsBack ==
    Untouched => \A host \in Sector .. image.len - 1 :
        LET word == L2EntryFor(host)
            map == ClusterMap(word, TRUE, image.version, ClusterSize, image.len)
        IN  /\ ~L2Reserved(image.version, word) /\ ~ZeroFlag(word.body)
            /\ HostOffsetOK(ClusterSize, image.len, host - (host % Sector))
                => map = [case |-> "Plain", at |-> host - (host % Sector), copied |-> TRUE]

(* Every walk comes to an end, on an image of any contents and with a      *)
(* writer about.                                                           *)
WalkEnds == <>Over
=============================================================================
