# A formal model of rust-img-qcow2

TLA+ modules, TLC configurations and TLAPS proofs for the qcow2 reader and
writer in `src/` (crate `rust-img-qcow2`). All line numbers are of this commit;
`reader.rs` means `src/src/reader.rs`.

## 1. The system

A `Qcow2Reader` is one open image: a block device handle behind `Arc`, the
header, and a handful of mutexes. Any number of threads may call `read_at`,
`write_at`, `flush` and `cluster_status_at` on it.

| Component | Where | State | Operations | Hard part |
|---|---|---|---|---|
| Refcount allocator | `reader.rs` `allocate_cluster`, `locate_refcount_entry`, `decrement_refcount` | refcount table and blocks on the device; `refcount_table` (resident copy), `alloc_cursor` | find a free cluster (pass 1 in present blocks, pass 2 adds a block), count it; drop a count | order of device writes and flushes against a crash; the resident copy and the cursor against calls that fail half way |
| Write path | `reader.rs` `write_at`, `plan_write`, `seed_cluster`, `repoint_l2`, `update_l2_entry`, `allocate_l2_table`, `update_l1_entry`, `flush` | L1/L2 tables on the device, `l1_table`, `write_lock` | copy on write of clusters and of L2 tables, in-place writes, release of what is replaced | crash between any two of about fifteen device calls per chunk; sharing with internal snapshots; several writers |
| Lookup and caches | `reader.rs` `lookup_cluster`, `read_l2_entry`, `read_at`, `read_decompressed_slice` | `l2_cache`, `decompress_cache`, `image_len` | map a virtual cluster; read words | readers take no lock across the L1 read, the L2 read and the data read |
| Locks | every method of `reader.rs` | seven mutexes per image: `write_lock`, `l1_table`, `l2_cache`, `decompress_cache`, `image_len`, `refcount_table`, `alloc_cursor` | lock, drop at the end of a scope | guards that live across device calls and across calls that lock again; the backing images' mutexes |
| Compressed clusters | `reader.rs` `decode_compressed_cluster`, `read_decompressed_slice` | none of its own | decode a descriptor, decompress | several payloads in one host cluster; descriptor bit widths |
| Extents | `reader.rs` `cluster_status_at`, `ExtentIter` | a position | maximal runs of one status | clamping at the end of the disk; an error ends the iteration |
| Open, backing chain | `reader.rs` `open`, `open_rw`, `open_best_effort`, the on-device entries, `open_inner` | the backing reader | parse, check, recurse into the backing file | depth limit, cycles, path rules, the second attempt of the best effort |
| Header | `header.rs` | none | `parse`, `check_supported`, `check_writable` | the feature gates; arithmetic on unchecked fields |
| Command line: read and write | `cli/qcow2/img.rs` | files, stdin and stdout | `read` to a pipe or to a `.partial` file that is renamed, `write` from a file or a pipe | failure, kill and power loss half way; an input that changes; two commands at once |
| Command line: the rest | `cli/` | none | argument parsing, `info`, sizes | nothing to check |
| C ABI | `capi.rs` | boxes and counted devices | open from path or device; the rest is `fs_core`'s | who owns the device handle, and when |
| Errors, crate root | `error.rs`, `lib.rs` | none | none | nothing to check |

How they meet: `write_at` takes `write_lock` for the whole call, looks a chunk
up through the caches, asks the allocator for clusters, writes and flushes,
changes the L2 (and L1) entry, empties the caches, and gives the old cluster
back. `read_at` does the lookup only. They share `l1_table`, `l2_cache`,
`decompress_cache` and `image_len` (each under its own mutex) and the device. The allocator is called with the write lock held, so its calls never
overlap; what interleaves with its steps is the device. `extents()` walks the
disk through the same lookup with no lock held between two clusters. The command
line, the users of the library and the C ABI all come in through `open_inner`;
the first shares files with other processes, the last turns a reader back into a
device another reader may stand on.

What makes each correct:

- allocator: a cluster in use is never handed out and never counted free, now or
  after a crash; its own blocks are nobody else's; what it keeps in memory
  agrees with the device; it says "full" only when full; the device reaches a
  cluster before the cluster is counted;
- write path: the image behaves as a flat disk; every host cluster's count
  covers its references at every step and in every image a crash may leave;
  COPIED is honest where it is trusted; a snapshot never changes; serialised
  writers lose nothing and leak nothing;
- lookup and caches: a read returns a value its word held while it ran; a
  finished write is visible; no offset outside the image is used;
- locks: no thread waits for itself or in a circle with others, through the
  backing images too; every call returns, and a read does not wait for a write's
  allocation;
- extents: they partition the disk and say only what was true since the walk began;
- open and header: everything accepted is something the rest can handle;
  writing is refused where the write path would be wrong; the chain ends;
- command line: the destination is the whole disk or untouched;
- C ABI: each handle is freed exactly once.

## 2. The modules

| Module | Models | Role |
|---|---|---|
| `ClusterPool` | what allocation promises: every cluster's count now and after a crash, the references held, and which counts each step changes, to what | abstract specification |
| `RefcountAllocator` | `allocate_cluster` and `decrement_refcount`, one action per device call, and the device | implements `ClusterPool` |
| `MCRefcountAllocator` | four small images | instance for TLC |
| `RefcountAllocatorProofs` | typing, the inductive invariant, counting theorems, the cursor, "full", room on the device; `RefcountAllocator` implements `ClusterPool` | proofs |
| `ImageLayout` | entries, `ClusterMap`, what a word reads as, reference paths, what a crash may leave | operators shared by the write path |
| `VirtualDisk` | a flat disk with flush, failing writes and crashes | abstract specification |
| `WritePath` | `write_at` and `read_at` with everything they call, any number of threads | implements `VirtualDisk` |
| `MCWritePath` | a dozen small images | instances for TLC |
| `WritePathProofs` | typing, the write lock | proofs |
| `WriteHandleProofs` | what a handle keeps in memory agrees with the device | proofs |
| `WriteCountsProofs` | counts, COPIED, the snapshot | proofs |
| `WriteDiskProofs` | payloads, exact counts; `WritePath` implements `VirtualDisk` | proofs |
| `WriteReadsProofs` | readers beside writers: what a read returns | proofs |
| `LockOrder` | the mutexes of a chain of images, and the order in which every function takes and drops them | specification of its own |
| `MCLockOrder` | an image over a backing image, two writers and a reader | instance for TLC |
| `TableEntry` | the words of L1 and L2 tables, the compressed descriptor | operators with the widths as parameters |
| `Extents` | `cluster_status_at` and `ExtentIter` beside another thread's `write_at`, through the L2 cache both use | uses `TableEntry` |
| `MCExtents` | every word of a narrow format; walks over four clusters; shared, owned and absent tables that are written | instance for TLC |
| `ExtentsProofs` | extents tile the disk, are true, and cost what they must; entries and descriptors read back | proofs |
| `ImageHeader` | `parse`, `check_supported`, `check_writable` | operators on header fields |
| `ImageOpen` | every way to open an image, and the recursion | uses `ImageHeader` |
| `CliTransfer` | the commands `read` and `write`, kills, power loss | uses `ImageOpen` |
| `HandleOwnership` | the C ABI's handles | uses `ImageOpen` |
| `Session` | commands, users of the library and a C caller together | composes the three |
| `MCSession` | headers at every limit, chains of every shape, transfers, a caller | instance for TLC |
| `SessionProofs` | what an open promises, the ownership rule; what FILE, the pipe and the guest hold | proofs |

The definitions named `Mutant` in a comment are deliberate errors, kept beside
the definition they damage; `PROJECT.json` pairs each with the property that
detects it. Nothing in a specification uses them.

### RefcountAllocator

A host cluster is `<<slot, entry>>`: which refcount-table slot governs it and
which entry of that slot's block counts it (`locate_refcount_entry` divides the
cluster index by the entries per block). An absent slot is offset zero, which is
also the header's offset, hence `NoBlock == Header`.

- `rt`, `block`, `len` are the device as reads see it; `rtD`, `blockD`, `lenD`
  what a power loss would leave. A flush makes them equal (`Flushed`);
  `Writeback` persists any one unflushed write at any time; `Crash` falls back
  to the durable copy and reopens the image.
- `loaded` and `resident` are `refcount_table`; `cursor` is `alloc_cursor`.
- `pc` names the next device call, `target` the cluster the call is about.
- `held` is history: the references callers hold. A caller drops a reference
  durably before it calls `decrement_refcount`, as the write path does
  (`BeginDrop`).
- Any device call may fail (`DeviceError`, `FlushError`), and a write may fail
  after it landed (`WrittenThen`); the `?` then ends the call (`Fail`). When
  `Publish` lands and fails the resident table does not follow, as at
  `reader.rs` 1157-1161.
- `Capacity` is how far the device can be extended (`dev_grow_for_cluster`), so
  a fixed-length device and an exhausted one are instances.

`ClusterPool` knows no table, block, scan or cursor: `count` and `countD` are every
cluster's count now and after a crash, `own` and `ownD` the allocator's own clusters,
`ready` what is counted for a call that goes on, `due` what has lost a reference and
not yet its count. Each of its steps says which counts change and to what: `Take`
sets one free cluster's count to one, and at most one more for the allocator's own;
`Grant` hands a cluster over with every count durable; `Return` takes one from
the count of what was forgotten, once; `TakeOver` and `Abandon` change no count;
`Persist` makes durable what is current; `Crash` leaves the durable counts.

`WellFormed` says which images may be opened. It does not rely on the header's
own count: the scan has a guard for a zero there (`FoundFree`, `c # Header`).

### WritePath

One action per device call, in the order of the code, for `StartWrite` to
`EndWrite` (`write_at`), and for a reader one action per lock it takes. `reg[t]`
holds a thread's locals across those steps, which is what lets a reader use an
L1 entry, a mapping or a host offset after a writer has changed it.

- `dev` and `durable` are the device now and at the last flush. `Survivors` is
  every device a crash may leave: of the words, entries and counts that differ,
  any may have reached the medium. Only `WriteInPlace` may write over an
  unflushed word, so it first lets the device have persisted it or not.
- An allocation is one step that counts any free cluster (`FreeCluster`), then
  a flush. With `FirstFit` the first one is taken, which is what the allocator
  does while its cursor is right (`ScanMissesNothing`). Growth is merged with the
  count; adding a refcount block is left to `RefcountAllocator`.
- `deCache` and `l2Cache` are the two single-slot caches, keyed as in the code:
  the L2 cache by L1 index alone, the other by virtual cluster alone.
- A reader reads one word. A read of several chunks is a sequence of such reads,
  the code's loop.
- The snapshot is its L1 table (`img.snap`), which this crate never writes; its
  L2 tables and clusters are on the device like any other.
- A compressed payload is a word of one host cluster, or straddles two
  (`LastOf`). It may not decode (`Undecodable`): the read or the write then ends
  before anything is allocated.
- Two references are never given back, and `NothingLeaks` says that they are the
  only ones (`LeftBehind`): the cluster a zero-flagged entry kept (873-876), and
  the last host cluster of a straddling payload (856-858), which the code states
  and leaves open. The images count every host cluster a payload lies in, as the
  format asks.
- `may` and `seen` are history, kept by `Observe`: what each word may hold after
  a crash, and what each word has read as while a read runs. While a writer has
  written an L2 entry and not yet emptied the cache, both values count as
  current.
- A device write that fails has either landed whole or not at all; part of it
  may survive a crash all the same.
- A second lookup of the L1 entry in `update_l2_entry` checks the offset again;
  it is under the same write lock as the first and always passes, so `Repoint`
  has no error branch for it.

### TableEntry and Extents

`TableEntry` is arithmetic on words. `Sector`, `OffsetLimit` and `BodyLimit` are
2^9, 2^56 and 2^62 in the code; as parameters they let TLC enumerate every word
of a narrow format. A word is its two top bits and the rest. `EncodeCompressed`
is the direction the library itself never takes, from the format.

In `Extents` `run` holds the locals of `next()` while it merges clusters; `Begin`,
`Merge`, `Break`, `Finish` and the two failing lookups are the branches of `next()`
(reader.rs 250-290). A lookup takes two steps, as in the code: `ReadL1` reads the L1 entry
under its lock (1571-1588), and the branch that ends it goes on to the table
(`FromTable`, 1656-1669) by what `looking` kept; `NoTable` is a lookup that ends at L1. `cached`
is the L2 cache: an L1 index and the bytes filed under it, which serve whatever table
that L1 entry names by now. A walk begins with nothing cached.

Between any two steps another thread's `write_at` proceeds: `BeginWrite` looks its cluster up
through the same cache and fills a new cluster; `AddTable` makes a table, `CopyTable` copies a
shared one verbatim and repoints L1, `KeepTable` takes an owned one, or a shared mark that the refcount does not bear out;
`WriteEntry` writes the entry; `ForgetCaches` empties the caches; `WriteFails` ends it after any
of these. A superseded table may therefore be read, cached and used by later calls of
`next()`. What it allocates lies past the end of the image, up to `capacity`.

`seen` records which statuses a cluster had since the walk began, and `behind` whether
the cached bytes came from a superseded table or outlived a write that failed.
Images are `ImageTyped`; no two L1 words name one L2 table (`TablesApart`, what
the code relies on when it writes a table); and no word's verdict
changes when the image grows (`Settled`: a word that names a cluster past the end would).

### LockOrder

A thread is what it has still to do (`todo`, a sequence of steps in program order)
and the guards it holds (`held`, the latest last). A call is replaced by one of the
courses its function can take, so calls nest as they do in the code and a
scope's guard is dropped where the scope ends: `Under(i, field, body)` is a guard that lives over `body`,
`Briefly` one that is gone in the same statement. `Found` and `Match` are a lookup's
answer and the `match` on it. `Fail`, and a device call that fails, unwind every scope of the call, as
the `?` does; below `decrement_refcount`, whose errors its callers drop, a failing device call is
`Tried` and goes on. A call on image i may go on to image i + 1 (`read_unallocated`), which has
mutexes of its own.

Device calls in a row are one step, and whatever the data decides (which verdict, whether the
table is cached, whether a scan finds a cluster) is left open, so every order the
data may lead to is among the behaviours. A loop over clusters runs at most `MaxChunks` times.
Left out: a panic that poisons a mutex, and `flush`, which takes none.

### ImageHeader and ImageOpen

A header is a record of the fields the checks look at. A file has a `prefix`:
shorter than 72 bytes, shorter than the feature fields, or whole; the code
fills what is missing with zeros and always hands `parse` 112 bytes, so
`parse`'s own check for a buffer under 104 bytes never fires from here, though
the comment at 467-468 of `reader.rs` counts on it "if needed".

`opening[t]` is one call: its stage (`open`, `header`, `l1`, `backing`), the depth
left, and in `held` the devices opened so far, leaf first. The recursion of
`open_inner` is a loop over those stages, because nothing happens after the
recursive call but storing its result. `Refused` is every `?`: what is held is
dropped, and `open_best_effort` starts again read-only. `OpenFails` lets any read
or open fail.

The doc of `qcow2_open_on_device` (`capi.rs` 49-52) says that an image whose
`backing_file_size` is not 0 is rejected; the code, and the model, ask for both
the offset and the size.

### CliTransfer

A file is an inode, so that a process keeps the FILE.partial it opened after
another process renamed or removed it. `inode[i].durable` is what a power loss
leaves; `SyncAll` makes it the data. After a power loss each file holds one of
the two as a whole, and FILE names what it names or any file it named before: a
rename alone is no barrier. `Kill` stops a process at any step. A failing write
leaves any prefix of its bytes.

`guest` is the disk seen through the image; how a write reaches it is
`WritePath`'s subject. `InputChanges` is another program that appends to or cuts
the regular file on stdin between the length check and the copy; `NextInput`
then yields short reads. A pipe is taken in whole by `StartWrite`, since nothing
else is observable until then. A second `check_writable` in `write` is left out:
it repeats the gate `open_rw` has passed.

Two things the model shows that no property claims otherwise:

- two `read -o FILE` at the same time share `FILE.partial`, and the second one
  empties what the first is writing (`File::create`). TLC then finds FILE with
  the bytes of neither range, and exit status 0. `FileIsWhole` therefore has the
  premise `~overlapped`; the doc of `read` (`img.rs` 315-318), "so FILE is never
  left half written", does not mention it;
- a failing rename leaves `FILE.partial`, and so does a failing `remove_file`,
  which is ignored.

### HandleOwnership and Session

A handle number stands for the address of a box and of the device in it.
`node[h]` counts boxes and references; `under` is the device below a reader.
`open_on_device` takes the device out of its box and drops the box before it
opens anything (`Reclaim`), so `below` holds the only reference until the call
returns; `ReturnHandle` gives it to the reader, `ReturnNull` drops it. `Destroy` is a
destructor, which may drop the next device. An address is used again once free.
A panic is caught at the boundary and ends the call like an error.

`Session` interleaves tasks over one set of files: commands, users that open in
one of the three ways, one C caller. `Advance(t)` is what proceeds by itself,
`Disturbed`, `User`, `Calls` and `Outside` what need not happen. A power loss takes
the handles too (`HandlesLost`).

## 3. What is checked

Bounds are constants, named in each `.cfg`. Deadlock is checked for the
allocator (a call is always possible). The write path's runs stop when the calls
allowed are made, a walk stops at the end of the disk, and a command ends, so
these configurations say `CHECK_DEADLOCK FALSE`; something stuck on the way is
caught by `WalkEnds` and `CallsEnd`. The run of `LockOrder` checks deadlock: a thread
may always call again.

| Run | Instance | Shows |
|---|---|---|
| `refcount_allocator` | 3 slots of 3 entries, 4 images (full block, hole in the table, header counted free, device at its end), 1 fault, 1 crash | `HeldIsCounted`, `MetadataIsCounted`, `ResidentIsSafe`, `Inductive`, `RoomFirst`, `ScanMissesNothing`, `FullMeansFull`; implements `ClusterPool` |
| `write_crash` | 1 writer, 2 writes of any range over 2 clusters of 2 words, 1 crash, 10 images | `CountsCoverReferences`, `CopiedIsHonest`; implements `VirtualDisk` |
| `write_faults` | the same with 1 failing device call as well, 4 images | counts, COPIED and the snapshot survive an abandoned write |
| `write_writers` | 2 writers, 6 images | `NothingLeaks`, `L1MatchesDevice`, `WriteIsVisible`, `SnapshotIntact` |
| `write_readers` | 1 writer of 2 writes, 1 reader, 5 images | `ReadsAreCurrent`, `WriteIsVisible` |
| `write_two_tables` | 2 L1 entries of one L2 entry each, tables that name offsets past the end, payloads that end past it or do not decode | `ReadsAreCurrent` with one cache slot for two tables, `PublishedIsInside`, `DamageIsRefused` |
| `lock_order` | an image and its backing image; 2 writers and 1 reader, 1 cluster to a call ; writers must go on only where they hold a mutex readers take | `NoWaitCycle`, `CallsReturn` |
| `extents` | every L1 and L2 word of a narrow format, versions 2 and 3, two cluster sizes; 4 clusters in 2 tables with 5 kinds of entry each; 2 writes by another thread where there is room, over tables owned, shared and absent; any device call may fail | `ExtentsTile`, `ExtentsWereTrue`, `StaleOnlyIfBehind`, `WalkIsExact`, `WalkEnds`; `PayloadIsCovered` |
| `session` | some 60 headers at and past each limit and 13 chains, opened in 3 ways; 12 reads, 2 reads at once, 72 writes over a disk of 5 bytes in chunks of 2; a caller with 3 handles | `ChainIsSound`, `FileIsWhole`, `TransferIsExact`, `HandlesBalance`, `CallsEnd` |
| `reader_revives_table`, `copied_in_shared_table`, `l1_flush_fails` | see section 5 | three disagreements between the code and its comments |

Why the bounds are enough:

- three slots give a table with a hole between two present blocks, a block that
  lies in another slot's range, and a last slot; three entries give a block's
  own count, the caller's, and one more; one fault and one crash together give
  a retry after a failure and a reopening in the middle of it;
- two virtual clusters of two words give partial writes of a cluster at either
  end, writes that span clusters, and a neighbour in the same L2 table; two
  writes give a write over what the first one left, in place or not; six or so
  host clusters let each write take a cluster for its data and one for a table,
  with one released in between taken again;
- a crash persists any mix of the unflushed writes, so one crash per behaviour
  covers the orders the device may choose; a second write after it covers use of
  the reopened image;
- for words, `Sector` 4, `OffsetLimit` 64 and `BodyLimit` 256 keep every field the
  code tells apart (flag bits, offset, the reserved bits below and above it, a
  descriptor whose boundary moves with the cluster size) and make 1024 words,
  all enumerated; walks have two clusters to a table and two tables, so runs
  cross from one table into the next, end inside one, and end with the disk;
  two writes are enough to supersede a table a lookup is about to read and to change
  what its copy says, or to change two clusters of one run;
- two images have every mutex of one on the way to every mutex of the other; two writers
  contend for `write_lock` while the reader meets the one inside. A call reaches into one
  cluster: between two clusters a reader holds nothing and a writer its `write_lock`
  only, as it did at its start;
- `MaxDepth` 3 in place of 16 separates a chain that just opens, one that is one
  too long, and cycles of one and two files. Each header value is the last the
  check accepts or the first it refuses;
- a disk of five bytes in chunks of two has a last chunk that is not whole, and
  a chunk of zeros before, between and after data, so the sparse copy skips at
  both ends. `LongestInput` lets a file grow past the disk;
- three handles give a device, an image on it and an image on that image. A
  call is made only when an address is left for its result (`AddressLeft`).

Fairness is weak fairness of what the operating system keeps running. In `LockOrder`
(`FairSpec`) it is that of a reader's steps, and of a writer's while it holds a mutex readers
take: threads are scheduled, device calls return and a mutex that stays free
is taken. It does not say that a mutex is handed on in turn, which the standard library's
does not promise, so a waiter may be passed over for as long as others take the
mutex again. `CallsReturn` therefore has the premise `Quiet`, that from some time on no new call
begins; and its half about writes has the premise that writers go on everywhere. In `Extents` it is
weak fairness of `Walk`, one thread's loop over the iterator. In `Session` it is
weak fairness of each task's `Advance`: a process or a call that has begun goes
on, by steps that do not fail. Starting a command, the C caller's calls, failures,
kills, changes of the input and power loss are owed by nobody.

What the runs leave out, on purpose:

- `ScanMissesNothing` has the premise that no device call has failed. `decrement_refcount` returns
  before it moves the cursor back when its write of a zero landed but that
  write, or the flush after it, reports an error (1263-1264), and then the cluster is not
  found again while the handle lives (`CursorSkipsNothing`, which is the property without
  the premise, is false), though the field's comment (336-339) has every drop to zero move
  the cursor back down. `allocate_cluster` takes care of the same case (1158-1159);
- `write_faults` does not check `ImplementsDisk`: a write that landed and
  reported an error may revert when a stale L2 cache entry is used for the next
  one, which the code does not promise against;
- `ReadsAreCurrent` is checked on images where the cluster a write replaces
  is not taken again while the read runs. A reader holds a host offset after
  every lock is dropped (`read_at`, 1456), so on an image where it is taken
  again the read may return the new owner's bytes. No comment or test of the
  code claims otherwise: only concurrent writers are promised anything.

## 4. What is proved

`RefcountAllocatorProofs`, for every number of slots and entries, every set of
well-formed images, every device capacity and every number of faults and
crashes:

| Theorem | States |
|---|---|
| `TypeCorrect` | `Spec => []TypeOK` |
| `AlwaysInductive` | `Spec => []Inductive` |
| `EveryReferenceCounted` | `Spec => []HeldIsCounted` |
| `EveryBlockCounted` | `Spec => []MetadataIsCounted` |
| `ResidentTableSafe` | `Spec => []ResidentIsSafe` |
| `ScanIsComplete` | `Spec => []ScanMissesNothing` |
| `FullIsFull` | `Spec => []FullMeansFull` |
| `RoomComesFirst` | `Spec => []RoomFirst` |
| `AllocatorImplementsPool` | `Spec => ImplementsPool` |

`WritePathProofs`, `WriteHandleProofs`, `WriteCountsProofs`, `WriteDiskProofs` and
`WriteReadsProofs`, for every size of the tables and the image, every set of typed
images, every set of threads and every number of writes, reads, failures and
crashes:

| Theorem | States | Premises |
|---|---|---|
| `WritePathTyped` | `Spec => []TypeOK` | |
| `L1AlwaysMatches` | `Spec => [](faults = 0 => L1MatchesDevice)` | |
| `OffsetsStayInside` | `Spec => []OffsetsAreChecked` | |
| `NeverOutside` | `Spec => []PublishedIsInside` | images are `InsideImage` |
| `WritesAreVisible` | `Spec => []WriteIsVisible` | no readers |
| `CountsAlwaysCover` | `Spec => []CountsCoverReferences` | no readers; images are `SoundImage` |
| `CopiedNeverLies` | `Spec => []CopiedIsHonest` | the same |
| `SnapshotNeverChanges` | `Spec => []SnapshotIntact` | the same |
| `DamageIsAlwaysRefused` | `Spec => []DamageIsRefused` | the same |
| `WritePathIsADisk` | `Spec /\ [](faults = 0) => ImplementsDisk` | the same |
| `WritersLeakNothing` | `Spec /\ []RoomForTables => []NothingLeaks` | the same, and images are `NoneLost` |
| `ReadsStayCurrent` | `Spec /\ [](faults = 0 /\ NothingFreed) => []ReadsAreCurrent` | images are `SoundImage` and `Unshared` |
| `WritesShowToReaders` | `Spec /\ [](faults = 0 /\ NothingFreed) => []WriteIsVisible` | the same |
| `DamageRefusedBesideReaders` | `Spec /\ [](faults = 0 /\ NothingFreed) => []DamageIsRefused` | the same |

`SessionProofs`, for every arrangement of files, every depth limit, every set of
tasks and jobs, every set of handle addresses, and every guest, chunk size, range
and input:

| Theorem | States | Premises |
|---|---|---|
| `OpenedChainsAreSound` | `Spec => []ChainIsSound` | |
| `HandlesAreBalanced` | `Spec => []HandlesBalance` | |
| `SessionIsTyped` | `Spec => []TypeOK` | |
| `TransfersAreExact` | `Spec => []TransferIsExact` | `Alone`: no command runs beside a write |
| `FilesAreWhole` | `Spec => []FileIsWhole` | the same |

`ExtentsProofs`, for every width of the fields of a word, every disk size, every image
that is `ImageTyped`, `TablesApart` and `Settled`, and every number of writes by another thread:

| Theorem | States |
|---|---|
| `WalksTile` | `Spec => []ExtentsTile` |
| `ExtentsAreTrue` | `Spec => []ExtentsWereTrue` |
| `WalksAreExact` | `Spec => []WalkIsExact` |
| `WalksCostWhatTheyMust` | `Spec => []WalkCost` |
| `WalksAreTyped` | `Spec => []TypeOK` |
| `PayloadsAreCovered` | `Spec => []PayloadIsCovered` |
| `FreshEntriesReadBack` | `Spec => []FreshEntryReadsBack` |

### The allocator

Assumptions: `GeometryAssumption` (at least one slot and two entries per block:
pass 2 puts the block and the caller's cluster side by side) and
`ImagesAssumption` (every image is `WellFormed`). TLC evaluates both in
`refcount_allocator`.

The argument. `HeldIsCounted` alone is not inductive: nothing in it says that
writing one count changes no other, that a cluster found free is not a refcount
block, or that pass 2's block does not land on something in use. `Inductive`
adds:

- `TableOK`: no two slots name one block, so writing one entry changes one
  count (lemma `EntryWritten`);
- `DurableFollows`: the durable table lacks at most a block published since the
  last flush, and that block's count of itself is durable already. This is
  what the flush between writing a block and naming it buys, and with it a
  write persisted early (`WritebackKeeps`) or a crash (`CrashKeeps`) keeps
  everything;
- `ResidentFollows`, with `MayTake`: a slot absent in memory governs nothing
  held, contains no other block, and on the device is absent or names the very
  block pass 2 would write. The last case is a publication that landed and
  failed; the next call writes the same block again, which is harmless because
  nobody holds what it counts (`BlockWritten`);
- `CallKnows`: what each step of a call may rely on, from the one before.

Each action has a lemma `<Action>Keeps`; steps that change neither device nor
holders share `DeviceUntouched`, flushes share `FlushIsSafe`, the two returns
share `ReturnKeeps`.

On top of `Inductive`:

- `ScanInv`: while nothing has failed, the resident table is the device's and
  every present count behind the cursor is above zero (`UsedBefore(cursor)`);
  `ScanKnows` says what each step of a call has just made of that. `FullIsFull`
  combines it with what the scan sees from the cursor on.
- `RoomInv`: the durable length is never past the present one, and from `count`
  on the call's cluster is before the device's end.
- The refinement needs facts that no invariant of the allocator states. `PoolInv`, about
  the counts as they are: a slot absent in memory that the device does name
  still has, in its block, the very entries pass 2 would write (`Republished`), so that writing
  them again changes no count; and a drop concerns a slot memory knows, so it does not
  disturb that. `LagInv`, about the counts a crash would leave: of a block whose slot
  is not durable yet, what is durable is current or still zero, so that when the slot
  becomes durable no count comes back that has been lowered since. Each action then has a
  lemma that names the pool's step it is: a count written, or a block published for the
  first time, is `Take`, and writing a fresh block is none before it is named
  (`WriteBlockIsHidden`); a publication made again is `TakeOver`; the two returns are `Grant`,
  the drop `Forget` and `Return`, a failure `Abandon`, a flush or an early
  write-back `Persist`, a crash `Crash`.

### The write path

Assumptions: `LayoutAssumption` (no table and no image is empty) and
`WriteAssumption` (images are typed, readers and writers are different threads,
the bounds are numbers). TLC evaluates both in every run of the write path.

*Typing* (`Typed`, with `Serial`). `TypeOK` is not inductive: a step that writes
at `reg[t].new` keeps the device typed only when that is a cluster. `LocalsGood`
says what each step may rely on of its locals: an allocation gave it a
cluster, the table to copy was checked, the mapping lies within `imageLen` because
`lookup_cluster` said so. `Serial` is mutual exclusion by `write_lock`, and that
the L1 entry of a writer's chunk stays one it may follow; it is what lets
`Repoint` go without an error branch of its own.

*The L1 table in memory* (`L1Follows`, whose core is `Matched`). Between the device
write and the assignment the two tables differ in one entry, the thread at
`l1Flush` holds the L1 lock, and nobody else can be there. Without `faults = 0` it
is false (`l1_flush_fails`, section 5). A crash reloads the table from the device.

*Offsets* (`Sized`). `image_len` is never past the device's end, and neither is
what a crash would leave, so an offset checked against the former stays good for
the latter however long the thread holds on to it. Nothing is assumed about the
image: damaged tables end the call.

*What is published lies inside* (`Named`). `image_len` follows writes, not
allocations, so the argument is about order: the new cluster is written
(`Reach`) and flushed before an entry names it (`Carries`, `ReachesAt`), and a new
table is written before L1 does. `Rooted` says it of every table L1 may name in
memory, on the device or after a crash. `InsideImage` is what the theorem asks of
an image when it is opened; TLC evaluates it (`ImagesAreInside`).

*A finished chunk is visible* (`WritesShow`). `Shows` follows a chunk from its lookup to
`next`: the words are in the new cluster before anything points at it (`Holds`), the
table memory names is the one the entry goes to (`Linked`), the entry points at the
new cluster (`Pointed`), and the L2 cache was emptied since (`Emptied`). In place, the
entry the write went by is the one the cache still serves. Nothing is asked of the
image, and calls may fail; a reader may not run, because it can put a superseded
table back into the cache. `WritesShowToReaders`, below, has readers and other
premises.

*Counts, COPIED and the snapshot* (`CountsInv`, that is `Sound` of what is stored and
`Working` of the writer past the lock). The three properties only hold together:
the count decides whether a cluster is shared, COPIED stands in for the count,
and a cluster freed too early is what changes a snapshot. They speak of the
device and of every device a crash may leave, a set far too large to reason
about member by member, so the invariant is about possible references instead:

- `Roots(s, i)` is every entry L1 index i may have: in memory, on the device, durable.
  `Has(s, v, e)` says that virtual cluster v may have entry e: in a table one of
  those names, as written or as durable, or in the L2 cache. `Active(s, c)` is every
  path that may lead to c. Any mix a crash leaves has its references among these
  (`Mixes`), and so have memory and the cache.
- `Covered`: the number of possible paths, plus the snapshot's, plus one for a
  cluster the writer has taken and not yet published or replaced and not yet
  released (`Held`), is at most the count, present and durable.
- `TablesOnce`: an L2 table is reached by one L1 index and is nothing else, so
  writing one entry moves one reference.
- `RootsTrue` and `EntriesTrue`: what is marked COPIED is counted once. With
  `Covered` and `TablesOnce` that gives `CopiedIsHonest`.
- `StaleIsShared`: after a failed update of L1, memory names the old table, which
  it will copy before it writes to it.
- `SnapKept`: the tables and clusters the snapshot reaches are as they were.

`Working` carries the facts from one device call to the next: the cluster to
release is the one the L2 cache still has for this chunk (`OldCached`), the new
cluster is used by nobody (`Unused`), the new table gives no virtual cluster an
entry it did not have (`RowReady`).

The premises. `Readers = {}`: with a reader beside the writers `SnapshotIntact` is
false (`reader_revives_table`), and the same revived table makes a writer release a
cluster twice. `SoundImage`: counts cover the references, a table is not shared with
anything, and COPIED is not a lie, *inside a shared table included*:
`copied_in_shared_table` shows that the code needs the last part. The snapshot's
own tables may share what they like. TLC evaluates `SoundImage` on every image the
runs open but `StaleCopied`, `Uncounted` and `CutShort`, which are meant to be
damaged (`ImagesAreSound`). The proofs need no bound on failures and crashes.

*Payloads* (`PayloadInv`). Half of `DamageIsRefused` is about offsets (`Sized`); the
other half says that a write that goes on to allocate has a payload that decodes.
The code looks at the decompression cache first, and that is keyed by virtual
cluster alone, so the argument is about where a compressed entry may come from.
`Lineage`: the write path makes standard entries only, hence any other entry a
virtual cluster may have (`Has`, over memory, device, durable and cache) is the one
it had when the image was opened; the clusters of its payload are not written; and
no two of the entries it may have reach one cluster. So what the cache holds under
that virtual cluster is what the payload decodes to (`CacheDecodes`), whichever
call put it there.

*The flat disk* (`DiskInv`, and `ImplementsDisk` from it). `VirtualDisk` shows one
value for each word and a set of values a crash may leave (`may`). The refinement
shows the words a lookup from memory finds (`ViewOf`). Two invariants:

- `ProgressInv`, while no device call has failed, follows one chunk: the mapping is the
  entry the tables name now (`FindsNow`); the words to be written are what a reader
  sees now with the chunk spliced in (`Seeded`); they are in the new cluster before,
  and durable by the time, something points at it (`InNew`, `InNewDurably`); a table
  made for it leads where the old one did (`RowNow`); the L2 cache is the table now, but
  for an entry written and not forgotten yet (`CacheFresh`).
- `MayInv`, crashes: whatever a lookup could find and read when any mix of the
  unflushed writes had reached the medium (`LeadsTo`, `ReadsAs`, `Leaves`) is in `may`. It
  looks at one virtual cluster at a time, so no mix has to be enumerated.

Each step is then the disk's `Start`, `Land` (a word becomes visible: `WriteInPlace`,
`WriteEntry` and `WriteL1`'s table are where that is decided), `GiveUp`, `Flush` or `Crash`,
or a stutter; `Carefree` are the steps that change neither view nor `may`. The
premise `[](faults = 0)` is a real one: after a failed flush of L1 memory names another
table than the device (`l1_flush_fails`), and then a write that was reported as
done may revert. `VirtualDisk` is instantiated with `Value <- Nat`, since it asks
nothing of the values.

*Exact counts* (`CountedOut`). `NothingLeaks` says that, with no failure and no crash,
counts are no higher than the references, so the bound of `Covered` has to become an
equation. `Exact`: the references, plus what the writer holds, plus the
two kinds of reference the code never gives back (`LeftIn`), is the count. Every step
moves one unit from one of these places to another (`ExactMoves`): a cluster taken
goes from free to held, a published one from held to a reference, a replaced one
from a reference to held, a released one to free. `Replacing` says which entry the
held cluster came from. The premises are what the code needs. `RoomForTables`: a write
that finds a cluster for its data and none for the table it needs returns the
error with the data cluster counted (803), and TLC shows `NothingLeaks` violated when the
runs' images are cut to four clusters. `NoneLost`: the image has no such cluster to begin
with. `write_writers` has room for every table, and its images are asserted to
be `NoneLost`.

*Readers beside writers* (`ReadingInv`). The invariants above are about the writers
alone; a reader can put a superseded table back into the cache
(`reader_revives_table`). This one holds with any number of both, for images in
which nothing is shared that a writer may have to copy or release. A read looks
twice: a lookup finds a host cluster, and later, with every lock given up, the
words are read from it. So the argument is that the cluster a reader goes to is
still its word's, or still holds what the word had since the read began.

- `Apart`, about everything memory, the device, the durable copy and the cache may lead
  to: a table is named by one L1 index and counted once (`TablesApart`), so no table
  is ever superseded; a plain cluster is some virtual cluster's alone and is counted,
  now and after a crash (`DataApart`), so an allocation finds another; a payload keeps
  its words and its count (`PayloadsStay`), because a write to it allocates.
- `CacheTrue`: the L2 cache is the table now, but for the entry a writer has written
  and not forgotten yet (`Behind`). That entry is what a lookup of the property
  counts among the values a word had. `DeTrue`: the decompression cache holds what the
  payload decodes to. `L1Kept`: an L1 entry read under the lock is still the entry.
- `Doing`, of a writer: nothing leads yet to the clusters it has taken (`Vacant`), and
  they are counted; it never copies a table. `Holding`, of a reader on its way to a
  cluster: the cluster's words are among what its word had, and no other virtual
  cluster has it, so a write in place that changes them changes this word and is seen.
- `Avoids` relates each writer to each reader: the cluster being filled is not the one
  the reader goes to. The count keeps it so, which is why a release that brings a
  count to zero has to be excluded.

`Gains` says what a step may add to all of this, and `Effect` that every step of the
write path adds at most one table or one entry; the lemmas about readers and about
the other writers rest on that alone.

Two more results rest on it. `WritesShowToReaders`: `Brings` says where a chunk's words
are on the way (in the local, in the new cluster, found by way of the tables), and
with `CacheTrue` a lookup through the caches finds the same.
`DamageRefusedBesideReaders`: `PayloadsGood` says that whatever is in the decompression
cache, or that a reader is about to put there, is under a virtual cluster whose
payload decodes, so `plan_write` takes no cached words for a payload that does not.

The premises. `Unshared`: L2 tables are counted once and plain clusters belong to one
virtual cluster; a plain cluster may still be the snapshot's too, and payloads may
share a cluster. TLC evaluates it on the images of `write_readers` and on the sound ones
of `write_two_tables` (`ReadersShareNothing`). `faults = 0`: after a failed flush of L1
memory and the device name different tables. `NothingFreed`: no release has brought a count to zero up to the
moment the read is looked at; section 3 says why the code needs it. It leaves out, of
the images of `write_readers`, the runs on `Compressed` and the second rewrite on
`Packed`, which therefore are only model-checked.

### Opening and handles

Assumptions: `HeaderAssumption` (a cluster holds a table entry), `OpenAssumption`,
`TransferAssumption` (a chunk is not empty, the guest is bytes, `None` and `Old` are
told from numbers and processes), `HandleAssumption` (`Nowhere` is no handle, the
caller is a task) and `ScenariosAssumption` (the files, jobs and input of a start
are well typed, and the image a command names, if it is there, is as long as the
guest). TLC evaluates all of them in `session`.

Both theorems follow from `SessionInvHolds`: `Spec => []SessionInv`, where
`SessionInv == OpenInv /\ HandleInv /\ ShowsTyped`.

- `OpenInv`. `ChainIsSound` speaks of finished calls only. `CallSound` says what
  each stage has established: past the header the current image passed `Gate`,
  past the table it is `TableInside`, and `Linked` that every image before it
  passed both, is named by its child, and leaves the length of the chain and the
  depth left adding up to `MaxDepth + 1`. That sum is what bounds the chain.
  `GateMeansWellFormed` turns the checks into `WellFormedImage`; its one piece of
  arithmetic is `RoundedUpCovers`, that a number of L1 entries rounded up covers the
  disk. `RefusedIsSound` and `EnterIsSound` are the two ways a call moves between images.
- `HandleInv`. `HandlesCounted` gives exact counts but not that a last close frees
  everything: two devices that keep each other open would satisfy it. `Grounded`
  says that in every set of open devices there is one on which no other of the set
  stands; with all handles closed that one would have no reference left.
  `NothingLeft` draws the conclusion. Each action has its lemma (`BoxedKeeps`, `CloseBoxKeeps`, `ReclaimKeeps`, `NullKeeps`, `DestroyKeeps`).
- `ShowsTyped`: what a device shows is a path there is, which `OpenOnDevice` needs.

### The commands

Assumptions: those of "Opening and handles". `SessionIsTyped` follows from `CliInvHolds`:
`Spec => [](SessionInv /\ CliInv)`. `TypeOK` alone is not inductive, because a chunk
is a piece of the guest only when the range fits it.

- `CliTyped`, with `RunSound`: what each stage of a command relies on. From the range
  check on, `From(p) <= at <= end`, `end` is within the guest, and as many bytes were
  moved as the positions say. `ChunkFacts` and `InputFacts` are what one pass of either
  loop gets from that, the input that ends early or grows included.
- `LeafNamed`: the image an open has at the bottom of its chain is the one the command
  named. Without it the size checked could be another image's.
- `DiskSized`: that image is as long as the guest, `ScenariosAssumption` carried along.

`TransfersAreExact` adds `BytesInv`. `Quiet`: with no writer the guest is as it was.
`StreamSound`: the pipe holds the range as far as the copy came, of what the guest
was at the start. `WriteSound`: the guest is the bytes taken so far, in their place, and as
it was elsewhere; a chunk that fails leaves part of itself, still inside the range.

`FilesAreWhole` adds `FilesInv`. `Fresh`: a command that has not created its file has no
name in the directory. `OldKept`: nobody writes to the file that was FILE before. And while
no two reads to FILE have overlapped, `NoneOverlap`: FILE.partial has no other name,
one command works on it, and every inode that is FILE, or that a power loss may bring
back as FILE, is `Whole`, its durable bytes too. `Stands` and `Filled` follow the copy:
FILE.partial with zeros appended is the range as far as it came, which is what makes
skipping a chunk of zeros and setting the length at the end the same as writing them.
`LoneSound` is the part about a command that ran by itself.

The premise `Alone` says that in a scenario with a write no other process runs a
`read` or a `write`. Both properties compare with the guest as it was at the start, so a read beside
a write has nothing to be compared with: nothing in the code locks an image against
another process, and a range read meanwhile may be a mix of old and new. Every
scenario of `session` satisfies it. Within the premise processes are killed, fail
and lose power at any step, and users of the library and the C caller go on beside
them. `FileIsWhole` has a premise of its own, `~overlapped`, without which it is
false (`img.rs` 361, see the hazards).

### Extents

Assumptions: `WidthAssumption` (whole even sectors, an offset field below the two
top bits), `ImagesAssumption` (every image is `ImageTyped`: clusters are whole sectors
and hold at least one table entry, the L1 table is finite, with any words in it, and
every offset of the device fits the offset field; and it is `TablesApart` and `Settled`) and
`WalkAssumption` (an entry has bytes, `None` is no index and no run). TLC evaluates all
three in `extents`.

- `Housed`: the image stays `ImageTyped`, `TablesApart` and `Settled` whatever the writer does, because
  what it allocates is past everything named so far. `WriterSound` is what the writer
  knows between its steps: its cluster, and that L1 still names the table it writes.
- `Tiled` is `ExtentsTile` with the types it needs and `AtCluster`: the cursor, and
  the end of the run, lie where a cluster begins or at the end of the disk. Without
  it a run could end inside a cluster and the next start there.
- `Observed` is about the three places a status can come from. `Watched`: what the tables
  say now of a cluster is in `seen`. `CacheTold`: so is what the cached bytes say, of every cluster their L1
  index serves. `LookingTold`: so is what the table says that a lookup is about to read, superseded or
  not (`TableTold`), which has been under that one L1 index only. `Told` asks that the word
  is settled as well, since the bound it is held against may have risen meanwhile. `Merge` compares the run's
  status with such a word's, so that is what makes the comparison a fact about the walk;
  `OneCluster` says that a lookup adds one cluster to the run and no more.
- `ExactAlone` is `Exact` while nobody has written: what is told, and the run, is what the
  entries say; the cluster at the cursor is not like the last extent, so extents are
  maximal; and an unfailed walk has met no damaged entry before its `Frontier`,
  which is the run's end and not the cursor while there is a run: its clusters were
  looked up, and an error at its end takes the run's place and ends the walk.
  `Undisturbed` says that the cache, and the table about to be read, are those in use.
- `Bounded` counts. `Counted`: the lookup that ends a run is made again to begin the
  next, so the lookups are the clusters before the frontier, plus one for each extent
  returned, minus one once the disk has ended the last run; that holds whoever writes.
  `ReadOnce`, with no writer: the tables read are at most those up to the cached one, which
  the walk has not passed (`IndexGrows`: the L1 index never falls along a walk).
- `SeenTyped` is what `TypeOK` needs of the history.
- The two about words hold in every state in which the cluster size is `ImageTyped`.
  They rest on `DivModUnique`, `SectorsOfPayload` (the sectors a payload touches, and
  that their number fits the count's field) and `PayloadCovered`.

Only model-checked: `ReadsAreCurrent`, `WriteIsVisible` and `DamageIsRefused` with a reader
outside those premises, that is on the images `Uncounted` and `CutShort` of
`write_two_tables`, and where a rewrite frees a payload's cluster; `StaleOnlyIfBehind` of
`Extents`; `NoWaitCycle` of `LockOrder`; and liveness (`CallsReturn`, `WalkEnds`,
`CallsEnd`), because fairness is outside the prover. Each of the other invariants and
action properties of the passing runs is a theorem too, under the premises listed
above. Proved and in no run: `WalkCost` and `FreshEntryReadsBack` of `Extents`.

## 5. Where the code and its comments disagree

1. `reader_revives_table`. `read_l2_entry` files a table under an L1 index that
   `update_l2_entry` may have repointed since. The snapshot's table comes back
   into the cache under an L1 entry that says COPIED; the first write has
   lowered the old data cluster's count to one, so the second write takes it for
   unshared and writes in place into what the snapshot reads. The doc of
   `write_at` (727-729) says shared clusters are copied first.
2. `copied_in_shared_table`. `update_l2_entry` copies a shared table with its
   COPIED bits; ignored while the L1 entry lacked COPIED (1583-1585 says they
   cannot be taken at face value), they are believed under the new L1 entry.
3. `l1_flush_fails`. `update_l1_entry` returns before memory follows when its write of the
   entry landed but that write, or the flush after it, reports an error
   (1418-1419); its comment (1410-1411) says no mismatch is ever observed. TLC's shortest
   trace has the write report the error.

## 6. Not modelled, and the plan

Left out for good: parsing of command-line arguments and of sizes, reports and
messages, the position and byte order of header fields, inflate and zstd
themselves, error types, `fs_core` (modelled only as a device that may fail and
as a box around a counted reference). The encoding of refcount widths is
abstracted to natural numbers: the code writes only 1 and decrements, so a count
never grows past what the image held.

Left out so far: a live cluster whose count the refcount table does not cover.
`read_refcount` reads it as zero (1290), so without COPIED it is written in
place; only a damaged image has one.

Modules to be proved about use no `RECURSIVE` operator.

## 7. Running

In this directory, with TLC and tlapm:

    tlc -config RefcountAllocator.cfg MCRefcountAllocator.tla
    tlc -config WriteCrash.cfg MCWritePath.tla
    tlc -config Extents.cfg MCExtents.tla
    tlc -config LockOrder.cfg MCLockOrder.tla
    tlc -config Session.cfg MCSession.tla
    tlapm RefcountAllocatorProofs.tla
    tlapm WritePathProofs.tla
    tlapm WriteHandleProofs.tla
    tlapm WriteCountsProofs.tla
    tlapm WriteDiskProofs.tla
    tlapm WriteReadsProofs.tla
    tlapm SessionProofs.tla
    tlapm ExtentsProofs.tla

Each `.cfg` runs in less than four minutes on two cores. `WriteDiskProofs` takes about
twenty minutes, `WriteCountsProofs` and `WriteReadsProofs` ten to fifteen, `WriteHandleProofs`,
`WritePathProofs` and `SessionProofs` three to five, the other proof modules one or two.
