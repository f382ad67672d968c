-------------------------- MODULE RefcountAllocator --------------------------
(***************************************************************************)
(* Host-cluster allocation and release (`allocate_cluster` and             *)
(* `decrement_refcount` in reader.rs): a two-level refcount table on the   *)
(* device, the resident copy of its first level, the scan cursor, and the  *)
(* device writes and flushes in the order the code issues them.  The       *)
(* write lock is held across every call, so calls never overlap; what      *)
(* interleaves with their steps is the device, which may persist any       *)
(* unflushed write early, fail a call, or lose power.                      *)
(*                                                                         *)
(* A host cluster is <<slot, entry>>: the refcount-table slot that governs *)
(* it and its entry in that slot's block, the quotient and remainder of    *)
(* its index by the entries per block.                                     *)
(***************************************************************************)
EXTENDS Naturals

CONSTANTS
    Slots,       \* entries of the refcount table
    PerBlock,    \* refcount entries per refcount block
    Images,      \* the images that may be opened (see WellFormed)
    Capacity,    \* how far the device can be extended; a fixed one not at all
    MaxFaults,   \* bound on failing device calls
    MaxCrashes   \* bound on crashes

Slot == 0 .. Slots - 1
Entry == 0 .. PerBlock - 1
Cluster == Slot \X Entry

Header == <<0, 0>>

(* An absent table slot is stored as offset zero, the header's own offset. *)
NoBlock == Header

Before(a, b) == a[1] < b[1] \/ (a[1] = b[1] /\ a[2] < b[2])

(* The position after a cluster; the table's end is <<Slots, 0>>.          *)
Position == (0 .. Slots) \X Entry
(* Mutant: the position after a block's last entry is not carried.         *)
AfterNoCarry(c) == <<c[1], c[2] + 1>>

After(c) == IF c[2] + 1 < PerBlock THEN <<c[1], c[2] + 1>> ELSE <<c[1] + 1, 0>>

(* The count the table gives a cluster; an absent block means zero.        *)
CountIn(table, blocks, c) ==
    IF table[c[1]] = NoBlock THEN 0 ELSE blocks[table[c[1]]][c[2]]

(* The clusters the allocator itself occupies.                             *)
Metadata(table) == {Header} \cup {table[s] : s \in Slot}
Blocks(table) == Metadata(table) \ {Header}

(* The images this crate may be asked to write: blocks are distinct        *)
(* clusters, everything in use is counted and inside the device, and the   *)
(* allocator's own clusters are nobody else's.  The header's own count is  *)
(* not relied on: the scan guards against a zero there.                    *)
WellFormed(im) ==
    /\ im.rt \in [Slot -> Cluster]
    /\ im.block \in [Cluster -> [Entry -> Nat]]
    /\ im.held \in [Cluster -> Nat]
    /\ im.len \in Position
    /\ im.rt[0] # NoBlock
    /\ \A s, r \in Slot : im.rt[s] = im.rt[r] => s = r \/ im.rt[s] = NoBlock
    /\ \A c \in Metadata(im.rt) : im.held[c] = 0
    /\ \A c \in Blocks(im.rt) : CountIn(im.rt, im.block, c) > 0
    /\ \A c \in Cluster : im.held[c] <= CountIn(im.rt, im.block, c)
    /\ \A c \in Cluster : CountIn(im.rt, im.block, c) > 0 => Before(c, im.len)

ASSUME GeometryAssumption ==
    /\ Slots \in Nat \ {0}
    /\ PerBlock \in Nat \ {0, 1}
    /\ Capacity \in Position
    /\ MaxFaults \in Nat
    /\ MaxCrashes \in Nat

ASSUME ImagesAssumption == \A im \in Images : WellFormed(im)

VARIABLES
    rt, block, len,      \* the device as reads see it
    rtD, blockD, lenD,   \* the device as a crash would leave it
    loaded, resident,    \* refcount_table: read yet, and its bytes
    cursor,              \* alloc_cursor
    pc, target,          \* the call in progress and the cluster it is about
    held,                \* history: references the callers hold
    faults, crashes

device == <<rt, block, len>>
durable == <<rtD, blockD, lenD>>
memory == <<loaded, resident, cursor>>
vars == <<device, durable, memory, pc, target, held, faults, crashes>>

Steps == {"idle", "scan", "count", "countFlush", "block", "blockFlush",
          "publish", "publishFlush", "drop", "dropFlush"}

TypeOK ==
    /\ rt \in [Slot -> Cluster] /\ rtD \in [Slot -> Cluster]
    /\ block \in [Cluster -> [Entry -> Nat]]
    /\ blockD \in [Cluster -> [Entry -> Nat]]
    /\ len \in Position /\ lenD \in Position
    /\ loaded \in BOOLEAN
    /\ resident \in [Slot -> Cluster]
    /\ cursor \in Position
    /\ pc \in Steps
    /\ target \in Cluster
    /\ held \in [Cluster -> Nat]
    /\ faults \in 0 .. MaxFaults
    /\ crashes \in 0 .. MaxCrashes

Init ==
    /\ \E im \in Images :
        /\ rt = im.rt /\ block = im.block /\ len = im.len
        /\ rtD = im.rt /\ blockD = im.block /\ lenD = im.len
        /\ held = im.held
    /\ loaded = FALSE
    /\ resident = [s \in Slot |-> NoBlock]
    /\ cursor = Header
    /\ pc = "idle" /\ target = Header
    /\ faults = 0 /\ crashes = 0

-----------------------------------------------------------------------------
(* The device.  A flush makes everything written so far durable.           *)

(* Mutant: the flush is left out.                                          *)
NotFlushed == UNCHANGED durable

Flushed == rtD' = rt /\ blockD' = block /\ lenD' = len

Fault == faults < MaxFaults /\ faults' = faults + 1

Go(step) == pc' = step /\ UNCHANGED <<target, faults>>

(* The `?` after a device call: the call ends and nothing else happens.    *)
Fail == Fault /\ pc' = "idle" /\ UNCHANGED target

(* A write has landed; the device reports success or, all the same, an     *)
(* error.                                                                  *)
WrittenThen(step) == Go(step) \/ Fail

(* The device fails a read, a set_len or a write before changing anything. *)
DeviceError ==
    /\ pc \notin {"idle", "countFlush", "blockFlush", "publishFlush", "dropFlush"}
    /\ Fail
    /\ UNCHANGED <<device, durable, memory, held, crashes>>

FlushError ==
    /\ pc \in {"countFlush", "blockFlush", "publishFlush", "dropFlush"}
    /\ Fail
    /\ UNCHANGED <<device, durable, memory, held, crashes>>

(* The device may persist any one unflushed write at any time.             *)
Writeback ==
    /\ \/ \E s \in Slot :
            /\ rtD[s] # rt[s]
            /\ rtD' = [rtD EXCEPT ![s] = rt[s]]
            /\ UNCHANGED <<blockD, lenD>>
       \/ \E c \in Cluster, e \in Entry :
            /\ blockD[c][e] # block[c][e]
            /\ blockD' = [blockD EXCEPT ![c][e] = block[c][e]]
            /\ UNCHANGED <<rtD, lenD>>
       \/ lenD # len /\ lenD' = len /\ UNCHANGED <<rtD, blockD>>
    /\ UNCHANGED <<device, memory, pc, target, held, faults, crashes>>

(* Power is lost and the image is opened again.                            *)
Crash ==
    /\ crashes < MaxCrashes
    /\ crashes' = crashes + 1
    /\ rt' = rtD /\ block' = blockD /\ len' = lenD
    /\ loaded' = FALSE /\ resident' = [s \in Slot |-> NoBlock]
    /\ cursor' = Header
    /\ pc' = "idle" /\ target' = Header
    /\ UNCHANGED <<durable, held, faults>>

-----------------------------------------------------------------------------
(* allocate_cluster *)

(* Mutant: room is not made.                                               *)
NoGrowth(c) == len' = len

(* dev_grow_for_cluster: the device is extended only when it is too short. *)
GrowFor(c) ==
    IF Before(c, len) THEN len' = len
    ELSE ~Before(Capacity, After(c)) /\ len' = After(c)

CannotGrow(c) == ~Before(c, len) /\ Before(Capacity, After(c))

(* The table is read the first time.  A call refused before the scan (no   *)
(* refcount table, one past the image's end, one that cannot be read)      *)
(* changes no state and is left out.                                       *)
BeginAllocate ==
    /\ pc = "idle"
    /\ loaded' = TRUE
    /\ resident' = IF loaded THEN resident ELSE rt
    /\ Go("scan")
    /\ UNCHANGED <<device, durable, cursor, held, crashes>>

(* Mutant: the entry under the cursor is skipped.                          *)
FreeAfterCursor(c) ==
    /\ resident[c[1]] # NoBlock
    /\ Before(cursor, c)
    /\ block[resident[c[1]]][c[2]] = 0

(* Pass 1 looks at present blocks from the cursor on.                      *)
Free(c) ==
    /\ resident[c[1]] # NoBlock
    /\ ~Before(c, cursor)
    /\ block[resident[c[1]]][c[2]] = 0

FirstFree(c) == Free(c) /\ \A d \in Cluster : Free(d) => ~Before(d, c)

FirstAbsent(s) ==
    /\ \A c \in Cluster : ~Free(c)
    /\ resident[s] = NoBlock
    /\ \A r \in Slot : r < s => resident[r] # NoBlock

(* Pass 2's cluster for the caller, next to the block that will count it.  *)
BlockOf(c) == <<c[1], 0>>
CallerIn(s) == <<s, 1>>

FoundFree ==
    /\ pc = "scan"
    /\ \E c \in Cluster :
        /\ FirstFree(c) /\ c # Header
        /\ GrowFor(c)
        /\ target' = c
    /\ pc' = "count"
    /\ UNCHANGED <<rt, block, durable, memory, held, faults, crashes>>

FoundAbsent ==
    /\ pc = "scan"
    /\ \E s \in Slot :
        /\ FirstAbsent(s)
        /\ GrowFor(CallerIn(s))
        /\ target' = CallerIn(s)
    /\ pc' = "block"
    /\ UNCHANGED <<rt, block, durable, memory, held, faults, crashes>>

(* Nothing free and no slot left, or no room on the device.                *)
Full == \A c \in Cluster : ~Free(c) /\ resident[c[1]] # NoBlock

Refuse ==
    /\ pc = "scan"
    /\ \/ Full
       \/ \E c \in Cluster : FirstFree(c) /\ (c = Header \/ CannotGrow(c))
       \/ \E s \in Slot : FirstAbsent(s) /\ CannotGrow(CallerIn(s))
    /\ Go("idle")
    /\ UNCHANGED <<device, durable, memory, held, crashes>>

WriteCount ==
    /\ pc = "count"
    /\ block' = [block EXCEPT ![resident[target[1]]][target[2]] = 1]
    /\ WrittenThen("countFlush")
    /\ UNCHANGED <<rt, len, durable, memory, held, crashes>>

(* The call returns: the caller is now the cluster's only user.            *)
Return ==
    /\ Flushed
    /\ cursor' = After(target)
    /\ held' = [held EXCEPT ![target] = @ + 1]
    /\ Go("idle")

FlushCount ==
    /\ pc = "countFlush"
    /\ Return
    /\ UNCHANGED <<device, loaded, resident, crashes>>

(* Mutant: the block does not count itself.                                *)
NewBlockForCaller == [e \in Entry |-> IF e = 1 THEN 1 ELSE 0]

(* Mutant: what the cluster held before is not overwritten with zeroes.    *)
NewBlockOverStale ==
    [e \in Entry |-> IF e <= 1 THEN 1 ELSE block[BlockOf(target)][e]]

(* A fresh block counts itself and the caller's cluster.                   *)
NewBlock == [e \in Entry |-> IF e <= 1 THEN 1 ELSE 0]

WriteBlock ==
    /\ pc = "block"
    /\ block' = [block EXCEPT ![BlockOf(target)] = NewBlock]
    /\ WrittenThen("blockFlush")
    /\ UNCHANGED <<rt, len, durable, memory, held, crashes>>

(* Mutant: the block is named before it is durable.                        *)
BlockNotFlushed ==
    /\ pc = "blockFlush"
    /\ Go("publish")
    /\ UNCHANGED <<device, durable, memory, held, crashes>>

FlushBlock ==
    /\ pc = "blockFlush"
    /\ Flushed
    /\ Go("publish")
    /\ UNCHANGED <<device, memory, held, crashes>>

(* Mutant: the resident copy does not follow.                              *)
PublishOnDeviceOnly ==
    /\ pc = "publish"
    /\ rt' = [rt EXCEPT ![target[1]] = BlockOf(target)]
    /\ Go("publishFlush")
    /\ UNCHANGED <<block, len, durable, memory, held, crashes>>

(* The resident copy follows the device once the write has succeeded.      *)
Publish ==
    /\ pc = "publish"
    /\ rt' = [rt EXCEPT ![target[1]] = BlockOf(target)]
    /\ \/ /\ Go("publishFlush")
          /\ resident' = [resident EXCEPT ![target[1]] = BlockOf(target)]
       \/ Fail /\ UNCHANGED resident
    /\ UNCHANGED <<block, len, durable, loaded, cursor, held, crashes>>

FlushPublish ==
    /\ pc = "publishFlush"
    /\ Return
    /\ UNCHANGED <<device, loaded, resident, crashes>>

-----------------------------------------------------------------------------
(* decrement_refcount, called for a reference the caller has just dropped. *)

BeginDrop ==
    /\ pc = "idle"
    /\ \E c \in Cluster :
        /\ held[c] > 0
        /\ held' = [held EXCEPT ![c] = @ - 1]
        /\ target' = c
    /\ pc' = "drop"
    /\ UNCHANGED <<device, durable, memory, faults, crashes>>

WriteDrop ==
    /\ pc = "drop"
    /\ CountIn(rt, block, target) > 0
    /\ block' = [block EXCEPT ![rt[target[1]]][target[2]] = @ - 1]
    /\ WrittenThen("dropFlush")
    /\ UNCHANGED <<rt, len, durable, memory, held, crashes>>

(* Mutant: the cursor stays where the last allocation left it.             *)
CursorStays == cursor

(* A count that reached zero must be in reach of the scan again.           *)
CursorAfterDrop ==
    IF CountIn(rt, block, target) = 0 /\ Before(target, cursor)
    THEN target ELSE cursor

FlushDrop ==
    /\ pc = "dropFlush"
    /\ Flushed
    /\ cursor' = CursorAfterDrop
    /\ Go("idle")
    /\ UNCHANGED <<device, loaded, resident, held, crashes>>

-----------------------------------------------------------------------------
AllocateStep ==
    \/ BeginAllocate \/ FoundFree \/ FoundAbsent \/ Refuse
    \/ WriteCount \/ FlushCount
    \/ WriteBlock \/ FlushBlock \/ Publish \/ FlushPublish

DropStep == BeginDrop \/ WriteDrop \/ FlushDrop

Next ==
    \/ AllocateStep
    \/ DropStep
    \/ DeviceError \/ FlushError \/ Writeback \/ Crash

Spec == Init /\ [][Next]_vars

-----------------------------------------------------------------------------
(* Properties *)

(* Every reference a caller holds is counted, on the device as it is and   *)
(* as a crash at this instant would leave it: no cluster is handed out     *)
(* twice and no order of writes and crashes frees one in use               *)
(* (allocate_cluster, decrement_refcount).                                 *)
HeldIsCounted ==
    \A c \in Cluster :
        /\ held[c] <= CountIn(rt, block, c)
        /\ held[c] <= CountIn(rtD, blockD, c)

(* The header and the refcount blocks are never handed to a caller, and    *)
(* every block is counted, on the device and after a crash: the            *)
(* self-reference of a fresh block is durable before the table names it.   *)
MetadataIsCounted ==
    /\ \A c \in Metadata(rt) : held[c] = 0
    /\ \A c \in Blocks(rt) : CountIn(rt, block, c) > 0
    /\ \A c \in Blocks(rtD) : CountIn(rtD, blockD, c) > 0

(* The resident table never names a block the device does not, and a slot  *)
(* it still offers to pass 2 governs no cluster a caller holds, so writing *)
(* a fresh block there destroys nothing.                                   *)
ResidentIsSafe ==
    loaded => \A s \in Slot :
        /\ resident[s] # NoBlock => resident[s] = rt[s]
        /\ resident[s] = NoBlock => \A e \in Entry : held[<<s, e>>] = 0

(* ROOM FIRST: no cluster is counted before the device reaches past it,    *)
(* unless a crash lost the growth, and one a caller holds stays inside the *)
(* device after any crash (dev_grow_for_cluster comes before the count).   *)
RoomFirst ==
    \A c \in Cluster :
        /\ crashes = 0 /\ CountIn(rt, block, c) > 0 => Before(c, len)
        /\ held[c] > 0 => Before(c, lenD)

(* Between calls no zero count lies below the cursor: what the scan passed *)
(* was non-zero then, and a count dropped to zero since moves the cursor   *)
(* back down (`alloc_cursor`).  So the scan misses no free cluster.        *)
CursorSkipsNothing ==
    pc = "idle" => \A c \in Cluster :
        Before(c, cursor) /\ rt[c[1]] # NoBlock => CountIn(rt, block, c) > 0

(* The same while no device call has failed, across crashes.               *)
ScanMissesNothing == faults = 0 => CursorSkipsNothing

(* An allocation is refused for want of space only when every cluster of   *)
(* the whole table is really in use, while no device call has failed.      *)
FullMeansFull ==
    pc = "scan" /\ Full /\ faults = 0 =>
        \A c \in Cluster : CountIn(rt, block, c) > 0

Pool == INSTANCE ClusterPool WITH
    count <- [c \in Cluster |-> CountIn(rt, block, c)],
    own <- Metadata(rt),
    countD <- [c \in Cluster |-> CountIn(rtD, blockD, c)],
    ownD <- Metadata(rtD),
    ready <- IF pc \in {"countFlush", "publishFlush"} THEN {target} ELSE {},
    due <- IF pc = "drop" THEN {target} ELSE {}

(* Allocation with its blocks, scan and flushes implements the pool: every *)
(* step changes exactly the counts it should (a fresh block counts itself  *)
(* and the caller's cluster and nothing else, whatever bytes its cluster   *)
(* held; a retry of a half-failed publication changes none), a cluster is  *)
(* handed out only once its count is durable, an early write-back makes    *)
(* durable only counts that are current, and a crash leaves those.         *)
ImplementsPool == Pool!Spec

-----------------------------------------------------------------------------
(* The inductive invariant behind HeldIsCounted, MetadataIsCounted and     *)
(* ResidentIsSafe: what one call leaves for the next, and what each step   *)
(* of a call may rely on.                                                  *)

(* No two slots name the same block, and slot 0's is always there.         *)
TableOK ==
    /\ rt[0] # NoBlock
    /\ \A s, r \in Slot : rt[s] = rt[r] => s = r \/ rt[s] = NoBlock

(* The durable table lacks at most a block published since the last flush, *)
(* whose self-reference is durable already.                                *)
DurableFollows ==
    /\ rtD[0] # NoBlock
    /\ \A s \in Slot :
        \/ rtD[s] = rt[s]
        \/ rtD[s] = NoBlock /\ rt[s] = <<s, 0>> /\ blockD[<<s, 0>>][0] > 0

(* A slot pass 2 may take: nobody holds a cluster it governs, no other     *)
(* block lies there, and the device names there the block pass 2 would     *)
(* write, if any (a publication whose write failed after it landed).       *)
MayTake(s) ==
    /\ \A e \in Entry : held[<<s, e>>] = 0
    /\ rt[s] \in {NoBlock, <<s, 0>>}
    /\ \A r \in Slot \ {s} : rt[r][1] # s

ResidentFollows ==
    loaded => \A s \in Slot :
        \/ resident[s] # NoBlock /\ resident[s] = rt[s]
        \/ resident[s] = NoBlock /\ MayTake(s)

(* Nobody else has the target: not a caller, not the allocator.            *)
TargetIsFresh == held[target] = 0 /\ target \notin Metadata(rt)

TargetInNewSlot ==
    /\ resident[target[1]] = NoBlock
    /\ target = CallerIn(target[1])

CallKnows ==
    /\ pc \notin {"idle", "drop", "dropFlush"} => loaded
    /\ pc = "count" =>
        /\ resident[target[1]] # NoBlock
        /\ block[resident[target[1]]][target[2]] = 0
        /\ target # Header
    /\ pc = "countFlush" =>
        /\ resident[target[1]] # NoBlock
        /\ CountIn(rt, block, target) = 1
        /\ TargetIsFresh
    /\ pc \in {"block", "blockFlush", "publish"} => TargetInNewSlot
    /\ pc \in {"blockFlush", "publish"} => block[BlockOf(target)] = NewBlock
    /\ pc = "publish" => blockD[BlockOf(target)] = NewBlock
    /\ pc = "publishFlush" =>
        /\ resident[target[1]] # NoBlock
        /\ CountIn(rt, block, target) = 1
        /\ TargetIsFresh
    /\ pc = "drop" =>
        /\ target \notin Metadata(rt)
        /\ held[target] < CountIn(rt, block, target)

Inductive ==
    /\ TableOK
    /\ DurableFollows
    /\ HeldIsCounted
    /\ MetadataIsCounted
    /\ ResidentFollows
    /\ CallKnows
=============================================================================
