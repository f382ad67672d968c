--------------------------- MODULE WritePathProofs ---------------------------
(***************************************************************************)
(* WritePath for every image size, set of images, set of threads and       *)
(* number of writes, reads, failures and crashes: it stays well typed, and *)
(* one writer at a time is past the lock.                                  *)
(***************************************************************************)
EXTENDS WritePath, FiniteSetTheorems, TLAPS

(***************************************************************************)
(* The layout                                                              *)
(***************************************************************************)
LEMMA Numbers ==
    /\ L1Len \in Nat \ {0} /\ L2Len \in Nat \ {0} /\ Words \in Nat \ {0}
    /\ Clusters \in Nat \ {0}
    /\ None \in Offset /\ None \notin Cluster /\ Outside \in Offset /\ Outside \notin Cluster
    /\ Cluster \subseteq Offset /\ Cluster = Offset \ {None, Outside}
    /\ 0 \in Word /\ <<0, 0>> \in VCluster
  BY LayoutAssumption DEF None, Offset, Outside, Cluster, Word, VCluster, L1Index, L2Index

LEMMA EntriesTyped ==
    /\ NoL1Entry \in L1Entry /\ NoEntry \in L2Entry
    /\ EmptyTable \in [L2Index -> L2Entry]
    /\ \A c \in Offset : L1EntryFor(c) \in L1Entry /\ L2EntryFor(c) \in L2Entry
  BY Numbers DEF NoL1Entry, NoEntry, EmptyTable, L1Entry, L2Entry, L1EntryFor, L2EntryFor

(* What the four cases of a mapping say of where it lies.                  *)
LEMMA MapFacts ==
    ASSUME NEW map \in ClusterMap
    PROVE  /\ map.case \in {"Compressed", "Zero", "Unallocated", "Plain"}
           /\ map.host \in Offset /\ map.part \in Word /\ map.copied \in BOOLEAN
           /\ map.last \in {map.host, map.host + 1}
           /\ map.case \in {"Compressed", "Plain"} => map.host # None
           /\ map.case \in {"Unallocated", "Plain"} => map.last = map.host
           /\ map.case = "Unallocated" => map.host = None
<1>1. PICK e \in L2Entry, b \in BOOLEAN : map = MapOf(e, b)
  BY DEF ClusterMap
<1>2. QED
  BY <1>1, Numbers DEF MapOf, L2Entry, LastOf

LEMMA MapTyped ==
    ASSUME NEW e \in L2Entry, NEW b \in BOOLEAN
    PROVE  MapOf(e, b) \in ClusterMap
  BY DEF ClusterMap

(* A mapping that passed checked_host_offset lies in the image.            *)
Placed(map, len) == map.case = "Zero" \/ map.last <= len

LEMMA PlacedInCluster ==
    ASSUME NEW map \in ClusterMap, NEW len \in 0 .. Clusters, Placed(map, len),
           map.case \in {"Plain", "Compressed"}
    PROVE  map.host \in Cluster /\ map.last \in Cluster
  BY MapFacts, Numbers DEF Placed, Cluster, Offset, None, Outside

LEMMA PlainTyped ==
    /\ Unallocated \in ClusterMap /\ Unallocated.case = "Unallocated" /\ Unallocated.last = None
    /\ \A len \in Nat : Placed(Unallocated, len)
<1>1. NoEntry \in L2Entry /\ Unallocated \in ClusterMap
  BY EntriesTyped, MapTyped DEF Unallocated
<1>2. NoEntry.kind = "standard" /\ NoEntry.at = 0
  BY DEF NoEntry, None
<1>3. LastOf(NoEntry) = 0
  BY <1>2 DEF LastOf
<1>4. Unallocated.case = "Unallocated" /\ Unallocated.last = 0
  BY <1>2, <1>3 DEF Unallocated, MapOf, None
<1>5. QED
  BY <1>1, <1>4 DEF Placed, None

(* What is read of a whole cluster is words.                               *)
LEMMA WordsTyped ==
    ASSUME NEW data \in [Cluster -> [Word -> Nat]], NEW backing \in Backing,
           NEW v \in VCluster, NEW map \in ClusterMap, Placed(map, Clusters)
    PROVE  ClusterWords(data, backing, v, map) \in [Word -> Nat]
<1>1. CASE map.case = "Plain"
  BY <1>1, Numbers, PlacedInCluster DEF ClusterWords
<1>2. CASE map.case = "Compressed"
  <2>1. map.host \in Cluster /\ map.last \in Cluster /\ map.part \in Word /\ 0 \in Word
    BY <1>2, Numbers, PlacedInCluster, MapFacts
  <2>2. data[map.host][map.part] \in Nat /\ data[map.last][map.part] \in Nat
        /\ data[map.last][0] \in Nat
    BY <2>1
  <2>3. Payload(data, map)[1] \in Nat /\ Payload(data, map)[2] \in Nat
    BY <2>2 DEF Payload
  <2>4. Decompressed(data, map) \in [Word -> Nat]
    BY <2>3 DEF Decompressed
  <2>5. QED
    BY <1>2, <2>4 DEF ClusterWords
<1>3. CASE map.case = "Zero"
  BY <1>3 DEF ClusterWords
<1>4. CASE map.case = "Unallocated"
  <2>1. BackingWords(backing, v) \in [Word -> Nat]
    BY DEF BackingWords, Backing
  <2>2. QED
    BY <1>4, <2>1 DEF ClusterWords
<1>5. QED
  BY <1>1, <1>2, <1>3, <1>4, MapFacts

LEMMA ViewTyped ==
    ASSUME NEW d \in Device, NEW tableAt \in [L1Index -> Offset], NEW backing \in Backing
    PROVE  ViewThrough(d, tableAt, backing) \in [VWord -> Nat]
<1> SUFFICES ASSUME NEW x \in VWord
             PROVE  LET map == MapOf(EntryAt(d, tableAt, x[1]), FALSE)
                    IN  (IF map.last >= Outside THEN 0
                         ELSE ClusterWords(d.data, backing, x[1], map)[x[2]]) \in Nat
  BY DEF ViewThrough
<1> DEFINE map == MapOf(EntryAt(d, tableAt, x[1]), FALSE)
<1>1. x[1] \in VCluster /\ x[2] \in Word /\ x[1][1] \in L1Index /\ x[1][2] \in L2Index
  BY DEF VWord, VCluster
<1>2. EntryAt(d, tableAt, x[1]) \in L2Entry
  BY <1>1, EntriesTyped DEF EntryAt, Device
<1>3. map \in ClusterMap
  BY <1>2, MapTyped
<1>4. d.data \in [Cluster -> [Word -> Nat]]
  BY DEF Device
<1> HIDE DEF map
<1>5. CASE map.last >= Outside
  BY <1>5 DEF map
<1>6. CASE ~(map.last >= Outside)
  <2>1. map.last \in Nat
    BY <1>3, MapFacts, Numbers DEF Offset
  <2>2. Placed(map, Clusters)
    BY <1>6, <2>1, Numbers DEF Placed, Outside
  <2>3. ClusterWords(d.data, backing, x[1], map) \in [Word -> Nat]
    BY <1>1, <1>3, <1>4, <2>2, WordsTyped
  <2>4. QED
    BY <1>1, <1>6, <2>3 DEF map
<1>7. QED
  BY <1>5, <1>6

(***************************************************************************)
(* The threads                                                             *)
(***************************************************************************)
(* v comes no later than w on the disk.                                    *)
AtMost(v, w) == v[1] < w[1] \/ (v[1] = w[1] /\ v[2] <= w[2])

(* What a thread's locals are worth at the step that uses them.            *)
TableSteps == {"zero", "zeroFlush", "copy", "copyFlush", "l1Write", "l1Flush"}

GoodAt(step, locals, len) ==
    /\ Placed(locals.map, len)
    /\ AtMost(locals.at, locals.range.last)
    /\ step \in {"allocate", "allocateFlush"} => locals.why \in {"data", "table", "copy"}
    /\ step = "allocateFlush" =>
        IF locals.why = "data" THEN locals.new \in Cluster ELSE locals.table \in Cluster
    /\ step = "fill" => locals.new \in Cluster
    /\ step \in TableSteps => locals.table \in Cluster
    /\ step \in {"allocate", "allocateFlush", "copy"} /\ locals.why = "copy" =>
        locals.l1Entry.at \in Cluster
    /\ step = "copy" => locals.why = "copy"
    /\ step = "inPlace" => locals.map.case = "Plain"
    /\ step = "l2" => locals.l1Entry.at \in Cluster

LocalsGood(t) == GoodAt(pc[t], reg[t], imageLen)

(* The steps that ask nothing of the clusters the thread works on.         *)
PlainSteps == Steps \ ({"allocate", "allocateFlush", "fill", "inPlace", "l2"} \cup TableSteps)

(* The type invariant, and what makes it inductive.                        *)
Typed == TypeOK /\ \A t \in Threads : LocalsGood(t)

(* One writer at a time is past the lock, and past its lookup of the L1    *)
(* entry that entry stays one it may follow.                               *)
Serial ==
    \A t \in Writers :
        /\ pc[t] \notin {"idle", "lock"} => writeLock = t
        /\ pc[t] \notin {"idle", "lock", "l1"} => l1[reg[t].at[1]].at \in 0 .. Clusters

CachesTyped ==
    /\ l2Cache = <<>> \/ l2Cache \in L1Index \X [L2Index -> L2Entry]
    /\ deCache = <<>> \/ deCache \in VCluster \X [Word -> Nat]

StoreTyped ==
    /\ dev \in Device /\ durable \in Device
    /\ l1 \in [L1Index -> L1Entry]
    /\ CachesTyped

LocksTyped == writeLock \in Writers \cup {Nobody} /\ l1Lock \in Writers \cup {Nobody}

BoundsTyped ==
    /\ writes \in 0 .. MaxWrites /\ reads \in 0 .. MaxReads
    /\ faults \in 0 .. MaxFaults /\ crashes \in 0 .. MaxCrashes

LEMMA ImageTyped ==
    ASSUME img \in Images
    PROVE  /\ img.dev \in Device /\ img.snap \in [L1Index -> Offset] /\ img.backing \in Backing
  BY WriteAssumption DEF Image

LEMMA TargetsTyped ==
    ASSUME NEW f \in [L1Index -> L1Entry]
    PROVE  Targets(f) \in [L1Index -> Offset]
  BY DEF Targets, L1Entry

LEMMA BlankTyped ==
    /\ Blank \in Local /\ Blank.map = Unallocated
    /\ Blank.at = <<0, 0>> /\ Blank.range.last = <<0, 0>> /\ Blank.why = "data"
<1> DEFINE r == [first |-> <<0, 0>>, from |-> 0, last |-> <<0, 0>>, to |-> 0]
<1>1. r \in CallRange
  BY Numbers DEF CallRange
<1>2. [w \in Word |-> 0] \in [Word -> Nat]
  OBVIOUS
<1>3. NoL1Entry \in L1Entry /\ Unallocated \in ClusterMap /\ None \in Offset /\ <<0, 0>> \in VCluster
  BY EntriesTyped, PlainTyped, Numbers
<1> HIDE DEF r
<1>4. Blank = [range |-> r, val |-> 0, at |-> <<0, 0>>, l1Entry |-> NoL1Entry,
               map |-> Unallocated, full |-> [w \in Word |-> 0], new |-> None,
               table |-> None, old |-> None, why |-> "data"]
  BY DEF Blank, r
<1>5. Blank \in Local
  BY <1>1, <1>2, <1>3, <1>4 DEF Local
<1>6. QED
  BY <1>4, <1>5 DEF r

LEMMA BlankIsGood ==
    ASSUME NEW t \in Threads, pc[t] = "idle", reg[t] = Blank, imageLen \in Nat
    PROVE  LocalsGood(t)
  BY BlankTyped, PlainTyped DEF LocalsGood, GoodAt, AtMost, TableSteps

(* A thread that does not move keeps what it had.                          *)
LEMMA OthersGood ==
    ASSUME Typed, NEW u \in Threads, pc'[u] = pc[u], reg'[u] = reg[u],
           imageLen' \in Nat, imageLen <= imageLen'
    PROVE  LocalsGood(u)'
<1>1. reg[u].map \in ClusterMap /\ imageLen \in Nat /\ LocalsGood(u)
  BY DEF Typed, TypeOK, Local
<1>2. reg[u].map.last \in Nat
  BY <1>1, MapFacts, Numbers DEF Offset
<1>3. Placed(reg[u].map, imageLen')
  BY <1>1, <1>2 DEF LocalsGood, GoodAt, TableSteps, Placed
<1>4. QED
  BY <1>1, <1>3 DEF LocalsGood, GoodAt, TableSteps

LEMMA GoTyped ==
    ASSUME Typed, NEW t \in Threads, NEW step \in Steps, Go(t, step)
    PROVE  /\ pc' \in [Threads -> Steps] /\ pc'[t] = step
           /\ \A u \in Threads : u # t => pc'[u] = pc[u]
  BY DEF Typed, TypeOK, Go

LEMMA SetTyped ==
    ASSUME Typed, NEW t \in Threads, NEW fields \in Local, Set(t, fields)
    PROVE  /\ reg' \in [Threads -> Local] /\ reg'[t] = fields
           /\ \A u \in Threads : u # t => reg'[u] = reg[u]
  BY DEF Typed, TypeOK, Set

(* The values in Current and View are numbers.                             *)
LEMMA CurrentTyped ==
    ASSUME img \in Images, dev \in Device, l1 \in [L1Index -> L1Entry],
           imageLen \in 0 .. Clusters, reg \in [Threads -> Local],
           \A t \in Threads : LocalsGood(t)
    PROVE  View \in [VWord -> Nat] /\ Current \in [VWord -> SUBSET Nat]
<1>1. img.backing \in Backing /\ Targets(l1) \in [L1Index -> Offset]
  BY ImageTyped, TargetsTyped
<1>2. View \in [VWord -> Nat]
  BY <1>1, ViewTyped DEF View
<1>3. ASSUME NEW x \in VWord, NEW t \in Writers
      PROVE  ClusterWords(dev.data, img.backing, x[1], reg[t].map)[x[2]] \in Nat
  <2>1. t \in Threads /\ reg[t].map \in ClusterMap /\ x[1] \in VCluster /\ x[2] \in Word
    BY DEF Threads, Local, VWord
  <2>2. Placed(reg[t].map, imageLen)
    BY <2>1 DEF LocalsGood, GoodAt, TableSteps
  <2>3. Placed(reg[t].map, Clusters)
    <3>1. reg[t].map.last \in Nat
      BY <2>1, MapFacts, Numbers DEF Offset
    <3>2. QED
      BY <2>2, <3>1, Numbers DEF Placed
  <2>4. dev.data \in [Cluster -> [Word -> Nat]]
    BY DEF Device
  <2>5. ClusterWords(dev.data, img.backing, x[1], reg[t].map) \in [Word -> Nat]
    BY <1>1, <2>1, <2>3, <2>4, WordsTyped
  <2>6. QED
    BY <2>1, <2>5
<1>4. QED
  BY <1>2, <1>3 DEF Current

(* What CurrentTyped takes, and gives, in any state.                       *)
LooksTyped ==
    /\ img \in Images /\ dev \in Device /\ l1 \in [L1Index -> L1Entry]
    /\ imageLen \in 0 .. Clusters /\ reg \in [Threads -> Local]
    /\ \A t \in Threads : LocalsGood(t)

Shown == View \in [VWord -> Nat] /\ Current \in [VWord -> SUBSET Nat]

LEMMA ShownNext == LooksTyped' => Shown'
<1>1. LooksTyped => Shown
  BY CurrentTyped DEF LooksTyped, Shown
<1>2. QED
  BY <1>1, PTL

LEMMA TypedShows == Typed => LooksTyped /\ Shown
  BY CurrentTyped DEF LooksTyped, Shown, Typed, TypeOK

LEMMA ObserveTyped ==
    ASSUME Typed, LooksTyped', Observe
    PROVE  may' \in [VWord -> SUBSET Nat] /\ seen' \in [Readers -> SUBSET Nat]
<1>1. Shown /\ Shown'
  BY ShownNext, TypedShows
<1>2. may \in [VWord -> SUBSET Nat] /\ seen \in [Readers -> SUBSET Nat]
  BY DEF Typed, TypeOK
<1>3. may' \in [VWord -> SUBSET Nat]
  <2>1. may' = [x \in VWord |-> {View'[x]} \cup (IF crashes' # crashes THEN {} ELSE may[x])]
    BY DEF Observe
  <2>2. ASSUME NEW x \in VWord
        PROVE  {View'[x]} \cup (IF crashes' # crashes THEN {} ELSE may[x]) \subseteq Nat
    BY <1>1, <1>2 DEF Shown
  <2>3. QED
    BY <2>1, <2>2
<1>4. seen' \in [Readers -> SUBSET Nat]
  <2>1. ASSUME NEW r \in Readers
        PROVE  <<reg'[r].at, reg'[r].range.from>> \in VWord
    <3>1. reg'[r].at \in VCluster /\ reg'[r].range \in CallRange
      BY DEF LooksTyped, Local, Threads
    <3>2. QED
      BY <3>1 DEF CallRange, VWord
  <2>2. ASSUME NEW r \in Readers
        PROVE  (IF pc'[r] = "idle" THEN {}
                ELSE LET x == <<reg'[r].at, reg'[r].range.from>>
                     IN  seen[r] \cup Current[x] \cup Current'[x]) \subseteq Nat
    BY <1>1, <1>2, <2>1 DEF Shown
  <2>3. QED
    BY <2>2 DEF Observe
<1>5. QED
  BY <1>3, <1>4

(* A step of thread t keeps the typing if it keeps its own locals good and *)
(* the image no shorter.                                                   *)
LEMMA ThreadStep ==
    ASSUME Typed, NEW t \in Threads, img' = img,
           pc' \in [Threads -> Steps], reg' \in [Threads -> Local],
           \A u \in Threads : u # t => pc'[u] = pc[u] /\ reg'[u] = reg[u],
           LocalsGood(t)', StoreTyped', imageLen' \in 0 .. Clusters, imageLen <= imageLen',
           LocksTyped', BoundsTyped', Observe
    PROVE  Typed'
<1>1. ASSUME NEW u \in Threads PROVE LocalsGood(u)'
  <2>1. CASE u = t
    BY <2>1
  <2>2. CASE u # t
    BY <2>2, OthersGood
  <2>3. QED
    BY <2>1, <2>2
<1>2. img' \in Images
  BY DEF Typed, TypeOK
<1>3. LooksTyped'
  BY <1>1, <1>2 DEF LooksTyped, StoreTyped
<1>4. may' \in [VWord -> SUBSET Nat] /\ seen' \in [Readers -> SUBSET Nat]
  BY <1>3, ObserveTyped
<1>5. TypeOK'
  BY <1>2, <1>4 DEF TypeOK, StoreTyped, CachesTyped, LocksTyped, BoundsTyped
<1>6. QED
  BY <1>1, <1>5 DEF Typed

LEMMA TypedParts ==
    ASSUME Typed
    PROVE  /\ img \in Images /\ StoreTyped /\ imageLen \in 0 .. Clusters /\ LocksTyped /\ BoundsTyped
           /\ pc \in [Threads -> Steps] /\ reg \in [Threads -> Local]
           /\ \A t \in Threads : LocalsGood(t)
           /\ Writers \subseteq Threads /\ Readers \subseteq Threads
  BY DEF Typed, TypeOK, StoreTyped, CachesTyped, LocksTyped, BoundsTyped, Threads

(* The parts of the state a step leaves alone stay typed.                  *)
LEMMA SameStore ==
    ASSUME Typed, UNCHANGED <<dev, durable, l1, l2Cache, deCache>>
    PROVE  StoreTyped'
  BY TypedParts DEF StoreTyped, CachesTyped

LEMMA FaultTyped ==
    ASSUME Typed, Fault \/ UNCHANGED faults, UNCHANGED <<writes, reads, crashes>>
    PROVE  BoundsTyped'
  BY TypedParts, WriteAssumption DEF BoundsTyped, Fault

LEMMA LeaveTyped ==
    ASSUME Typed, NEW t \in Threads, Leave(t), imageLen' \in Nat
    PROVE  /\ pc' \in [Threads -> Steps] /\ reg' \in [Threads -> Local]
           /\ \A u \in Threads : u # t => pc'[u] = pc[u] /\ reg'[u] = reg[u]
           /\ pc'[t] = "idle" /\ reg'[t] = Blank
           /\ LocalsGood(t)' /\ LocksTyped'
<1>1. Go(t, "idle") /\ Set(t, Blank) /\ ReleaseLocks(t)
  BY DEF Leave
<1>2. "idle" \in Steps
  BY DEF Steps, OtherSteps
<1>3. /\ pc' \in [Threads -> Steps] /\ reg' \in [Threads -> Local]
      /\ \A u \in Threads : u # t => pc'[u] = pc[u] /\ reg'[u] = reg[u]
      /\ pc'[t] = "idle" /\ reg'[t] = Blank
  BY <1>1, <1>2, GoTyped, SetTyped, BlankTyped
<1>4. LocalsGood(t)'
  BY <1>3, BlankTyped, PlainTyped DEF LocalsGood, GoodAt, AtMost, TableSteps
<1>5. LocksTyped'
  BY <1>1, TypedParts DEF ReleaseLocks, LocksTyped
<1>6. QED
  BY <1>3, <1>4, <1>5

(* An error, or the end of a call, in a step that stores nothing.          *)
LEMMA LeaveStep ==
    ASSUME Typed, NEW t \in Threads, Leave(t), Fault \/ UNCHANGED faults,
           UNCHANGED <<img, imageLen, writes, reads, crashes>>, StoreTyped', Observe
    PROVE  Typed'
<1>1. imageLen \in 0 .. Clusters /\ imageLen' = imageLen
  BY TypedParts
<1>2. imageLen' \in 0 .. Clusters /\ imageLen' \in Nat /\ imageLen <= imageLen'
  BY <1>1, Numbers
<1>3. BoundsTyped'
  BY FaultTyped
<1>4. QED
  BY <1>2, <1>3, LeaveTyped, ThreadStep

(* The same for a step that moves on, with its locals changed or not.      *)
LEMMA MoveStep ==
    ASSUME Typed, NEW t \in Threads, NEW step \in Steps, Go(t, step),
           NEW locals \in Local, Set(t, locals) \/ (locals = reg[t] /\ UNCHANGED reg),
           GoodAt(step, locals, imageLen'),
           img' = img, StoreTyped', imageLen' \in 0 .. Clusters, imageLen <= imageLen',
           LocksTyped', BoundsTyped', Observe
    PROVE  Typed'
<1>1. pc' \in [Threads -> Steps] /\ pc'[t] = step /\ \A u \in Threads : u # t => pc'[u] = pc[u]
  BY GoTyped
<1>2. /\ reg' \in [Threads -> Local] /\ reg'[t] = locals
      /\ \A u \in Threads : u # t => reg'[u] = reg[u]
  BY SetTyped, TypedParts
<1>3. LocalsGood(t)'
  BY <1>1, <1>2 DEF LocalsGood
<1>4. QED
  BY <1>1, <1>2, <1>3, ThreadStep

LEMMA StillGood ==
    ASSUME Typed, NEW t \in Threads, NEW step \in PlainSteps,
           NEW len \in Nat, imageLen <= len
    PROVE  GoodAt(step, reg[t], len)
<1>1. GoodAt(pc[t], reg[t], imageLen) /\ reg[t].map \in ClusterMap /\ imageLen \in Nat
  BY TypedParts, Numbers DEF LocalsGood, Local
<1>2. reg[t].map.last \in Nat
  BY <1>1, MapFacts, Numbers DEF Offset
<1>3. Placed(reg[t].map, len)
  BY <1>1, <1>2 DEF GoodAt, TableSteps, Placed
<1>4. QED
  BY <1>1, <1>3 DEF GoodAt, TableSteps, PlainSteps

(* A quiet step: only the thread's position and locals, or a lock, change. *)
LEMMA QuietStep ==
    ASSUME Typed, NEW t \in Threads, NEW step \in Steps, Go(t, step),
           NEW locals \in Local, Set(t, locals) \/ (locals = reg[t] /\ UNCHANGED reg),
           GoodAt(step, locals, imageLen),
           UNCHANGED <<img, dev, durable, memory, bounds>>, LocksTyped', Observe
    PROVE  Typed'
<1>1. StoreTyped' /\ BoundsTyped'
  BY SameStore, TypedParts DEF memory, bounds, BoundsTyped
<1>2. imageLen' \in 0 .. Clusters /\ imageLen <= imageLen' /\ GoodAt(step, locals, imageLen')
  BY TypedParts DEF memory
<1>3. QED
  BY <1>1, <1>2, MoveStep

LEMMA GoodGrows ==
    ASSUME NEW step, NEW locals \in Local, NEW len \in Nat, NEW longer \in Nat,
           GoodAt(step, locals, len), len <= longer
    PROVE  GoodAt(step, locals, longer)
<1>1. locals.map \in ClusterMap /\ Placed(locals.map, len)
  BY DEF Local, GoodAt, TableSteps
<1>2. locals.map.last \in Nat
  BY <1>1, MapFacts, Numbers DEF Offset
<1>3. Placed(locals.map, longer)
  BY <1>1, <1>2 DEF Placed
<1>4. QED
  BY <1>3 DEF GoodAt, TableSteps

(* A device write that lands, with or without an error after all.          *)
LEMMA WrittenToStep ==
    ASSUME Typed, NEW t \in Threads, NEW c \in 0 .. Clusters, NEW step \in Steps,
           WrittenTo(t, c, step), GoodAt(step, reg[t], imageLen), img' = img, StoreTyped',
           UNCHANGED <<writes, reads, crashes>>, Observe
    PROVE  Typed'
<1>1. CASE Go(t, step) /\ Reach(c) /\ UNCHANGED <<reg, locks, faults>>
  <2>1. imageLen' \in 0 .. Clusters /\ imageLen <= imageLen' /\ imageLen' \in Nat /\ imageLen \in Nat
    BY <1>1, TypedParts, Numbers DEF Reach
  <2>2. LocksTyped' /\ BoundsTyped'
    BY <1>1, TypedParts, FaultTyped DEF locks, LocksTyped
  <2>3. GoodAt(step, reg[t], imageLen') /\ reg[t] \in Local
    BY <2>1, GoodGrows, TypedParts
  <2>4. QED
    BY <1>1, <2>1, <2>2, <2>3, MoveStep
<1>2. CASE Fault /\ Leave(t) /\ UNCHANGED imageLen
  BY <1>2, LeaveStep
<1>3. QED
  BY <1>1, <1>2 DEF WrittenTo

LEMMA FlushThenStep ==
    ASSUME Typed, NEW t \in Threads, NEW step \in Steps, FlushThen(t, step),
           GoodAt(step, reg[t], imageLen)
    PROVE  Typed'
<1>1. StoreTyped' /\ LocksTyped' /\ BoundsTyped'
  BY TypedParts DEF FlushThen, memory, locks, bounds, StoreTyped, CachesTyped, LocksTyped,
                    BoundsTyped
<1>2. imageLen' = imageLen /\ imageLen \in 0 .. Clusters /\ imageLen <= imageLen
  BY TypedParts DEF FlushThen, memory
<1>3. reg[t] \in Local /\ Go(t, step) /\ UNCHANGED <<img, reg>> /\ Observe
  BY TypedParts DEF FlushThen
<1>4. QED
  BY <1>1, <1>2, <1>3, MoveStep

(***************************************************************************)
(* Writing a device                                                        *)
(***************************************************************************)
LEMMA DeviceWritten ==
    ASSUME NEW d \in Device
    PROVE  /\ \A c, row : row \in [L2Index -> L2Entry] => [d EXCEPT !.table[c] = row] \in Device
           /\ \A c, words : words \in [Word -> Nat] => [d EXCEPT !.data[c] = words] \in Device
           /\ \A i, e : e \in L1Entry => [d EXCEPT !.l1[i] = e] \in Device
           /\ \A c, n : n \in Nat => [d EXCEPT !.rc[c] = n] \in Device
           /\ \A c, n, len : n \in Nat /\ len \in 0 .. Clusters =>
                  [d EXCEPT !.rc[c] = n, !.len = len] \in Device
  BY DEF Device

LEMMA EntryWrittenTyped ==
    ASSUME NEW d \in Device, NEW c, NEW j, NEW e \in L2Entry
    PROVE  [d EXCEPT !.table[c][j] = e] \in Device
<1> DEFINE row == [d.table[c] EXCEPT ![j] = e]
<1>1. [d EXCEPT !.table[c][j] = e] = [d EXCEPT !.table[c] = row]
  OBVIOUS
<1>2. CASE c \in Cluster
  <2>1. row \in [L2Index -> L2Entry]
    BY <1>2 DEF Device
  <2>2. QED
    BY <1>1, <2>1, DeviceWritten
<1>3. CASE c \notin Cluster
  BY <1>3 DEF Device
<1>4. QED
  BY <1>2, <1>3

(***************************************************************************)
(* The typing survives every step                                          *)
(***************************************************************************)
(* Locals changed only in fields that GoodAt does not look at.             *)
LEMMA StepNames ==
    /\ {"lock", "l1", "l2", "plan", "repoint", "forgetL2", "forgetData", "next", "fetch",
        "store", "done", "zeroFlush", "copyFlush", "fillFlush", "l1Write", "l1Flush",
        "allocateFlush", "entry", "entryFlush", "release", "releaseFlush", "idle"}
           \subseteq Steps
    /\ {"inPlace", "allocate", "fill", "zero", "copy"} \subseteq Steps
    /\ {"lock", "l1", "plan", "repoint", "forgetL2", "forgetData", "next", "fetch",
        "store", "done", "fillFlush", "entry", "entryFlush", "release", "releaseFlush", "idle"}
           \subseteq PlainSteps
    /\ PlainSteps \subseteq Steps /\ TableSteps \subseteq Steps
  BY DEF Steps, PlainSteps, TableSteps, WriteSteps, FlushSteps, ReleaseSteps, OtherSteps

LEMMA StartWriteTyped ==
    ASSUME Typed, NEW t \in Writers, StartWrite(t)
    PROVE  Typed'
<1>1. PICK r \in CallRange :
        Set(t, [Blank EXCEPT !.range = r, !.at = r.first, !.val = FirstValue + writes])
  BY DEF StartWrite
<1> DEFINE locals == [Blank EXCEPT !.range = r, !.at = r.first, !.val = FirstValue + writes]
<1>2. t \in Threads /\ writes \in Nat /\ FirstValue + writes \in Nat
  BY TypedParts, WriteAssumption DEF BoundsTyped
<1>3. /\ locals \in Local /\ locals.map = Unallocated /\ locals.at = r.first
      /\ locals.range = r /\ locals.why = "data"
  BY <1>2, BlankTyped DEF Local, CallRange
<1>4. AtMost(r.first, r.last)
  BY LayoutAssumption DEF CallRange, AtMost, VCluster, L1Index, L2Index
<1>5. imageLen \in 0 .. Clusters /\ imageLen \in Nat
  BY TypedParts, Numbers
<1> HIDE DEF locals
<1>6. GoodAt("lock", locals, imageLen)
  BY <1>3, <1>4, <1>5, PlainTyped DEF GoodAt, TableSteps
<1>7. StoreTyped' /\ LocksTyped' /\ img' = img /\ imageLen' = imageLen
  BY SameStore, TypedParts DEF StartWrite, memory, locks, LocksTyped
<1>8. BoundsTyped'
  BY TypedParts, WriteAssumption DEF StartWrite, BoundsTyped
<1>9. Go(t, "lock") /\ Observe /\ Set(t, locals)
  BY <1>1 DEF StartWrite, locals
<1>10. QED
  BY <1>2, <1>3, <1>5, <1>6, <1>7, <1>8, <1>9, StepNames, MoveStep

LEMMA StartReadTyped ==
    ASSUME Typed, NEW t \in Readers, StartRead(t)
    PROVE  Typed'
<1>1. PICK x \in VWord :
        Set(t, [Blank EXCEPT !.at = x[1], !.range = [first |-> x[1], from |-> x[2],
                                                     last |-> x[1], to |-> x[2]]])
  BY DEF StartRead
<1> DEFINE r == [first |-> x[1], from |-> x[2], last |-> x[1], to |-> x[2]]
           locals == [Blank EXCEPT !.at = x[1], !.range = r]
<1>2. t \in Threads /\ x[1] \in VCluster /\ x[2] \in Word /\ x[2] <= x[2]
  BY TypedParts DEF VWord, Word
<1>3. r \in CallRange /\ r.last = x[1]
  BY <1>2 DEF CallRange
<1> HIDE DEF r
<1>4. /\ locals \in Local /\ locals.map = Unallocated /\ locals.at = x[1]
      /\ locals.range = r /\ locals.why = "data"
  BY <1>2, <1>3, BlankTyped DEF Local
<1>5. AtMost(x[1], x[1])
  BY <1>2 DEF AtMost, VCluster, L2Index
<1>6. imageLen \in 0 .. Clusters /\ imageLen \in Nat
  BY TypedParts, Numbers
<1> HIDE DEF locals
<1>7. GoodAt("l1", locals, imageLen)
  BY <1>3, <1>4, <1>5, <1>6, PlainTyped DEF GoodAt, TableSteps
<1>8. StoreTyped' /\ LocksTyped' /\ img' = img /\ imageLen' = imageLen
  BY SameStore, TypedParts DEF StartRead, memory, locks, LocksTyped
<1>9. BoundsTyped'
  BY TypedParts, WriteAssumption DEF StartRead, BoundsTyped
<1>10. Go(t, "l1") /\ Observe /\ Set(t, locals)
  BY <1>1 DEF StartRead, locals, r
<1>11. QED
  BY <1>2, <1>4, <1>6, <1>7, <1>8, <1>9, <1>10, StepNames, MoveStep

LEMMA TakeWriteLockTyped ==
    ASSUME Typed, NEW t \in Writers, TakeWriteLock(t)
    PROVE  Typed'
<1>1. t \in Threads /\ reg[t] \in Local /\ GoodAt("l1", reg[t], imageLen)
  BY TypedParts, StillGood, StepNames, Numbers
<1>2. LocksTyped'
  BY TypedParts DEF TakeWriteLock, LocksTyped
<1>3. QED
  BY <1>1, <1>2, StepNames, QuietStep DEF TakeWriteLock

LEMMA LookupL1Typed ==
    ASSUME Typed, NEW t \in Threads, LookupL1(t)
    PROVE  Typed'
<1> DEFINE entry == l1[reg[t].at[1]]
           locals == [reg[t] EXCEPT !.l1Entry = entry, !.map = Unallocated]
           step == IF entry.at = None THEN Looked(t) ELSE "l2"
<1>1. reg[t] \in Local /\ reg[t].at \in VCluster /\ AtMost(reg[t].at, reg[t].range.last)
  BY TypedParts DEF Local, LocalsGood, GoodAt, TableSteps
<1>2. entry \in L1Entry
  BY <1>1, TypedParts DEF StoreTyped, VCluster
<1>3. step \in PlainSteps \cup {"l2"} /\ step \in Steps
  BY StepNames DEF Looked
<1>4. /\ UNCHANGED <<img, dev, durable, memory, bounds>> /\ Observe
      /\ imageLen \in Nat /\ imageLen <= Clusters
  BY TypedParts, Numbers DEF LookupL1
<1>5. CASE Inside(entry.at) /\ Set(t, locals) /\ Go(t, step) /\ UNCHANGED locks
  <2>1. locals \in Local /\ locals.map = Unallocated /\ locals.at = reg[t].at
        /\ locals.range = reg[t].range /\ locals.l1Entry = entry
    BY <1>1, <1>2, PlainTyped DEF Local
  <2>2. step = "l2" => entry.at \in Cluster
    <3>1. entry.at \in Offset /\ entry.at <= Clusters
      BY <1>2, <1>4, <1>5, Numbers DEF L1Entry, Inside, Offset, Outside
    <3>2. step = "l2" => entry.at # None
      BY DEF Looked
    <3>3. QED
      BY <3>1, <3>2, Numbers DEF Outside
  <2> HIDE DEF locals, step, entry
  <2>3. GoodAt(step, locals, imageLen)
    BY <1>1, <1>3, <1>4, <2>1, <2>2, PlainTyped DEF GoodAt, TableSteps, PlainSteps
  <2>4. LocksTyped'
    BY <1>5, TypedParts DEF LocksTyped, locks
  <2>5. QED
    BY <1>3, <1>4, <1>5, <2>1, <2>3, <2>4, QuietStep
<1>6. CASE Leave(t)
  BY <1>4, <1>6, SameStore, LeaveStep DEF memory, bounds
<1>7. QED
  BY <1>5, <1>6 DEF LookupL1

LEMMA CachedTyped ==
    ASSUME Typed, NEW i \in L1Index, NEW table \in Cluster
    PROVE  Cached(i, table) \in L1Index \X [L2Index -> L2Entry]
  BY TypedParts DEF Cached, StoreTyped, CachesTyped, Device

LEMMA LookupL2Typed ==
    ASSUME Typed, NEW t \in Threads, LookupL2(t)
    PROVE  Typed'
<1> DEFINE v == reg[t].at
           cache == Cached(v[1], reg[t].l1Entry.at)
           map == MapOf(cache[2][v[2]], reg[t].l1Entry.copied)
           locals == [reg[t] EXCEPT !.map = map]
           step == Looked(t)
<1>1. /\ reg[t] \in Local /\ v \in VCluster /\ AtMost(v, reg[t].range.last)
      /\ reg[t].l1Entry \in L1Entry
  BY TypedParts DEF Local, LocalsGood, GoodAt, TableSteps
<1>2. reg[t].l1Entry.at \in Cluster /\ reg[t].l1Entry.copied \in BOOLEAN
  BY <1>1, TypedParts DEF LookupL2, LocalsGood, GoodAt, TableSteps, L1Entry
<1>3. v[1] \in L1Index /\ v[2] \in L2Index
  BY <1>1 DEF VCluster
<1>4. cache \in L1Index \X [L2Index -> L2Entry]
  BY <1>2, <1>3, CachedTyped
<1>5. map \in ClusterMap
  BY <1>2, <1>3, <1>4, MapTyped
<1>6. step \in PlainSteps /\ step \in Steps
  BY StepNames DEF Looked
<1>7. /\ UNCHANGED <<img, dev, durable, l1, imageLen, deCache, bounds>> /\ Observe
      /\ l2Cache' = cache
      /\ IF map.case = "Zero" \/ Inside(map.last)
         THEN Set(t, locals) /\ Go(t, step) /\ UNCHANGED locks ELSE Leave(t)
  BY DEF LookupL2
<1>8. StoreTyped'
  BY <1>4, <1>7, TypedParts DEF StoreTyped, CachesTyped
<1> HIDE DEF cache, map, step
<1>9. CASE (map.case = "Zero" \/ Inside(map.last)) /\ Set(t, locals) /\ Go(t, step)
           /\ UNCHANGED locks
  <2>1. locals \in Local /\ locals.map = map /\ locals.at = v /\ locals.range = reg[t].range
    BY <1>1, <1>5 DEF Local
  <2> HIDE DEF locals
  <2>2. GoodAt(step, locals, imageLen)
    BY <1>1, <1>6, <1>9, <2>1 DEF GoodAt, TableSteps, PlainSteps, Placed, Inside
  <2>3. LocksTyped' /\ BoundsTyped'
    BY <1>7, <1>9, TypedParts DEF LocksTyped, locks, bounds, BoundsTyped
  <2>4. imageLen' = imageLen /\ imageLen \in 0 .. Clusters /\ imageLen <= imageLen /\ img' = img
    BY <1>7, TypedParts
  <2>5. QED
    BY <1>6, <1>7, <1>8, <1>9, <2>1, <2>2, <2>3, <2>4, MoveStep
<1>10. CASE Leave(t)
  BY <1>7, <1>8, <1>10, LeaveStep DEF bounds
<1>11. QED
  BY <1>7, <1>9, <1>10

(* The cluster a thread reads whole is words.                              *)
LEMMA ReadWholeTyped ==
    ASSUME Typed, NEW t \in Threads
    PROVE  /\ ClusterWords(dev.data, img.backing, reg[t].at, reg[t].map) \in [Word -> Nat]
           /\ DeCached(reg[t].at) => deCache[2] \in [Word -> Nat]
<1>1. reg[t].at \in VCluster /\ reg[t].map \in ClusterMap /\ Placed(reg[t].map, imageLen)
  BY TypedParts DEF Local, LocalsGood, GoodAt, TableSteps
<1>2. imageLen \in Nat /\ imageLen <= Clusters
  BY TypedParts, Numbers
<1>3. Placed(reg[t].map, Clusters)
  <2>1. reg[t].map.last \in Nat
    BY <1>1, MapFacts, Numbers DEF Offset
  <2>2. QED
    BY <1>1, <1>2, <2>1, Numbers DEF Placed
<1>4. dev.data \in [Cluster -> [Word -> Nat]] /\ img.backing \in Backing
  BY TypedParts, ImageTyped DEF StoreTyped, Device
<1>5. QED
  BY <1>1, <1>3, <1>4, WordsTyped, TypedParts DEF StoreTyped, CachesTyped, DeCached

LEMMA FetchTyped ==
    ASSUME Typed, NEW t \in Readers, Fetch(t)
    PROVE  Typed'
<1> DEFINE v == reg[t].at
           map == reg[t].map
           hit == map.case = "Compressed" /\ DeCached(v)
           words == IF hit THEN deCache[2] ELSE ClusterWords(dev.data, img.backing, v, map)
           locals == [reg[t] EXCEPT !.full = words, !.val = words[reg[t].range.from]]
           step == IF map.case = "Compressed" /\ ~hit THEN "store" ELSE "done"
<1>1. t \in Threads /\ words \in [Word -> Nat]
  BY TypedParts, ReadWholeTyped
<1>2. reg[t] \in Local /\ reg[t].range.from \in Word
  BY <1>1, TypedParts DEF Local, CallRange
<1>3. step \in Steps /\ step \in PlainSteps
  BY StepNames
<1>4. GoodAt(step, reg[t], imageLen)
  BY <1>1, <1>3, StillGood, TypedParts, Numbers
<1>5. /\ Set(t, locals) /\ Go(t, step) /\ UNCHANGED <<img, dev, durable, memory, locks, bounds>>
      /\ Observe
  BY DEF Fetch
<1> HIDE DEF words, step
<1>6. locals \in Local /\ locals.map = reg[t].map /\ locals.at = reg[t].at
      /\ locals.range = reg[t].range
  BY <1>1, <1>2 DEF Local
<1> HIDE DEF locals
<1>7. GoodAt(step, locals, imageLen)
  BY <1>3, <1>4, <1>6 DEF GoodAt, TableSteps, PlainSteps
<1>8. LocksTyped'
  BY <1>5, TypedParts DEF locks, LocksTyped
<1>9. QED
  BY <1>1, <1>3, <1>5, <1>6, <1>7, <1>8, QuietStep

LEMMA StoreStepTyped ==
    ASSUME Typed, NEW t \in Readers, Store(t)
    PROVE  Typed'
<1>1. t \in Threads /\ reg[t] \in Local /\ GoodAt("done", reg[t], imageLen)
  BY TypedParts, StillGood, StepNames, Numbers
<1>2. reg[t].at \in VCluster /\ reg[t].full \in [Word -> Nat]
  BY <1>1 DEF Local
<1>3. StoreTyped' /\ LocksTyped' /\ BoundsTyped'
  BY <1>2, TypedParts
    DEF Store, StoreTyped, CachesTyped, LocksTyped, BoundsTyped, locks, bounds
<1>4. imageLen' = imageLen /\ imageLen \in 0 .. Clusters /\ imageLen <= imageLen
  BY TypedParts DEF Store
<1>5. Go(t, "done") /\ UNCHANGED <<img, reg>> /\ Observe
  BY DEF Store
<1>6. QED
  BY <1>1, <1>3, <1>4, <1>5, StepNames, MoveStep

(* The steps that only end a call.                                         *)
LEMMA LeavingTyped ==
    ASSUME Typed, NEW t \in Threads,
           Undecodable(t) \/ EndRead(t) \/ NoRoom(t) \/ EndWrite(t) \/ DeviceError(t)
    PROVE  Typed'
<1>1. /\ Leave(t) /\ (Fault \/ UNCHANGED faults) /\ Observe
      /\ UNCHANGED <<img, dev, durable, memory, writes, reads, crashes>>
  BY DEF Undecodable, EndRead, NoRoom, EndWrite, DeviceError, bounds
<1>2. StoreTyped' /\ UNCHANGED imageLen
  BY <1>1, SameStore DEF memory
<1>3. QED
  BY <1>1, <1>2, LeaveStep

LEMMA PlanInPlaceTyped ==
    ASSUME Typed, NEW t \in Writers, PlanInPlace(t)
    PROVE  Typed'
<1>1. t \in Threads /\ reg[t] \in Local /\ GoodAt("plan", reg[t], imageLen)
  BY TypedParts, StillGood, StepNames, Numbers
<1>2. GoodAt("inPlace", reg[t], imageLen)
  BY <1>1 DEF PlanInPlace, InPlace, GoodAt, TableSteps
<1>3. LocksTyped'
  BY TypedParts DEF PlanInPlace, LocksTyped, locks
<1>4. QED
  BY <1>1, <1>2, <1>3, StepNames, QuietStep DEF PlanInPlace

LEMMA SplicedTyped ==
    ASSUME NEW words \in [Word -> Nat], NEW r, NEW v, NEW val \in Nat
    PROVE  Spliced(words, r, v, val) \in [Word -> Nat]
  BY DEF Spliced

LEMMA PlanReallocateTyped ==
    ASSUME Typed, NEW t \in Writers, PlanReallocate(t)
    PROVE  Typed'
<1> DEFINE v == reg[t].at
           map == reg[t].map
           seed == Seed(v, map)
           full == Spliced(seed, reg[t].range, v, reg[t].val)
           old == ReleaseOf(map)
           locals == [reg[t] EXCEPT !.full = full, !.old = old, !.why = "data"]
<1>1. t \in Threads /\ reg[t] \in Local /\ v \in VCluster /\ map \in ClusterMap /\ reg[t].val \in Nat
  BY TypedParts DEF Local
<1>2. seed \in [Word -> Nat]
  BY <1>1, ReadWholeTyped DEF Seed
<1>3. full \in [Word -> Nat]
  BY <1>1, <1>2, SplicedTyped
<1>4. old \in Offset
  BY <1>1, MapFacts, Numbers DEF ReleaseOf
<1>5. GoodAt("plan", reg[t], imageLen)
  BY <1>1, StillGood, StepNames, TypedParts, Numbers
<1>6. /\ Set(t, locals) /\ Go(t, "allocate") /\ UNCHANGED <<img, dev, durable, l1, imageLen>>
      /\ UNCHANGED <<l2Cache, locks, bounds>> /\ Observe
      /\ deCache' = IF map.case = "Compressed" THEN <<v, seed>> ELSE deCache
  BY DEF PlanReallocate
<1> HIDE DEF seed, full, old
<1>7. /\ locals \in Local /\ locals.map = map /\ locals.at = v /\ locals.range = reg[t].range
      /\ locals.why = "data"
  BY <1>1, <1>3, <1>4 DEF Local
<1> HIDE DEF locals
<1>8. GoodAt("allocate", locals, imageLen)
  BY <1>5, <1>7 DEF GoodAt, TableSteps
<1>9. StoreTyped' /\ LocksTyped' /\ BoundsTyped'
  BY <1>1, <1>2, <1>6, TypedParts
    DEF StoreTyped, CachesTyped, LocksTyped, BoundsTyped, locks, bounds
<1>10. imageLen' = imageLen /\ imageLen \in 0 .. Clusters /\ imageLen <= imageLen
  BY <1>6, TypedParts
<1>11. QED
  BY <1>1, <1>6, <1>7, <1>8, <1>9, <1>10, StepNames, MoveStep

(* What a crash, or an overwritten write, leaves of two functions.         *)
LEMMA MixedTyped ==
    ASSUME NEW D, NEW R, NEW old \in [D -> R], NEW new \in [D -> R], NEW f \in Mixed(old, new)
    PROVE  f \in [D -> R] /\ \A k \in D : f[k] \in {old[k], new[k]}
<1>1. PICK S : f = [k \in DOMAIN old |-> IF k \in S THEN new[k] ELSE old[k]]
  BY DEF Mixed
<1>2. QED
  BY <1>1

LEMMA WriteInPlaceTyped ==
    ASSUME Typed, NEW t \in Writers, WriteInPlace(t)
    PROVE  Typed'
<1> DEFINE host == reg[t].map.host
           words == Spliced(dev.data[host], reg[t].range, reg[t].at, reg[t].val)
<1>1. t \in Threads /\ reg[t].map \in ClusterMap /\ reg[t].val \in Nat
  BY TypedParts DEF Local
<1>2. Placed(reg[t].map, imageLen) /\ reg[t].map.case = "Plain"
  BY <1>1, TypedParts DEF WriteInPlace, LocalsGood, GoodAt, TableSteps
<1>3. host \in Cluster /\ imageLen \in 0 .. Clusters
  BY <1>1, <1>2, TypedParts, PlacedInCluster
<1>4. host \in 0 .. Clusters
  BY <1>3, Numbers DEF Cluster
<1>5. dev.data[host] \in [Word -> Nat] /\ durable.data[host] \in [Word -> Nat]
      /\ dev \in Device /\ durable \in Device
  BY <1>3, TypedParts DEF StoreTyped, Device
<1>6. words \in [Word -> Nat]
  BY <1>1, <1>5, SplicedTyped
<1>7. /\ WrittenTo(t, host, "next") /\ dev' = [dev EXCEPT !.data[host] = words]
      /\ UNCHANGED <<img, l1, l2Cache, deCache, writes, reads, crashes>> /\ Observe
  BY DEF WriteInPlace
<1>8. PICK mixed \in Mixed(durable.data[host], dev.data[host]) :
          durable' = [durable EXCEPT !.data[host] = mixed]
  BY DEF WriteInPlace
<1> HIDE DEF words, host
<1>9. mixed \in [Word -> Nat]
  <2>1. ASSUME NEW f \in Mixed(durable.data[host], dev.data[host]) PROVE f \in [Word -> Nat]
    BY <1>5, MixedTyped
  <2>2. QED
    BY <2>1
<1>10. dev' \in Device /\ durable' \in Device
  BY <1>5, <1>6, <1>7, <1>8, <1>9, DeviceWritten
<1>11. StoreTyped'
  BY <1>7, <1>10, TypedParts DEF StoreTyped, CachesTyped
<1>12. GoodAt("next", reg[t], imageLen)
  BY <1>1, StillGood, StepNames, TypedParts, Numbers
<1>13. QED
  BY <1>1, <1>4, <1>7, <1>11, <1>12, StepNames, WrittenToStep

LEMMA AllocateTyped ==
    ASSUME Typed, NEW t \in Writers, Allocate(t)
    PROVE  Typed'
<1> DEFINE locals(c) == IF reg[t].why = "data" THEN [reg[t] EXCEPT !.new = c]
                        ELSE [reg[t] EXCEPT !.table = c]
<1>1. PICK c \in Cluster :
        /\ dev' = [dev EXCEPT !.rc[c] = 1, !.len = Longer(c)]
        /\ \/ /\ Set(t, locals(c)) /\ Go(t, "allocateFlush") /\ UNCHANGED <<locks, faults>>
           \/ Fault /\ Leave(t)
  BY DEF Allocate
<1>2. UNCHANGED <<img, durable, memory, writes, reads, crashes>> /\ Observe /\ t \in Threads
  BY TypedParts DEF Allocate
<1>3. Longer(c) \in 0 .. Clusters
  BY Numbers, TypedParts DEF Longer, Cluster, StoreTyped, Device
<1>4. dev' \in Device
  BY <1>1, <1>3, DeviceWritten, TypedParts DEF StoreTyped
<1>5. StoreTyped'
  BY <1>2, <1>4, TypedParts DEF StoreTyped, CachesTyped, memory
<1>6. imageLen' = imageLen /\ imageLen \in 0 .. Clusters /\ imageLen <= imageLen
  BY <1>2, TypedParts DEF memory
<1>7. CASE Set(t, locals(c)) /\ Go(t, "allocateFlush") /\ UNCHANGED <<locks, faults>>
  <2>1. GoodAt("allocate", reg[t], imageLen) /\ reg[t] \in Local
    BY <1>2, TypedParts DEF Allocate, LocalsGood
  <2>2. c \in Offset
    BY Numbers
  <2>3. /\ locals(c) \in Local /\ locals(c).map = reg[t].map /\ locals(c).at = reg[t].at
        /\ locals(c).range = reg[t].range /\ locals(c).why = reg[t].why
        /\ locals(c).l1Entry = reg[t].l1Entry
        /\ IF reg[t].why = "data" THEN locals(c).new = c ELSE locals(c).table = c
    <3>1. CASE reg[t].why = "data"
      BY <2>1, <2>2, <3>1 DEF Local
    <3>2. CASE reg[t].why # "data"
      BY <2>1, <2>2, <3>2 DEF Local
    <3>3. QED
      BY <3>1, <3>2
  <2>4. GoodAt("allocateFlush", locals(c), imageLen)
    BY <2>1, <2>3 DEF GoodAt, TableSteps
  <2>5. LocksTyped' /\ BoundsTyped'
    BY <1>2, <1>7, FaultTyped, TypedParts DEF locks, LocksTyped
  <2> HIDE DEF locals
  <2>6. QED
    BY <1>2, <1>5, <1>6, <1>7, <2>3, <2>4, <2>5, StepNames, MoveStep
<1>8. CASE Fault /\ Leave(t)
  BY <1>2, <1>5, <1>6, <1>8, LeaveStep
<1>9. QED
  BY <1>1, <1>7, <1>8

LEMMA FlushingTyped ==
    ASSUME Typed, NEW t \in Writers,
           \/ FlushAllocate(t) \/ FlushFill(t) \/ FlushZero(t) \/ FlushCopy(t)
           \/ FlushEntry(t) \/ FlushRelease(t)
    PROVE  Typed'
<1>1. t \in Threads /\ imageLen \in Nat
  BY TypedParts, Numbers
<1>2. CASE FlushAllocate(t)
  <2> DEFINE step == CASE reg[t].why = "data" -> "fill"
                       [] reg[t].why = "table" -> "zero"
                       [] reg[t].why = "copy" -> "copy"
  <2>1. GoodAt("allocateFlush", reg[t], imageLen) /\ FlushThen(t, step)
    BY <1>1, <1>2, TypedParts DEF FlushAllocate, LocalsGood
  <2>2. step \in Steps /\ GoodAt(step, reg[t], imageLen)
    BY <2>1, StepNames DEF GoodAt, TableSteps
  <2>3. QED
    BY <1>1, <2>1, <2>2, FlushThenStep
<1>3. CASE FlushZero(t) \/ FlushCopy(t)
  <2>1. GoodAt(pc[t], reg[t], imageLen) /\ pc[t] \in TableSteps /\ FlushThen(t, "l1Write")
    BY <1>1, <1>3, TypedParts DEF FlushZero, FlushCopy, LocalsGood, TableSteps
  <2>2. GoodAt("l1Write", reg[t], imageLen)
    BY <2>1 DEF GoodAt, TableSteps
  <2>3. QED
    BY <1>1, <2>1, <2>2, StepNames, FlushThenStep
<1>4. CASE FlushFill(t) \/ FlushEntry(t) \/ FlushRelease(t)
  <2>1. PICK step \in PlainSteps : FlushThen(t, step)
    BY <1>4, StepNames DEF FlushFill, FlushEntry, FlushRelease, AfterRelease
  <2>2. GoodAt(step, reg[t], imageLen)
    BY <1>1, StillGood
  <2>3. QED
    BY <1>1, <2>1, <2>2, StepNames, FlushThenStep
<1>5. QED
  BY <1>2, <1>3, <1>4

LEMMA FillTyped ==
    ASSUME Typed, NEW t \in Writers, Fill(t)
    PROVE  Typed'
<1>1. t \in Threads /\ reg[t].new \in Cluster /\ reg[t].full \in [Word -> Nat]
  BY TypedParts DEF Fill, LocalsGood, GoodAt, TableSteps, Local
<1>2. reg[t].new \in 0 .. Clusters
  BY <1>1, Numbers DEF Cluster
<1>3. /\ dev' = [dev EXCEPT !.data[reg[t].new] = reg[t].full] /\ WrittenTo(t, reg[t].new, "fillFlush")
      /\ UNCHANGED <<img, durable, l1, l2Cache, deCache, writes, reads, crashes>> /\ Observe
  BY DEF Fill
<1>4. dev' \in Device
  BY <1>1, <1>3, DeviceWritten, TypedParts DEF StoreTyped
<1>5. StoreTyped'
  BY <1>3, <1>4, TypedParts DEF StoreTyped, CachesTyped
<1>6. GoodAt("fillFlush", reg[t], imageLen)
  BY <1>1, StillGood, StepNames, TypedParts, Numbers
<1>7. QED
  BY <1>1, <1>2, <1>3, <1>5, <1>6, StepNames, WrittenToStep

LEMMA ZeroTyped ==
    ASSUME Typed, NEW t \in Writers, Zero(t)
    PROVE  Typed'
<1>1. t \in Threads /\ GoodAt("zero", reg[t], imageLen)
  BY TypedParts DEF Zero, LocalsGood
<1>2. reg[t].table \in 0 .. Clusters /\ GoodAt("zeroFlush", reg[t], imageLen)
  BY <1>1, Numbers DEF Cluster, GoodAt, TableSteps
<1>3. /\ dev' = [dev EXCEPT !.table[reg[t].table] = EmptyTable]
      /\ WrittenTo(t, reg[t].table, "zeroFlush")
      /\ UNCHANGED <<img, durable, l1, l2Cache, deCache, writes, reads, crashes>> /\ Observe
  BY DEF Zero
<1>4. dev' \in Device
  BY <1>3, EntriesTyped, DeviceWritten, TypedParts DEF StoreTyped
<1>5. StoreTyped'
  BY <1>3, <1>4, TypedParts DEF StoreTyped, CachesTyped
<1>6. QED
  BY <1>1, <1>2, <1>3, <1>5, StepNames, WrittenToStep

LEMMA CopyTableTyped ==
    ASSUME Typed, NEW t \in Writers, CopyTable(t)
    PROVE  Typed'
<1>1. t \in Threads /\ GoodAt("copy", reg[t], imageLen)
  BY TypedParts DEF CopyTable, LocalsGood
<1>2. /\ reg[t].table \in 0 .. Clusters /\ GoodAt("copyFlush", reg[t], imageLen)
      /\ reg[t].l1Entry.at \in Cluster
  BY <1>1, Numbers DEF Cluster, GoodAt, TableSteps
<1>3. /\ dev' = [dev EXCEPT !.table[reg[t].table] = TableCopy(reg[t].l1Entry.at)]
      /\ WrittenTo(t, reg[t].table, "copyFlush")
      /\ UNCHANGED <<img, durable, l1, l2Cache, deCache, writes, reads, crashes>> /\ Observe
  BY DEF CopyTable
<1>4. TableCopy(reg[t].l1Entry.at) \in [L2Index -> L2Entry]
  BY <1>2, TypedParts DEF TableCopy, StoreTyped, Device
<1>5. dev' \in Device
  BY <1>3, <1>4, DeviceWritten, TypedParts DEF StoreTyped
<1>6. StoreTyped'
  BY <1>3, <1>5, TypedParts DEF StoreTyped, CachesTyped
<1>7. QED
  BY <1>1, <1>2, <1>3, <1>6, StepNames, WrittenToStep

LEMMA RepointTyped ==
    ASSUME Typed, Serial, NEW t \in Writers, Repoint(t)
    PROVE  Typed'
<1> DEFINE entry == l1[reg[t].at[1]]
           own == [reg[t] EXCEPT !.table = entry.at]
           fresh == [reg[t] EXCEPT !.why = WhatTable(entry), !.l1Entry = entry]
<1>1. t \in Threads /\ reg[t] \in Local /\ reg[t].at \in VCluster
  BY TypedParts DEF Local
<1>2. entry \in L1Entry
  BY <1>1, TypedParts DEF StoreTyped, VCluster
<1>3. GoodAt("repoint", reg[t], imageLen)
  BY <1>1, StillGood, StepNames, TypedParts, Numbers
<1>4. UNCHANGED <<img, dev, durable, memory, locks, bounds>> /\ Observe /\ LocksTyped'
  BY TypedParts DEF Repoint, locks, LocksTyped
<1>5. CASE Set(t, own) /\ Go(t, "entry")
  <2>1. own \in Local /\ own.map = reg[t].map /\ own.at = reg[t].at /\ own.range = reg[t].range
    BY <1>1, <1>2 DEF Local, L1Entry
  <2>2. GoodAt("entry", own, imageLen)
    BY <1>3, <2>1 DEF GoodAt, TableSteps
  <2> HIDE DEF own
  <2>3. QED
    BY <1>1, <1>4, <1>5, <2>1, <2>2, StepNames, QuietStep
<1>6. CASE WhatTable(entry) # "own" /\ Set(t, fresh) /\ Go(t, "allocate")
  <2>1. WhatTable(entry) \in {"table", "copy"}
    BY <1>6 DEF WhatTable
  <2>2. /\ fresh \in Local /\ fresh.map = reg[t].map /\ fresh.at = reg[t].at
        /\ fresh.range = reg[t].range /\ fresh.why \in {"table", "copy"}
        /\ fresh.l1Entry = entry
    BY <1>1, <1>2, <2>1 DEF Local
  <2>3. entry.at \in 0 .. Clusters
    BY DEF Repoint, Serial
  <2>4. fresh.why = "copy" => entry.at \in Cluster
    BY <1>2, <2>2, <2>3, Numbers DEF WhatTable, Cluster, None
  <2>5. GoodAt("allocate", fresh, imageLen)
    BY <1>3, <2>2, <2>4 DEF GoodAt, TableSteps
  <2> HIDE DEF fresh
  <2>6. QED
    BY <1>1, <1>4, <1>6, <2>2, <2>5, StepNames, QuietStep
<1>7. QED
  BY <1>5, <1>6 DEF Repoint

LEMMA WriteL1Typed ==
    ASSUME Typed, NEW t \in Writers, WriteL1(t)
    PROVE  Typed'
<1>1. t \in Threads /\ reg[t] \in Local /\ reg[t].table \in Offset
  BY TypedParts DEF Local
<1>2. /\ dev' = [dev EXCEPT !.l1[reg[t].at[1]] = L1EntryFor(reg[t].table)]
      /\ UNCHANGED <<img, durable, memory, writes, reads, crashes>> /\ Observe
      /\ \/ Go(t, "l1Flush") /\ l1Lock' = t /\ UNCHANGED <<reg, writeLock, faults>>
         \/ Fault /\ Leave(t)
  BY DEF WriteL1
<1>3. dev' \in Device
  BY <1>1, <1>2, EntriesTyped, DeviceWritten, TypedParts DEF StoreTyped
<1>4. StoreTyped'
  BY <1>2, <1>3, TypedParts DEF StoreTyped, CachesTyped, memory
<1>5. imageLen' = imageLen /\ imageLen \in 0 .. Clusters /\ imageLen <= imageLen
      /\ imageLen \in Nat
  BY <1>2, TypedParts, Numbers DEF memory
<1>6. CASE Go(t, "l1Flush") /\ l1Lock' = t /\ UNCHANGED <<reg, writeLock, faults>>
  <2>1. LocksTyped' /\ BoundsTyped'
    BY <1>2, <1>6, FaultTyped, TypedParts DEF LocksTyped
  <2>2. GoodAt("l1Flush", reg[t], imageLen)
    <3>1. GoodAt("l1Write", reg[t], imageLen)
      BY <1>1, TypedParts DEF WriteL1, LocalsGood
    <3>2. QED
      BY <3>1 DEF GoodAt, TableSteps
  <2>3. QED
    BY <1>1, <1>2, <1>4, <1>5, <1>6, <2>1, <2>2, StepNames, MoveStep
<1>7. CASE Fault /\ Leave(t)
  BY <1>1, <1>2, <1>4, <1>5, <1>7, LeaveStep
<1>8. QED
  BY <1>2, <1>6, <1>7

LEMMA FlushL1Typed ==
    ASSUME Typed, NEW t \in Writers, FlushL1(t)
    PROVE  Typed'
<1> DEFINE step == IF reg[t].why = "copy" THEN "release" ELSE "entry"
<1>1. t \in Threads /\ reg[t] \in Local /\ reg[t].table \in Offset /\ step \in PlainSteps
      /\ step \in Steps
  BY TypedParts, StepNames DEF Local
<1>2. /\ durable' = dev /\ l1' = [l1 EXCEPT ![reg[t].at[1]] = L1EntryFor(reg[t].table)]
      /\ l1Lock' = Nobody /\ Go(t, step) /\ Observe
      /\ UNCHANGED <<img, dev, imageLen, l2Cache, deCache, writeLock, reg, bounds>>
  BY DEF FlushL1
<1>3. l1' \in [L1Index -> L1Entry]
  BY <1>1, <1>2, EntriesTyped, TypedParts DEF StoreTyped
<1>4. StoreTyped' /\ LocksTyped' /\ BoundsTyped'
  BY <1>2, <1>3, TypedParts
    DEF StoreTyped, CachesTyped, LocksTyped, BoundsTyped, bounds
<1>5. imageLen' = imageLen /\ imageLen \in 0 .. Clusters /\ imageLen <= imageLen
  BY <1>2, TypedParts
<1>6. GoodAt(step, reg[t], imageLen)
  BY <1>1, <1>5, StillGood, Numbers
<1> HIDE DEF step
<1>7. QED
  BY <1>1, <1>2, <1>4, <1>5, <1>6, MoveStep

LEMMA WriteEntryTyped ==
    ASSUME Typed, NEW t \in Writers, WriteEntry(t)
    PROVE  Typed'
<1>1. t \in Threads /\ reg[t].new \in Offset
  BY TypedParts DEF Local
<1>2. /\ dev' = [dev EXCEPT !.table[reg[t].table][reg[t].at[2]] = L2EntryFor(reg[t].new)]
      /\ WrittenTo(t, None, "entryFlush")
      /\ UNCHANGED <<img, durable, memory, writes, reads, crashes>> /\ Observe
  BY DEF WriteEntry, Written
<1>3. dev' \in Device
  BY <1>1, <1>2, EntriesTyped, EntryWrittenTyped, TypedParts DEF StoreTyped
<1>4. StoreTyped'
  BY <1>2, <1>3, TypedParts DEF StoreTyped, CachesTyped, memory
<1>5. None \in 0 .. Clusters
  BY Numbers DEF None
<1>6. GoodAt("entryFlush", reg[t], imageLen)
  BY <1>1, StillGood, StepNames, TypedParts, Numbers
<1>7. QED
  BY <1>1, <1>2, <1>4, <1>5, <1>6, StepNames, WrittenToStep

LEMMA ForgettingTyped ==
    ASSUME Typed, NEW t \in Writers, ForgetL2(t) \/ ForgetData(t)
    PROVE  Typed'
<1> DEFINE locals == IF ForgetL2(t) THEN reg[t] ELSE [reg[t] EXCEPT !.why = "release"]
<1>1. t \in Threads /\ reg[t] \in Local
  BY TypedParts
<1>2. PICK step \in PlainSteps : Go(t, step) /\ (Set(t, locals) \/ (locals = reg[t] /\ UNCHANGED reg))
  BY StepNames DEF ForgetL2, ForgetData
<1>3. locals \in Local /\ locals.map = reg[t].map /\ locals.at = reg[t].at
      /\ locals.range = reg[t].range
  BY <1>1 DEF Local
<1> HIDE DEF locals
<1>4. GoodAt(step, reg[t], imageLen)
  BY <1>1, StillGood, TypedParts, Numbers
<1>5. GoodAt(step, locals, imageLen) /\ step \in Steps
  BY <1>3, <1>4 DEF GoodAt, TableSteps, PlainSteps
<1>6. /\ UNCHANGED <<img, dev, durable, l1, imageLen, locks, bounds>> /\ Observe
      /\ l2Cache' \in {<<>>, l2Cache} /\ deCache' \in {<<>>, deCache}
  BY DEF ForgetL2, ForgetData, AfterEntry
<1>7. StoreTyped' /\ LocksTyped' /\ BoundsTyped'
  BY <1>6, TypedParts
    DEF StoreTyped, CachesTyped, LocksTyped, BoundsTyped, locks, bounds
<1>8. imageLen' = imageLen /\ imageLen \in 0 .. Clusters /\ imageLen <= imageLen
  BY <1>6, TypedParts
<1>9. QED
  BY <1>1, <1>2, <1>3, <1>5, <1>6, <1>7, <1>8, MoveStep

LEMMA ReleasingTyped ==
    ASSUME Typed, NEW t \in Writers, WriteRelease(t) \/ ReleaseFails(t)
    PROVE  Typed'
<1>1. t \in Threads /\ reg[t] \in Local
  BY TypedParts
<1>2. PICK step \in PlainSteps : Go(t, step) /\ UNCHANGED reg
  BY StepNames DEF WriteRelease, ReleaseFails, AfterRelease
<1>3. GoodAt(step, reg[t], imageLen) /\ step \in Steps
  BY <1>1, StillGood, TypedParts, Numbers DEF PlainSteps
<1>4. /\ UNCHANGED <<img, durable, memory, locks, writes, reads, crashes>> /\ Observe
      /\ Fault \/ UNCHANGED faults
  BY DEF WriteRelease, ReleaseFails
<1>5. dev' \in Device
  <2>1. CASE WriteRelease(t)
    <3>1. dev' = [dev EXCEPT !.rc[Released(t)] = @ - 1] /\ dev.rc[Released(t)] > 0
      BY <2>1 DEF WriteRelease
    <3>2. CASE Released(t) \in Cluster
      <4>1. dev.rc[Released(t)] - 1 \in Nat
        BY <3>1, <3>2, TypedParts DEF StoreTyped, Device
      <4>2. QED
        BY <3>1, <4>1, DeviceWritten, TypedParts DEF StoreTyped
    <3>3. CASE Released(t) \notin Cluster
      BY <3>1, <3>3, TypedParts DEF StoreTyped, Device
    <3>4. QED
      BY <3>2, <3>3
  <2>2. CASE ReleaseFails(t)
    BY <2>2, TypedParts DEF ReleaseFails, StoreTyped
  <2>3. QED
    BY <2>1, <2>2
<1>6. StoreTyped' /\ LocksTyped' /\ BoundsTyped'
  BY <1>4, <1>5, FaultTyped, TypedParts
    DEF StoreTyped, CachesTyped, LocksTyped, locks, memory
<1>7. imageLen' = imageLen /\ imageLen \in 0 .. Clusters /\ imageLen <= imageLen
  BY <1>4, TypedParts DEF memory
<1>8. QED
  BY <1>1, <1>2, <1>3, <1>4, <1>6, <1>7, MoveStep

LEMMA NextChunkTyped ==
    ASSUME Typed, NEW t \in Writers, NextChunk(t)
    PROVE  Typed'
<1> DEFINE v == reg[t].at
           w == reg[t].range.last
           locals == [reg[t] EXCEPT !.at = AfterV(@), !.new = None, !.table = None, !.old = None]
<1>1. t \in Threads /\ reg[t] \in Local
  BY TypedParts
<1>2. v \in VCluster /\ w \in VCluster /\ AtMost(v, w) /\ v # w
  BY <1>1, TypedParts DEF NextChunk, Local, CallRange, LocalsGood, GoodAt, TableSteps
<1>3. AfterV(v) \in VCluster /\ AtMost(AfterV(v), w)
  <2>1. /\ v[1] \in Nat /\ v[2] \in Nat /\ w[1] \in Nat /\ w[2] \in Nat
        /\ v[2] < L2Len /\ w[1] < L1Len /\ w[2] < L2Len /\ v = <<v[1], v[2]>> /\ w = <<w[1], w[2]>>
    BY <1>2, Numbers DEF VCluster, L1Index, L2Index
  <2>2. CASE v[2] + 1 < L2Len
    <3>1. AfterV(v) = <<v[1], v[2] + 1>>
      BY <2>2 DEF AfterV
    <3>2. v[1] < w[1] \/ (v[1] = w[1] /\ v[2] < w[2])
      BY <1>2, <2>1 DEF AtMost
    <3>3. v[2] + 1 \in L2Index /\ v[1] \in L1Index
      BY <1>2, <2>1, <2>2, Numbers DEF L2Index, VCluster
    <3>4. QED
      BY <2>1, <3>1, <3>2, <3>3 DEF AtMost, VCluster
  <2>3. CASE ~(v[2] + 1 < L2Len)
    <3>1. AfterV(v) = <<v[1] + 1, 0>>
      BY <2>3 DEF AfterV
    <3>2. v[1] < w[1]
      BY <1>2, <2>1, <2>3, Numbers DEF AtMost
    <3>3. v[1] + 1 \in L1Index /\ 0 \in L2Index
      BY <2>1, <3>2, Numbers DEF L1Index, L2Index
    <3>4. QED
      BY <2>1, <3>1, <3>2, <3>3 DEF AtMost, VCluster
  <2>4. QED
    BY <2>2, <2>3
<1>4. /\ locals \in Local /\ locals.map = reg[t].map /\ locals.at = AfterV(v)
      /\ locals.range = reg[t].range
  BY <1>1, <1>3, Numbers DEF Local
<1>5. GoodAt("l1", reg[t], imageLen)
  BY <1>1, StillGood, StepNames, TypedParts, Numbers
<1> HIDE DEF locals
<1>6. GoodAt("l1", locals, imageLen)
  BY <1>3, <1>4, <1>5 DEF GoodAt, TableSteps
<1>7. /\ Set(t, locals) /\ Go(t, "l1") /\ UNCHANGED <<img, dev, durable, memory, locks, bounds>>
      /\ Observe /\ LocksTyped'
  BY TypedParts DEF NextChunk, locals, locks, LocksTyped
<1>8. QED
  BY <1>1, <1>4, <1>6, <1>7, StepNames, QuietStep

(***************************************************************************)
(* One thread at a time                                                    *)
(***************************************************************************)
(* A step of one thread moves no other.                                    *)
LEMMA OnlyOne ==
    ASSUME Typed, NEW t \in Threads,
           \/ Lookup(t) \/ DeviceError(t) \/ StartWrite(t) \/ WriteStep(t)
           \/ StartRead(t) \/ ReadStep(t)
    PROVE  \A u \in Threads : u # t => pc'[u] = pc[u] /\ reg'[u] = reg[u]
<1> SUFFICES ASSUME NEW u \in Threads, u # t PROVE pc'[u] = pc[u] /\ reg'[u] = reg[u]
  OBVIOUS
<1>1. \A step : Go(t, step) => pc'[u] = pc[u]
  BY TypedParts DEF Go
<1>2. (\A locals : Set(t, locals) => reg'[u] = reg[u]) /\ (UNCHANGED reg => reg'[u] = reg[u])
  BY TypedParts DEF Set
<1>3. Leave(t) => pc'[u] = pc[u] /\ reg'[u] = reg[u]
  BY <1>1, <1>2 DEF Leave
<1>4. \A c, step : WrittenTo(t, c, step) \/ Written(t, step) => pc'[u] = pc[u] /\ reg'[u] = reg[u]
  BY <1>1, <1>2, <1>3 DEF WrittenTo, Written
<1>5. \A step : FlushThen(t, step) => pc'[u] = pc[u] /\ reg'[u] = reg[u]
  BY <1>1, <1>2 DEF FlushThen
<1>6. CASE Lookup(t) \/ DeviceError(t)
  BY <1>1, <1>2, <1>3, <1>6 DEF Lookup, LookupL1, LookupL2, Undecodable, DeviceError
<1>7. CASE StartWrite(t) \/ StartRead(t) \/ ReadStep(t)
  BY <1>1, <1>2, <1>3, <1>7 DEF StartWrite, StartRead, ReadStep, Fetch, Store, EndRead
<1>8. CASE WriteStep(t)
  <2>1. CASE TakeWriteLock(t) \/ PlanInPlace(t) \/ PlanReallocate(t) \/ WriteInPlace(t)
             \/ Allocate(t) \/ NoRoom(t) \/ Fill(t) \/ Repoint(t) \/ Zero(t) \/ CopyTable(t)
    BY <1>1, <1>2, <1>3, <1>4, <2>1
      DEF TakeWriteLock, PlanInPlace, PlanReallocate, WriteInPlace, Allocate, NoRoom, Fill,
          Repoint, Zero, CopyTable
  <2>2. CASE FlushAllocate(t) \/ FlushFill(t) \/ FlushZero(t) \/ FlushCopy(t) \/ FlushEntry(t)
             \/ FlushRelease(t)
    BY <1>5, <2>2 DEF FlushAllocate, FlushFill, FlushZero, FlushCopy, FlushEntry, FlushRelease
  <2>3. CASE WriteL1(t) \/ FlushL1(t) \/ WriteEntry(t) \/ ForgetL2(t) \/ ForgetData(t)
             \/ WriteRelease(t) \/ ReleaseFails(t) \/ NextChunk(t) \/ EndWrite(t)
    BY <1>1, <1>2, <1>3, <1>4, <2>3
      DEF WriteL1, FlushL1, WriteEntry, ForgetL2, ForgetData, WriteRelease, ReleaseFails,
          NextChunk, EndWrite
  <2>4. QED
    BY <1>8, <2>1, <2>2, <2>3 DEF WriteStep
<1>9. QED
  BY <1>6, <1>7, <1>8

Early == {"idle", "lock", "l1"}

(* A step in the middle of a chunk: the lock, the chunk and the L1 table   *)
(* in memory stay.                                                         *)
Onward(t) ==
    /\ pc[t] \notin Early /\ pc'[t] \notin {"idle", "lock"}
    /\ reg'[t].at = reg[t].at
    /\ UNCHANGED <<writeLock, l1>>

LEMMA WriterMoves ==
    ASSUME Typed, NEW t \in Writers, Lookup(t) \/ DeviceError(t) \/ WriteStep(t)
    PROVE  \/ Leave(t) /\ UNCHANGED l1
           \/ Onward(t)
           \/ TakeWriteLock(t) \/ LookupL1(t) \/ FlushL1(t) \/ NextChunk(t)
<1>1. t \in Threads /\ pc[t] \in Steps
  BY TypedParts
<1>2. \A step \in Steps : Go(t, step) => pc'[t] = step
  BY <1>1, TypedParts DEF Go
<1>3. (\A locals : Set(t, locals) => reg'[t] = locals) /\ (UNCHANGED reg => reg'[t] = reg[t])
  BY <1>1, TypedParts DEF Set
<1>4. reg[t] \in Local
  BY <1>1, TypedParts
<1>5. ASSUME NEW step \in Steps \ {"idle", "lock"}, Go(t, step), reg'[t].at = reg[t].at,
             pc[t] \notin Early, UNCHANGED <<writeLock, l1>>
      PROVE  Onward(t)
  BY <1>2, <1>5 DEF Onward
<1>6. ASSUME NEW step \in Steps \ {"idle", "lock"}, NEW c, WrittenTo(t, c, step),
             pc[t] \notin Early, UNCHANGED l1
      PROVE  (Leave(t) /\ UNCHANGED l1) \/ Onward(t)
  BY <1>3, <1>5, <1>6 DEF WrittenTo, locks
<1>7. ASSUME NEW step \in Steps \ {"idle", "lock"}, FlushThen(t, step), pc[t] \notin Early
      PROVE  Onward(t)
  BY <1>3, <1>5, <1>7 DEF FlushThen, locks, memory
<1>8. CASE Lookup(t) \/ DeviceError(t)
  <2>1. CASE LookupL2(t)
    <3>1. pc[t] \notin Early /\ UNCHANGED l1 /\ Looked(t) \in Steps \ {"idle", "lock"}
      BY <2>1, StepNames DEF LookupL2, Early, Looked
    <3>2. \/ Leave(t)
          \/ \E map : Set(t, [reg[t] EXCEPT !.map = map]) /\ Go(t, Looked(t)) /\ UNCHANGED locks
      BY <2>1 DEF LookupL2
    <3>3. CASE Leave(t)
      BY <3>1, <3>3
    <3>4. CASE \E map : Set(t, [reg[t] EXCEPT !.map = map]) /\ Go(t, Looked(t)) /\ UNCHANGED locks
      <4>1. PICK map : Set(t, [reg[t] EXCEPT !.map = map]) /\ Go(t, Looked(t)) /\ UNCHANGED locks
        BY <3>4
      <4>2. reg'[t].at = reg[t].at
        BY <1>3, <1>4, <4>1 DEF Local
      <4>3. QED
        BY <1>5, <3>1, <4>1, <4>2 DEF locks
    <3>5. QED
      BY <3>2, <3>3, <3>4
  <2>2. CASE Undecodable(t) \/ DeviceError(t)
    BY <2>2 DEF Undecodable, DeviceError, memory
  <2>3. QED
    BY <1>8, <2>1, <2>2 DEF Lookup
<1>9. CASE WriteStep(t)
  <2>1. CASE PlanInPlace(t)
    BY <1>3, <1>5, <2>1, StepNames DEF PlanInPlace, Early, memory, locks
  <2>2. CASE PlanReallocate(t)
    <3>1. PICK full, old : Set(t, [reg[t] EXCEPT !.full = full, !.old = old, !.why = "data"])
      BY <2>2 DEF PlanReallocate
    <3>2. reg'[t].at = reg[t].at
      BY <1>3, <1>4, <3>1 DEF Local
    <3>3. QED
      BY <1>5, <2>2, <3>2, StepNames DEF PlanReallocate, Early, locks
  <2>3. CASE WriteInPlace(t)
    BY <1>6, <2>3, StepNames DEF WriteInPlace, Early
  <2>4. CASE Allocate(t)
    <3>1. CASE Leave(t)
      BY <2>4, <3>1 DEF Allocate, memory
    <3>2. CASE ~Leave(t)
      <4>1. PICK c : Set(t, IF reg[t].why = "data" THEN [reg[t] EXCEPT !.new = c]
                            ELSE [reg[t] EXCEPT !.table = c])
        BY <2>4, <3>2 DEF Allocate
      <4>2. reg'[t].at = reg[t].at
        BY <1>3, <1>4, <4>1 DEF Local
      <4>3. QED
        BY <1>5, <2>4, <3>2, <4>2, StepNames DEF Allocate, Early, locks, memory
    <3>3. QED
      BY <3>1, <3>2
  <2>5. CASE NoRoom(t) \/ EndWrite(t)
    BY <2>5 DEF NoRoom, EndWrite, memory
  <2>6. CASE FlushAllocate(t)
    <3>1. reg[t].why \in {"data", "table", "copy"}
      BY <1>1, <2>6, TypedParts DEF FlushAllocate, LocalsGood, GoodAt, TableSteps
    <3>2. PICK step \in Steps \ {"idle", "lock"} : FlushThen(t, step)
      BY <2>6, <3>1, StepNames DEF FlushAllocate
    <3>3. QED
      BY <1>7, <2>6, <3>2 DEF FlushAllocate, Early
  <2>7. CASE FlushFill(t) \/ FlushZero(t) \/ FlushCopy(t) \/ FlushEntry(t) \/ FlushRelease(t)
    <3>1. PICK step \in Steps \ {"idle", "lock"} : FlushThen(t, step)
      BY <2>7, StepNames
        DEF FlushFill, FlushZero, FlushCopy, FlushEntry, FlushRelease, AfterRelease
    <3>2. pc[t] \notin Early
      BY <2>7 DEF FlushFill, FlushZero, FlushCopy, FlushEntry, FlushRelease, Early
    <3>3. QED
      BY <1>7, <3>1, <3>2
  <2>8. CASE Fill(t) \/ Zero(t) \/ CopyTable(t) \/ WriteEntry(t)
    <3>1. UNCHANGED l1 /\ pc[t] \notin Early
      BY <2>8 DEF Fill, Zero, CopyTable, WriteEntry, Early, memory
    <3>2. PICK step, c : step \in Steps \ {"idle", "lock"} /\ WrittenTo(t, c, step)
      BY <2>8, StepNames DEF Fill, Zero, CopyTable, WriteEntry, Written
    <3>3. QED
      BY <1>6, <3>1, <3>2
  <2>9. CASE Repoint(t)
    <3>1. PICK step, table, why, entry :
            /\ step \in {"entry", "allocate"} /\ Go(t, step)
            /\ \/ Set(t, [reg[t] EXCEPT !.table = table])
               \/ Set(t, [reg[t] EXCEPT !.why = why, !.l1Entry = entry])
      BY <2>9 DEF Repoint
    <3>2. reg'[t].at = reg[t].at
      BY <1>3, <1>4, <3>1 DEF Local
    <3>3. QED
      BY <1>5, <2>9, <3>1, <3>2, StepNames DEF Repoint, Early, locks, memory
  <2>10. CASE WriteL1(t)
    BY <1>3, <1>5, <2>10, StepNames DEF WriteL1, Early, memory
  <2>11. CASE ForgetL2(t)
    BY <1>3, <1>5, <2>11, StepNames DEF ForgetL2, Early, locks
  <2>12. CASE ForgetData(t)
    <3>1. reg'[t].at = reg[t].at
      BY <1>3, <1>4, <2>12 DEF ForgetData, Local
    <3>2. QED
      BY <1>5, <2>12, <3>1, StepNames DEF ForgetData, Early, locks
  <2>13. CASE WriteRelease(t) \/ ReleaseFails(t)
    <3>1. PICK step \in Steps \ {"idle", "lock"} : Go(t, step)
      BY <2>13, StepNames DEF WriteRelease, ReleaseFails, AfterRelease
    <3>2. UNCHANGED <<l1, writeLock, reg>> /\ pc[t] \notin Early
      BY <2>13 DEF WriteRelease, ReleaseFails, Early, ReleaseSteps, memory, locks
    <3>3. QED
      BY <1>3, <1>5, <3>1, <3>2
  <2>14. QED
    BY <1>9, <2>1, <2>2, <2>3, <2>4, <2>5, <2>6, <2>7, <2>8, <2>9, <2>10, <2>11, <2>12, <2>13
      DEF WriteStep
<1>10. QED
  BY <1>8, <1>9

(* The serialisation survives a thread's step.                             *)
LEMMA SerialStep ==
    ASSUME Typed, Serial, NEW t \in Threads,
           \A u \in Threads : u # t => pc'[u] = pc[u] /\ reg'[u] = reg[u],
           \/ UNCHANGED l1
           \/ writeLock = t,
           \/ UNCHANGED writeLock
           \/ writeLock = t
           \/ writeLock = Nobody,
           t \in Writers =>
               /\ pc'[t] \notin {"idle", "lock"} => writeLock' = t
               /\ pc'[t] \notin Early => l1'[reg'[t].at[1]].at \in 0 .. Clusters
    PROVE  Serial'
<1> SUFFICES ASSUME NEW u \in Writers
             PROVE  /\ pc'[u] \notin {"idle", "lock"} => writeLock' = u
                    /\ pc'[u] \notin Early => l1'[reg'[u].at[1]].at \in 0 .. Clusters
  BY DEF Serial, Early
<1>1. CASE u = t
  BY <1>1
<1>2. CASE u # t
  <2>1. u \in Threads /\ pc'[u] = pc[u] /\ reg'[u] = reg[u] /\ Nobody # u
    BY <1>2, TypedParts, WriteAssumption
  <2>2. CASE pc[u] \in {"idle", "lock"}
    BY <2>1, <2>2 DEF Early
  <2>3. CASE pc[u] \notin {"idle", "lock"}
    <3>1. writeLock = u
      BY <2>3 DEF Serial
    <3>2. UNCHANGED <<l1, writeLock>>
      BY <1>2, <2>1, <3>1
    <3>3. QED
      BY <2>1, <3>1, <3>2 DEF Serial, Early
  <2>4. QED
    BY <2>2, <2>3
<1>3. QED
  BY <1>1, <1>2

LEMMA LeaveEarly ==
    ASSUME Typed, NEW t \in Threads, Leave(t)
    PROVE  pc'[t] = "idle" /\ (UNCHANGED writeLock \/ writeLock = t)
  BY TypedParts DEF Leave, Go, ReleaseLocks

LEMMA WriterSerial ==
    ASSUME Typed, Serial, NEW t \in Writers, Lookup(t) \/ DeviceError(t) \/ WriteStep(t)
    PROVE  Serial'
<1>1. t \in Threads /\ reg[t] \in Local
  BY TypedParts
<1>2. \A u \in Threads : u # t => pc'[u] = pc[u] /\ reg'[u] = reg[u]
  BY <1>1, OnlyOne
<1>3. CASE Leave(t) /\ UNCHANGED l1
  BY <1>1, <1>2, <1>3, LeaveEarly, SerialStep DEF Early
<1>4. CASE Onward(t)
  BY <1>1, <1>2, <1>4, SerialStep DEF Onward, Serial, Early
<1>5. CASE TakeWriteLock(t)
  <2>1. pc'[t] = "l1" /\ writeLock' = t /\ writeLock = Nobody /\ UNCHANGED l1
    BY <1>1, <1>5, TypedParts DEF TakeWriteLock, LockFree, Go, memory
  <2>2. QED
    BY <1>1, <1>2, <2>1, SerialStep DEF Early
<1>6. CASE LookupL1(t)
  <2> DEFINE entry == l1[reg[t].at[1]]
  <2>1. UNCHANGED l1 /\ writeLock = t
    BY <1>6 DEF LookupL1, memory, Serial
  <2>2. CASE Leave(t)
    BY <1>1, <1>2, <2>1, <2>2, LeaveEarly, SerialStep DEF Early
  <2>3. CASE Inside(entry.at) /\ UNCHANGED locks
             /\ Set(t, [reg[t] EXCEPT !.l1Entry = entry, !.map = Unallocated])
    <3>1. reg'[t].at = reg[t].at
      BY <1>1, <2>3, TypedParts DEF Set, Local
    <3>2. entry \in L1Entry
      BY <1>1, TypedParts DEF Local, VCluster, StoreTyped
    <3>3. entry.at \in 0 .. Clusters
      BY <2>3, <3>2, Numbers, TypedParts DEF Inside, L1Entry, Offset, Outside
    <3>4. QED
      BY <1>1, <1>2, <2>1, <2>3, <3>1, <3>3, SerialStep DEF locks
  <2>4. QED
    BY <1>6, <2>2, <2>3 DEF LookupL1
<1>7. CASE FlushL1(t)
  <2>1. reg[t].table \in Cluster /\ reg[t].at[1] \in L1Index
    BY <1>1, <1>7, TypedParts DEF FlushL1, LocalsGood, GoodAt, TableSteps, Local, VCluster
  <2>2. l1'[reg[t].at[1]].at = reg[t].table /\ UNCHANGED <<writeLock, reg>>
    BY <1>7, <2>1, TypedParts DEF FlushL1, L1EntryFor, StoreTyped
  <2>3. writeLock = t /\ reg[t].table \in 0 .. Clusters
    BY <1>7, <2>1, Numbers DEF FlushL1, Serial, Cluster
  <2>4. QED
    BY <1>1, <1>2, <2>2, <2>3, SerialStep
<1>8. CASE NextChunk(t)
  <2>1. pc'[t] = "l1" /\ UNCHANGED <<writeLock, l1>> /\ writeLock = t
    BY <1>1, <1>8, TypedParts DEF NextChunk, Go, memory, locks, Serial
  <2>2. QED
    BY <1>1, <1>2, <2>1, SerialStep DEF Early
<1>9. QED
  BY <1>3, <1>4, <1>5, <1>6, <1>7, <1>8, WriterMoves

LEMMA ReaderSerial ==
    ASSUME Typed, Serial, NEW t \in Readers, Lookup(t) \/ DeviceError(t) \/ StartRead(t) \/ ReadStep(t)
    PROVE  Serial'
<1>1. t \in Threads /\ t \notin Writers
  BY TypedParts, WriteAssumption
<1>2. \A u \in Threads : u # t => pc'[u] = pc[u] /\ reg'[u] = reg[u]
  BY <1>1, OnlyOne
<1>3. UNCHANGED l1 /\ (Leave(t) \/ UNCHANGED writeLock)
  <2>1. CASE Lookup(t) \/ DeviceError(t)
    BY <2>1 DEF Lookup, LookupL1, LookupL2, Undecodable, DeviceError, memory, locks
  <2>2. CASE StartRead(t) \/ ReadStep(t)
    BY <2>2 DEF StartRead, ReadStep, Fetch, Store, EndRead, memory, locks
  <2>3. QED
    BY <2>1, <2>2
<1>4. QED
  BY <1>1, <1>2, <1>3, LeaveEarly, SerialStep

LEMMA StartSerial ==
    ASSUME Typed, Serial, NEW t \in Writers, StartWrite(t)
    PROVE  Serial'
<1>1. t \in Threads
  BY TypedParts
<1>2. \A u \in Threads : u # t => pc'[u] = pc[u] /\ reg'[u] = reg[u]
  BY <1>1, OnlyOne
<1>3. UNCHANGED <<l1, writeLock>> /\ pc'[t] = "lock"
  BY <1>1, TypedParts DEF StartWrite, memory, locks, Go
<1>4. QED
  BY <1>1, <1>2, <1>3, SerialStep DEF Early

(***************************************************************************)
(* Crashes                                                                 *)
(***************************************************************************)
LEMMA MixedRowsTyped ==
    ASSUME NEW K, NEW R, NEW old \in [Cluster -> [K -> R]], NEW new \in [Cluster -> [K -> R]],
           NEW f \in MixedRows(old, new)
    PROVE  /\ f \in [Cluster -> [K -> R]]
           /\ \A c \in Cluster : \A k \in K : f[c][k] \in {old[c][k], new[c][k]}
<1>1. PICK S : f = [c \in Cluster |-> [k \in DOMAIN old[c] |->
                        IF <<c, k>> \in S THEN new[c][k] ELSE old[c][k]]]
  BY DEF MixedRows
<1>2. \A c \in Cluster : DOMAIN old[c] = K
  OBVIOUS
<1>3. \A c \in Cluster : f[c] = [k \in K |-> IF <<c, k>> \in S THEN new[c][k] ELSE old[c][k]]
  BY <1>1, <1>2
<1>4. ASSUME NEW c \in Cluster
      PROVE  /\ [k \in K |-> IF <<c, k>> \in S THEN new[c][k] ELSE old[c][k]] \in [K -> R]
             /\ \A k \in K : f[c][k] \in {old[c][k], new[c][k]}
  BY <1>3
<1>5. f = [c \in Cluster |-> [k \in K |-> IF <<c, k>> \in S THEN new[c][k] ELSE old[c][k]]]
  BY <1>1, <1>2
<1>6. QED
  BY <1>4, <1>5

(* An image a crash may leave holds, place by place, what the device or    *)
(* the medium held.                                                        *)
LEMMA SurvivorFacts ==
    ASSUME dev \in Device, durable \in Device, NEW d \in Survivors
    PROVE  /\ d \in Device
           /\ \A i \in L1Index : d.l1[i] \in {durable.l1[i], dev.l1[i]}
           /\ \A c \in Cluster : d.rc[c] \in {durable.rc[c], dev.rc[c]}
           /\ \A c \in Cluster : \A j \in L2Index :
                  d.table[c][j] \in {durable.table[c][j], dev.table[c][j]}
           /\ \A c \in Cluster : \A w \in Word :
                  d.data[c][w] \in {durable.data[c][w], dev.data[c][w]}
           /\ d.len \in {durable.len, dev.len}
<1>1. /\ d = [l1 |-> d.l1, rc |-> d.rc, table |-> d.table, data |-> d.data, len |-> d.len]
      /\ d.l1 \in Mixed(durable.l1, dev.l1) /\ d.rc \in Mixed(durable.rc, dev.rc)
      /\ d.table \in MixedRows(durable.table, dev.table)
      /\ d.data \in MixedRows(durable.data, dev.data)
      /\ d.len \in {durable.len, dev.len}
  BY DEF Survivors
<1>2. d.l1 \in [L1Index -> L1Entry] /\ \A i \in L1Index : d.l1[i] \in {durable.l1[i], dev.l1[i]}
  <2>1. durable.l1 \in [L1Index -> L1Entry] /\ dev.l1 \in [L1Index -> L1Entry]
    BY DEF Device
  <2>2. ASSUME NEW f \in Mixed(durable.l1, dev.l1)
        PROVE  f \in [L1Index -> L1Entry] /\ \A i \in L1Index : f[i] \in {durable.l1[i], dev.l1[i]}
    BY <2>1, MixedTyped
  <2>3. QED
    BY <1>1, <2>2
<1>3. d.rc \in [Cluster -> Nat] /\ \A c \in Cluster : d.rc[c] \in {durable.rc[c], dev.rc[c]}
  <2>1. durable.rc \in [Cluster -> Nat] /\ dev.rc \in [Cluster -> Nat]
    BY DEF Device
  <2>2. ASSUME NEW f \in Mixed(durable.rc, dev.rc)
        PROVE  f \in [Cluster -> Nat] /\ \A c \in Cluster : f[c] \in {durable.rc[c], dev.rc[c]}
    BY <2>1, MixedTyped
  <2>3. QED
    BY <1>1, <2>2
<1>4. /\ d.table \in [Cluster -> [L2Index -> L2Entry]]
      /\ \A c \in Cluster : \A j \in L2Index : d.table[c][j] \in {durable.table[c][j], dev.table[c][j]}
  <2>1. durable.table \in [Cluster -> [L2Index -> L2Entry]] /\ dev.table \in [Cluster -> [L2Index -> L2Entry]]
    BY DEF Device
  <2>2. ASSUME NEW f \in MixedRows(durable.table, dev.table)
        PROVE  /\ f \in [Cluster -> [L2Index -> L2Entry]]
               /\ \A c \in Cluster : \A j \in L2Index :
                      f[c][j] \in {durable.table[c][j], dev.table[c][j]}
    BY <2>1, MixedRowsTyped
  <2>3. QED
    BY <1>1, <2>2
<1>5. /\ d.data \in [Cluster -> [Word -> Nat]]
      /\ \A c \in Cluster : \A w \in Word : d.data[c][w] \in {durable.data[c][w], dev.data[c][w]}
  <2>1. durable.data \in [Cluster -> [Word -> Nat]] /\ dev.data \in [Cluster -> [Word -> Nat]]
    BY DEF Device
  <2>2. ASSUME NEW f \in MixedRows(durable.data, dev.data)
        PROVE  /\ f \in [Cluster -> [Word -> Nat]]
               /\ \A c \in Cluster : \A w \in Word : f[c][w] \in {durable.data[c][w], dev.data[c][w]}
    BY <2>1, MixedRowsTyped
  <2>3. QED
    BY <1>1, <2>2
<1>6. d.len \in 0 .. Clusters
  BY <1>1 DEF Device
<1>7. d \in Device
  BY <1>1, <1>2, <1>3, <1>4, <1>5, <1>6 DEF Device
<1>8. QED
  BY <1>1, <1>2, <1>3, <1>4, <1>5, <1>7

LEMMA NoLocalsTyped ==
    ASSUME pc = Idle, reg = NoLocals, imageLen \in Nat
    PROVE  /\ pc \in [Threads -> Steps] /\ reg \in [Threads -> Local]
           /\ \A t \in Threads : LocalsGood(t)
           /\ Serial
<1>1. \A t \in Threads : pc[t] = "idle" /\ reg[t] = Blank
  BY DEF Idle, NoLocals
<1>2. pc \in [Threads -> Steps] /\ reg \in [Threads -> Local]
  BY BlankTyped, StepNames DEF Idle, NoLocals
<1>3. \A t \in Threads : LocalsGood(t)
  BY <1>1, BlankIsGood
<1>4. Serial
  BY <1>1 DEF Serial, Threads
<1>5. QED
  BY <1>2, <1>3, <1>4

LEMMA NoLocalsNext ==
    (pc = Idle /\ reg = NoLocals /\ imageLen \in Nat)' =>
        (/\ pc \in [Threads -> Steps] /\ reg \in [Threads -> Local]
         /\ \A t \in Threads : LocalsGood(t)
         /\ Serial)'
<1>1. pc = Idle /\ reg = NoLocals /\ imageLen \in Nat =>
        /\ pc \in [Threads -> Steps] /\ reg \in [Threads -> Local]
        /\ \A t \in Threads : LocalsGood(t)
        /\ Serial
  BY NoLocalsTyped
<1>2. QED
  BY <1>1, PTL

LEMMA CrashTyped ==
    ASSUME Typed, Crash
    PROVE  Typed' /\ Serial'
<1>1. dev' \in Survivors /\ durable' = dev' /\ l1' = dev'.l1 /\ imageLen' = dev'.len
  BY DEF Crash
<1>2. dev' \in Device
  BY <1>1, SurvivorFacts, TypedParts DEF StoreTyped
<1>3. StoreTyped' /\ imageLen' \in 0 .. Clusters /\ imageLen' \in Nat
  BY <1>1, <1>2, Numbers DEF Crash, StoreTyped, CachesTyped, Device
<1>4. /\ pc' \in [Threads -> Steps] /\ reg' \in [Threads -> Local] /\ Serial'
      /\ \A t \in Threads : LocalsGood(t)'
  BY <1>3, NoLocalsNext DEF Crash, Idle, NoLocals
<1>5. BoundsTyped' /\ LocksTyped'
  BY TypedParts, WriteAssumption DEF Crash, BoundsTyped, LocksTyped
<1>6. img' \in Images /\ Observe
  BY TypedParts DEF Crash
<1>7. LooksTyped'
  BY <1>3, <1>4, <1>6 DEF LooksTyped, StoreTyped
<1>8. may' \in [VWord -> SUBSET Nat] /\ seen' \in [Readers -> SUBSET Nat]
  BY <1>6, <1>7, ObserveTyped
<1>9. QED
  BY <1>3, <1>4, <1>5, <1>6, <1>8 DEF Typed, TypeOK, StoreTyped, CachesTyped, LocksTyped, BoundsTyped

LEMMA StandingStill ==
    ASSUME Typed, Serial, UNCHANGED <<img, dev, memory, locks, pc, reg, bounds>>,
           durable' \in {durable, dev}
    PROVE  Serial' /\ \A t \in Threads : LocalsGood(t)'
  BY TypedParts DEF Serial, LocalsGood, memory, locks

LEMMA FlushTyped ==
    ASSUME Typed, Serial, Flush
    PROVE  Typed' /\ Serial'
<1>1. UNCHANGED <<img, dev, memory, locks, pc, reg, bounds>> /\ durable' = dev /\ Settle
  BY DEF Flush
<1>2. Serial' /\ \A t \in Threads : LocalsGood(t)'
  BY <1>1, StandingStill
<1>3. LooksTyped'
  BY <1>1, <1>2, TypedParts DEF LooksTyped, StoreTyped, memory
<1>4. View' \in [VWord -> Nat]
  BY <1>3, ShownNext DEF Shown
<1>5. may' \in [VWord -> SUBSET Nat] /\ seen' = seen
  BY <1>1, <1>4 DEF Settle
<1>6. TypeOK'
  BY <1>1, <1>5 DEF Typed, TypeOK, memory, locks, bounds
<1>7. QED
  BY <1>2, <1>6 DEF Typed

LEMMA InitTyped == Init => Typed /\ Serial
<1> SUFFICES ASSUME Init PROVE Typed /\ Serial
  OBVIOUS
<1>1. img.dev \in Device /\ img.backing \in Backing /\ img \in Images
  BY ImageTyped DEF Init
<1>2. dev \in Device /\ durable \in Device /\ l1 \in [L1Index -> L1Entry] /\ imageLen \in 0 .. Clusters
  BY <1>1 DEF Init, Device
<1>3. /\ pc \in [Threads -> Steps] /\ reg \in [Threads -> Local] /\ Serial
      /\ \A t \in Threads : LocalsGood(t)
  BY <1>2, NoLocalsTyped, Numbers DEF Init
<1>4. View \in [VWord -> Nat]
  BY <1>1, <1>2, <1>3, CurrentTyped
<1>5. may \in [VWord -> SUBSET Nat] /\ seen \in [Readers -> SUBSET Nat]
  BY <1>4 DEF Init
<1>6. TypeOK
  BY <1>1, <1>2, <1>3, <1>5, WriteAssumption DEF Init, TypeOK
<1>7. QED
  BY <1>3, <1>6 DEF Typed

LEMMA StillTyped ==
    ASSUME Typed, Serial, UNCHANGED vars
    PROVE  Typed' /\ Serial'
<1>1. TypeOK'
  BY DEF Typed, TypeOK, vars, memory, locks, bounds
<1>2. Serial' /\ \A t \in Threads : LocalsGood(t)'
  BY TypedParts DEF Serial, LocalsGood, vars, memory, locks
<1>3. QED
  BY <1>1, <1>2 DEF Typed

LEMMA NextTyped == Typed /\ Serial /\ [Next]_vars => Typed' /\ Serial'
<1> SUFFICES ASSUME Typed, Serial, [Next]_vars PROVE Typed' /\ Serial'
  OBVIOUS
<1>1. CASE \E t \in Threads : Lookup(t) \/ DeviceError(t)
  <2>1. PICK t \in Threads : Lookup(t) \/ DeviceError(t)
    BY <1>1
  <2>2. Typed'
    BY <2>1, LookupL1Typed, LookupL2Typed, LeavingTyped DEF Lookup
  <2>3. Serial'
    BY <2>1, WriterSerial, ReaderSerial DEF Threads
  <2>4. QED
    BY <2>2, <2>3
<1>2. CASE \E t \in Writers : StartWrite(t) \/ WriteStep(t)
  <2>1. PICK t \in Writers : StartWrite(t) \/ WriteStep(t)
    BY <1>2
  <2>2. t \in Threads
    BY DEF Threads
  <2>3. Typed'
    BY <2>1, <2>2, StartWriteTyped, TakeWriteLockTyped, PlanInPlaceTyped, PlanReallocateTyped,
       WriteInPlaceTyped, AllocateTyped, LeavingTyped, FlushingTyped, FillTyped, RepointTyped,
       ZeroTyped, CopyTableTyped, WriteL1Typed, FlushL1Typed, WriteEntryTyped, ForgettingTyped,
       ReleasingTyped, NextChunkTyped DEF WriteStep
  <2>4. Serial'
    BY <2>1, StartSerial, WriterSerial
  <2>5. QED
    BY <2>3, <2>4
<1>3. CASE \E t \in Readers : StartRead(t) \/ ReadStep(t)
  <2>1. PICK t \in Readers : StartRead(t) \/ ReadStep(t)
    BY <1>3
  <2>2. t \in Threads
    BY DEF Threads
  <2>3. Typed'
    BY <2>1, <2>2, StartReadTyped, FetchTyped, StoreStepTyped, LeavingTyped DEF ReadStep
  <2>4. Serial'
    BY <2>1, ReaderSerial
  <2>5. QED
    BY <2>3, <2>4
<1>4. CASE Flush
  BY <1>4, FlushTyped
<1>5. CASE Crash
  BY <1>5, CrashTyped
<1>6. CASE UNCHANGED vars
  BY <1>6, StillTyped
<1>7. QED
  BY <1>1, <1>2, <1>3, <1>4, <1>5, <1>6 DEF Next

(* At every step the state is well typed, what a thread kept of its        *)
(* lookups is usable where it uses it, and no writer is past `write_lock`  *)
(* but its owner.                                                          *)
THEOREM AlwaysTyped == Spec => [](Typed /\ Serial)
  BY InitTyped, NextTyped, PTL DEF Spec

(* Whatever the threads, images, failures and crashes, the state of the    *)
(* write path stays well typed (write_at, read_at and what they call).     *)
THEOREM WritePathTyped == Spec => []TypeOK
<1>1. Typed => TypeOK
  BY DEF Typed
<1>2. QED
  BY <1>1, AlwaysTyped, PTL
=============================================================================
