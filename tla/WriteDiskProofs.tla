-------------------------- MODULE WriteDiskProofs --------------------------
(***************************************************************************)
(* Why two-level tables, copy-on-write, allocation, caches and crashes     *)
(* together are a flat disk, and why a payload that does not decode is     *)
(* noticed before anything is allocated, and why a count only ends too     *)
(* high where an error left a cluster behind: for every sound image and    *)
(* any number of writers and calls.                                        *)
(***************************************************************************)
EXTENDS WriteHandleProofs, WriteCountsProofs

(***************************************************************************)
(* What the store says of the disk                                         *)
(***************************************************************************)
(* The entry a lookup that goes to the device finds, and what it reads.    *)
Now(s, v) == EntryAt(s.dev, Targets(s.l1), v)

ViewOf(s) == ViewThrough(s.dev, Targets(s.l1), s.img.backing)

(* The entry the image was opened with.                                    *)
Opened(s, v) == EntryAt(s.img.dev, Targets(s.img.dev.l1), v)

(* Only standard entries are ever made; a payload's clusters are never     *)
(* written; and of all the entries a virtual cluster may be found to have, *)
(* no two lead to one host cluster.                                        *)
OnlyStandardMade(s) ==
    \A v \in VCluster, e \in L2Entry :
        Has(s, v, e) /\ e.kind # "standard" => e = Opened(s, v)

IsPayload(e) == e.kind \in {"compressed", "straddling"}

PayloadsKept(s) ==
    \A v \in VCluster, e \in L2Entry : \A c \in Cluster :
        Has(s, v, e) /\ IsPayload(e) /\ Reaches(e, c) =>
            s.dev.data[c] = s.img.dev.data[c] /\ s.durable.data[c] = s.img.dev.data[c]

NoTwoReach(s) ==
    \A v \in VCluster, e, f \in L2Entry : \A c \in Cluster :
        Has(s, v, e) /\ Has(s, v, f) /\ Reaches(e, c) /\ Reaches(f, c) => e = f

Lineage(s) == OnlyStandardMade(s) /\ PayloadsKept(s) /\ NoTwoReach(s)

(***************************************************************************)
(* Payloads                                                                *)
(***************************************************************************)
(* A mapping made from the entry the L2 cache holds, or from none.         *)
FromCache(s, r) ==
    \/ r.map = Unallocated
    \/ /\ s.cache # <<>> /\ s.cache[1] = r.at[1]
       /\ \E b \in BOOLEAN : r.map = MapOf(s.cache[2][r.at[2]], b)

Mapping(s, step, r) ==
    /\ step \in {"plan", "inPlace"} => FromCache(s, r)
    /\ step = "inPlace" => Active(s, r.map.host) \subseteq {r.at}
    /\ step = "allocate" /\ r.why = "data" /\ r.map.case = "Compressed" =>
        Decodes(s.dev.data, r.map)

(* The decompressed cluster in the cache is still the one a payload   *)
(* of its virtual cluster decodes to.                                      *)
CacheDecodes(s, slot) ==
    slot # <<>> => \A e \in L2Entry : Has(s, slot[1], e) /\ IsPayload(e) =>
        /\ Decodes(s.img.dev.data, MapOf(e, FALSE))
        /\ slot[2] = Decompressed(s.img.dev.data, MapOf(e, FALSE))

PayloadInv ==
    /\ Lineage(Stored) /\ CacheDecodes(Stored, deCache)
    /\ \A t \in Writers : Mapping(Stored, pc[t], reg[t])

(***************************************************************************)
(* While no device call has failed                                         *)
(***************************************************************************)
(* From the plan to the entry a writer's view of its cluster is the disk's.*)
Copying(step, r) == step \in {"allocate", "allocateFlush"} \/ HasNew(step, r)

FindsNow(s, r) == \E b \in BOOLEAN : r.map = MapOf(Now(s, r.at), b)

(* The new cluster is to hold what a reader sees now, with the call's words*)
(* spliced in.                                                             *)
Seeded(s, r) ==
    /\ r.old = ReleaseOf(r.map)
    /\ \A w \in Word : r.full[w] = IF w \in Chunk(r.range, r.at) THEN r.val
                                   ELSE ViewOf(s)[<<r.at, w>>]

InNew(s, r) == s.dev.data[r.new] = r.full

InNewDurably(s, r) == s.durable.data[r.new] = r.full

(* The new table leads where the one it replaces does.                     *)
RowNow(s, r) == \A j \in L2Index : s.dev.table[r.table][j] = Now(s, <<r.at[1], j>>)

Going(s, step, r) ==
    /\ step \in {"plan", "inPlace"} \/ Copying(step, r) => FindsNow(s, r)
    /\ Copying(step, r) => Seeded(s, r)
    /\ HasNew(step, r) /\ step # "fill" => InNew(s, r)
    /\ HasNew(step, r) /\ step \notin {"fill", "fillFlush"} => InNewDurably(s, r)
    /\ step \in {"zeroFlush", "copyFlush", "l1Write", "l1Flush"} => RowNow(s, r)
    /\ step = "l1Flush" => s.durable.table[r.table] = s.dev.table[r.table]
    /\ step \in ReleaseSteps => r.why \in {"copy", "release"}
    /\ step = "zero" => r.why = "table"

(* What the L2 cache holds is what the device does, but for an entry that  *)
(* was written and not forgotten yet.                                      *)
StaleAt == {reg[t].at : t \in {u \in Writers : pc[u] \in {"entryFlush", "forgetL2"}}}

CacheFresh(s, stale) ==
    s.cache # <<>> =>
        \A v \in VCluster : v[1] = s.cache[1] /\ v \notin stale =>
            s.cache[2][v[2]] = Now(s, v)

ProgressInv ==
    /\ CacheFresh(Stored, StaleAt)
    /\ \A t \in Writers : Going(Stored, pc[t], reg[t])

(* The entries a lookup after a loss of power could find, the values it    *)
(* could then read, and both together.                                     *)
LeadsTo(s, v, e) ==
    \E root \in {s.dev.l1[v[1]], s.durable.l1[v[1]]} :
        IF root.at \in Cluster
        THEN e \in {s.dev.table[root.at][v[2]], s.durable.table[root.at][v[2]]}
        ELSE e = NoEntry

ReadsAs(s, v, e, w, n) ==
    IF LastOf(e) >= Outside THEN n = 0
    ELSE IF e.kind = "standard" /\ e.at # None
    THEN n \in {s.dev.data[e.at][w], s.durable.data[e.at][w]}
    ELSE n = ClusterWords(s.img.dev.data, s.img.backing, v, MapOf(e, FALSE))[w]

Leaves(s, v, w, n) == \E e \in L2Entry : LeadsTo(s, v, e) /\ ReadsAs(s, v, e, w, n)

MayCovers(s, m) ==
    \A v \in VCluster, w \in Word :
        /\ ViewOf(s)[<<v, w>>] \in m[<<v, w>>]
        /\ \A n : Leaves(s, v, w, n) => n \in m[<<v, w>>]

MayInv == MayCovers(Stored, may)

(***************************************************************************)
(* The steps, by what they change in the store                             *)
(***************************************************************************)
(* Nothing but counts, and unflushed writes that become durable.           *)
Steady(s, x) ==
    /\ x.img = s.img /\ x.l1 = s.l1 /\ x.cache = s.cache
    /\ x.dev.l1 = s.dev.l1 /\ x.dev.table = s.dev.table /\ x.dev.data = s.dev.data
    /\ \E d \in {s.dev, s.durable} :
        x.durable.l1 = d.l1 /\ x.durable.table = d.table /\ x.durable.data = d.data

(* The words of one cluster; some may be durable at once.                  *)
DataWritten(s, x, c, words) ==
    /\ x.img = s.img /\ x.l1 = s.l1 /\ x.cache = s.cache
    /\ x.dev.l1 = s.dev.l1 /\ x.dev.rc = s.dev.rc /\ x.dev.table = s.dev.table
    /\ x.dev.data[c] = words /\ \A d \in Cluster : d # c => x.dev.data[d] = s.dev.data[d]
    /\ x.durable.l1 = s.durable.l1 /\ x.durable.rc = s.durable.rc
    /\ x.durable.table = s.durable.table
    /\ \A d \in Cluster : d # c => x.durable.data[d] = s.durable.data[d]
    /\ \A w \in Word : x.durable.data[c][w] \in {s.durable.data[c][w], s.dev.data[c][w]}

(* A whole L2 table.                                                       *)
RowWritten(s, x, T, row) ==
    /\ x.img = s.img /\ x.l1 = s.l1 /\ x.cache = s.cache /\ x.durable = s.durable
    /\ x.dev.l1 = s.dev.l1 /\ x.dev.rc = s.dev.rc /\ x.dev.data = s.dev.data
    /\ x.dev.table[T] = row /\ \A a \in Cluster : a # T => x.dev.table[a] = s.dev.table[a]

(* An L1 entry on the device, and the same in memory, made durable.        *)
RootWritten(s, x, i, T) ==
    /\ x.img = s.img /\ x.l1 = s.l1 /\ x.cache = s.cache /\ x.durable = s.durable
    /\ x.dev.rc = s.dev.rc /\ x.dev.table = s.dev.table /\ x.dev.data = s.dev.data
    /\ x.dev.l1[i] = L1EntryFor(T) /\ \A k \in L1Index : k # i => x.dev.l1[k] = s.dev.l1[k]

RootFollowed(s, x, i, T) ==
    /\ x.img = s.img /\ x.cache = s.cache /\ x.dev = s.dev /\ x.durable = s.dev
    /\ x.l1[i] = L1EntryFor(T) /\ \A k \in L1Index : k # i => x.l1[k] = s.l1[k]

(* An entry of an L2 table.                                                *)
EntryPut(s, x, T, j, c) ==
    /\ x.img = s.img /\ x.l1 = s.l1 /\ x.cache = s.cache /\ x.durable = s.durable
    /\ x.dev.l1 = s.dev.l1 /\ x.dev.rc = s.dev.rc /\ x.dev.data = s.dev.data
    /\ x.dev.table[T][j] = L2EntryFor(c)
    /\ \A a \in Cluster : \A k \in L2Index :
           a # T \/ k # j => x.dev.table[a][k] = s.dev.table[a][k]
    /\ \A a \in Cluster : a # T => x.dev.table[a] = s.dev.table[a]

(* The L2 cache.                                                           *)
Recached(s, x) ==
    /\ x.img = s.img /\ x.l1 = s.l1 /\ x.dev = s.dev /\ x.durable = s.durable
    /\ \/ x.cache = <<>>
       \/ x.cache = s.cache
       \/ \E i \in L1Index : /\ s.l1[i].at \in Cluster
                             /\ x.cache = <<i, s.dev.table[s.l1[i].at]>>

(* The steps that write nothing a lookup goes by.                          *)
Calm(t) ==
    \/ LookupL1(t) \/ Undecodable(t) \/ DeviceError(t) \/ StartWrite(t) \/ TakeWriteLock(t)
    \/ PlanInPlace(t) \/ PlanReallocate(t) \/ NoRoom(t) \/ Repoint(t) \/ ForgetData(t)
    \/ ReleaseFails(t) \/ NextChunk(t) \/ EndWrite(t)

LEMMA CalmStores ==
    ASSUME NEW t \in Writers, Calm(t)
    PROVE  Stored' = Stored
  BY DEF Calm, LookupL1, Undecodable, DeviceError, StartWrite, TakeWriteLock, PlanInPlace,
         PlanReallocate, NoRoom, Repoint, ForgetData, ReleaseFails, NextChunk, EndWrite, Stored,
         memory

Flushes(t) ==
    \/ FlushAllocate(t) \/ FlushFill(t) \/ FlushZero(t) \/ FlushCopy(t) \/ FlushEntry(t)
    \/ FlushRelease(t)

LEMMA FlushStores ==
    ASSUME NEW t \in Writers, Flushes(t)
    PROVE  UNCHANGED <<img, dev, memory>> /\ durable' = dev
  BY DEF Flushes, FlushAllocate, FlushFill, FlushZero, FlushCopy, FlushEntry, FlushRelease,
         FlushThen

LEMMA FlushedSteady ==
    ASSUME UNCHANGED <<img, dev, memory>>, durable' = dev
    PROVE  Steady(Stored, Stored') /\ Stored' = [Stored EXCEPT !.durable = dev]
  BY DEF Steady, Stored, memory

LEMMA CountSteady ==
    ASSUME Typed, NEW t \in Writers, Allocate(t) \/ WriteRelease(t)
    PROVE  Steady(Stored, Stored')
<1>1. dev \in Device
  BY TypedParts DEF StoreTyped
<1>2. /\ UNCHANGED <<img, durable, memory>>
      /\ dev'.l1 = dev.l1 /\ dev'.table = dev.table /\ dev'.data = dev.data
  BY <1>1 DEF Allocate, WriteRelease, Device
<1>3. QED
  BY <1>2 DEF Steady, Stored, memory

LEMMA StepsSteady ==
    ASSUME Typed, NEW t \in Writers,
           Calm(t) \/ Flushes(t) \/ Allocate(t) \/ WriteRelease(t)
    PROVE  Steady(Stored, Stored')
<1>1. CASE Calm(t)
  BY <1>1, CalmStores DEF Steady
<1>2. QED
  BY <1>1, FlushStores, FlushedSteady, CountSteady

(* What the writer at work writes, and where.                              *)
LEMMA InPlaceWrites ==
    ASSUME Typed, NEW t \in Writers, WriteInPlace(t)
    PROVE  LET host == reg[t].map.host IN
           /\ host \in Cluster
           /\ DataWritten(Stored, Stored', host,
                  Spliced(dev.data[host], reg[t].range, reg[t].at, reg[t].val))
<1> DEFINE host == reg[t].map.host
           words == Spliced(dev.data[host], reg[t].range, reg[t].at, reg[t].val)
<1>1. /\ dev \in Device /\ durable \in Device /\ LocalsGood(t) /\ reg[t].map \in ClusterMap
      /\ imageLen \in 0 .. Clusters
  BY TypedParts DEF StoreTyped, Local
<1>2. reg[t].map.case = "Plain" /\ Placed(reg[t].map, imageLen)
  BY <1>1 DEF LocalsGood, GoodAt, WriteInPlace
<1>3. host \in Cluster
  BY <1>1, <1>2, PlacedInCluster
<1>4. /\ dev' = [dev EXCEPT !.data[host] = words]
      /\ UNCHANGED <<img, l1, l2Cache>>
  BY DEF WriteInPlace
<1>5. PICK after \in Mixed(durable.data[host], dev.data[host]) :
          durable' = [durable EXCEPT !.data[host] = after]
  BY DEF WriteInPlace
<1>6. \A w \in Word : after[w] \in {durable.data[host][w], dev.data[host][w]}
  <2>1. durable.data[host] \in [Word -> Nat] /\ dev.data[host] \in [Word -> Nat]
    BY <1>1, <1>3 DEF Device
  <2>2. QED
    BY <1>5, <2>1, MixedTyped DEF Mixed
<1> HIDE DEF words, host
<1>7. /\ dev'.l1 = dev.l1 /\ dev'.rc = dev.rc /\ dev'.table = dev.table
      /\ dev'.data[host] = words /\ \A d \in Cluster : d # host => dev'.data[d] = dev.data[d]
  BY <1>1, <1>3, <1>4 DEF Device
<1>8. /\ durable'.l1 = durable.l1 /\ durable'.rc = durable.rc /\ durable'.table = durable.table
      /\ durable'.data[host] = after
      /\ \A d \in Cluster : d # host => durable'.data[d] = durable.data[d]
  BY <1>1, <1>3, <1>5 DEF Device
<1>9. /\ Stored.dev = dev /\ Stored.durable = durable /\ Stored'.dev = dev' /\ Stored'.durable = durable'
      /\ Stored'.img = Stored.img /\ Stored'.l1 = Stored.l1 /\ Stored'.cache = Stored.cache
  BY <1>4 DEF Stored
<1>10. DataWritten(Stored, Stored', host, words)
  BY <1>6, <1>7, <1>8, <1>9 DEF DataWritten
<1>11. QED
  BY <1>3, <1>10 DEF words, host

LEMMA FillWrites ==
    ASSUME Typed, NEW t \in Writers, Fill(t)
    PROVE  reg[t].new \in Cluster /\ DataWritten(Stored, Stored', reg[t].new, reg[t].full)
<1> DEFINE c == reg[t].new
<1>1. dev \in Device /\ durable \in Device /\ LocalsGood(t)
  BY TypedParts DEF StoreTyped
<1>2. c \in Cluster
  BY <1>1 DEF LocalsGood, GoodAt, Fill
<1>3. dev' = [dev EXCEPT !.data[c] = reg[t].full] /\ UNCHANGED <<img, durable, l1, l2Cache>>
  BY DEF Fill
<1> HIDE DEF c
<1>4. /\ dev'.l1 = dev.l1 /\ dev'.rc = dev.rc /\ dev'.table = dev.table
      /\ dev'.data[c] = reg[t].full /\ \A d \in Cluster : d # c => dev'.data[d] = dev.data[d]
  BY <1>1, <1>2, <1>3 DEF Device
<1>5. DataWritten(Stored, Stored', c, reg[t].full)
  BY <1>3, <1>4 DEF DataWritten, Stored
<1>6. QED
  BY <1>2, <1>5 DEF c

LEMMA RowWrites ==
    ASSUME Typed, NEW t \in Writers, Zero(t) \/ CopyTable(t)
    PROVE  /\ reg[t].table \in Cluster
           /\ RowWritten(Stored, Stored', reg[t].table,
                  IF pc[t] = "zero" THEN EmptyTable ELSE dev.table[reg[t].l1Entry.at])
<1> DEFINE T == reg[t].table
           row == IF pc[t] = "zero" THEN EmptyTable ELSE dev.table[reg[t].l1Entry.at]
<1>1. dev \in Device /\ durable \in Device /\ LocalsGood(t)
  BY TypedParts DEF StoreTyped
<1>2. T \in Cluster
  BY <1>1 DEF LocalsGood, GoodAt, Zero, CopyTable, TableSteps
<1>3. dev' = [dev EXCEPT !.table[T] = row] /\ UNCHANGED <<img, durable, l1, l2Cache>>
  BY DEF Zero, CopyTable, TableCopy
<1> HIDE DEF T, row
<1>4. /\ dev'.l1 = dev.l1 /\ dev'.rc = dev.rc /\ dev'.data = dev.data
      /\ dev'.table[T] = row /\ \A a \in Cluster : a # T => dev'.table[a] = dev.table[a]
  BY <1>1, <1>2, <1>3 DEF Device
<1>5. RowWritten(Stored, Stored', T, row)
  BY <1>3, <1>4 DEF RowWritten, Stored
<1>6. QED
  BY <1>2, <1>5 DEF T, row

LEMMA RootWrites ==
    ASSUME Typed, NEW t \in Writers
    PROVE  /\ WriteL1(t) => RootWritten(Stored, Stored', reg[t].at[1], reg[t].table)
           /\ FlushL1(t) => RootFollowed(Stored, Stored', reg[t].at[1], reg[t].table)
<1> DEFINE T == reg[t].table
           i == reg[t].at[1]
<1>1. dev \in Device /\ l1 \in [L1Index -> L1Entry] /\ i \in L1Index
  BY TypedParts DEF StoreTyped, Local, VCluster
<1> HIDE DEF T, i
<1>2. ASSUME WriteL1(t) PROVE RootWritten(Stored, Stored', i, T)
  <2>1. dev' = [dev EXCEPT !.l1[i] = L1EntryFor(T)] /\ UNCHANGED <<img, durable, l1, l2Cache>>
    BY <1>2 DEF WriteL1, memory, T, i
  <2>2. /\ dev'.rc = dev.rc /\ dev'.table = dev.table /\ dev'.data = dev.data
        /\ dev'.l1[i] = L1EntryFor(T) /\ \A k \in L1Index : k # i => dev'.l1[k] = dev.l1[k]
    BY <1>1, <2>1 DEF Device
  <2>3. QED
    BY <2>1, <2>2 DEF RootWritten, Stored
<1>3. ASSUME FlushL1(t) PROVE RootFollowed(Stored, Stored', i, T)
  <2>1. l1' = [l1 EXCEPT ![i] = L1EntryFor(T)] /\ UNCHANGED <<img, dev, l2Cache>> /\ durable' = dev
    BY <1>3 DEF FlushL1, T, i
  <2>2. QED
    BY <1>1, <2>1 DEF RootFollowed, Stored
<1>4. QED
  BY <1>2, <1>3 DEF T, i

LEMMA EntryWrites ==
    ASSUME Typed, NEW t \in Writers, WriteEntry(t), reg[t].table \in Cluster
    PROVE  EntryPut(Stored, Stored', reg[t].table, reg[t].at[2], reg[t].new)
<1> DEFINE T == reg[t].table
           j == reg[t].at[2]
           c == reg[t].new
<1>1. dev \in Device /\ j \in L2Index
  BY TypedParts DEF StoreTyped, Local, VCluster
<1>2. dev' = [dev EXCEPT !.table[T][j] = L2EntryFor(c)] /\ UNCHANGED <<img, durable, l1, l2Cache>>
  BY DEF WriteEntry, memory
<1> HIDE DEF T, j, c
<1>3. T \in Cluster
  BY DEF T
<1>4. /\ dev'.rc = dev.rc /\ dev'.l1 = dev.l1 /\ dev'.data = dev.data
      /\ dev'.table[T][j] = L2EntryFor(c)
      /\ \A a \in Cluster : \A k \in L2Index : a # T \/ k # j => dev'.table[a][k] = dev.table[a][k]
      /\ \A a \in Cluster : a # T => dev'.table[a] = dev.table[a]
  BY <1>1, <1>2, <1>3 DEF Device
<1>5. EntryPut(Stored, Stored', T, j, c)
  <2>1. /\ Stored.dev = dev /\ Stored'.dev = dev' /\ Stored'.durable = Stored.durable
        /\ Stored'.img = Stored.img /\ Stored'.l1 = Stored.l1 /\ Stored'.cache = Stored.cache
    BY <1>2 DEF Stored
  <2>2. QED
    BY <1>4, <2>1 DEF EntryPut
<1>6. QED
  BY <1>5 DEF T, j, c

LEMMA CacheChanges ==
    ASSUME Typed, Serial, CountsInv, NEW t \in Writers, LookupL2(t) \/ ForgetL2(t)
    PROVE  /\ Recached(Stored, Stored')
           /\ LookupL2(t) => Stored'.cache = Cached(reg[t].at[1], reg[t].l1Entry.at)
           /\ ForgetL2(t) => Stored'.cache = <<>>
<1>1. CASE LookupL2(t)
  <2> DEFINE i == reg[t].at[1]
             cache == Cached(i, reg[t].l1Entry.at)
  <2>1. UNCHANGED <<img, dev, durable, l1>> /\ l2Cache' = cache /\ pc[t] = "l2"
    BY <1>1 DEF LookupL2
  <2>2. i \in L1Index /\ reg[t].l1Entry = l1[i] /\ reg[t].l1Entry.at \in Cluster
    BY <2>1, Begin DEF Working, Stored, LocalsGood, GoodAt
  <2>3. \/ cache = l2Cache
        \/ l1[i].at \in Cluster /\ cache = <<i, dev.table[l1[i].at]>>
    BY <2>2 DEF Cached
  <2>4. ~ForgetL2(t)
    BY <2>1 DEF ForgetL2
  <2> HIDE DEF i
  <2>5. QED
    BY <2>1, <2>2, <2>3, <2>4 DEF Recached, Stored, i
<1>2. CASE ForgetL2(t)
  <2>1. UNCHANGED <<img, dev, durable, l1>> /\ l2Cache' = <<>> /\ pc[t] = "forgetL2"
    BY <1>2 DEF ForgetL2, AfterEntry
  <2>2. ~LookupL2(t)
    BY <2>1 DEF LookupL2
  <2>3. QED
    BY <2>1, <2>2 DEF Recached, Stored
<1>3. QED
  BY <1>1, <1>2

(***************************************************************************)
(* Where the entries of an image come from                                 *)
(***************************************************************************)
LEMMA MapOfEntry ==
    ASSUME NEW e \in L2Entry, NEW b \in BOOLEAN
    PROVE  /\ MapOf(e, b).host = e.at /\ MapOf(e, b).last = LastOf(e) /\ MapOf(e, b).part = e.part
           /\ MapOf(e, b).case = "Compressed" <=> IsPayload(e)
           /\ MapOf(e, b).case = "Zero" <=> e.kind = "zero"
           /\ MapOf(e, b).case = "Plain" <=> e.kind = "standard" /\ e.at # None
           /\ MapOf(e, b).case = "Unallocated" <=> e.kind = "standard" /\ e.at = None
           /\ ~IsPayload(e) => LastOf(e) = e.at
  BY DEF MapOf, L2Entry, IsPayload, LastOf

(* x gives every virtual cluster an entry it could have had, none, or one  *)
(* for a cluster that nothing led to, and leaves payloads alone.           *)
Descends(s, x) ==
    /\ x.img = s.img
    /\ \A v \in VCluster, e \in L2Entry : Has(x, v, e) =>
        \/ Has(s, v, e) \/ e = NoEntry
        \/ \E n \in Cluster : e = L2EntryFor(n) /\ Active(s, n) = {}
    /\ \A v \in VCluster, e \in L2Entry : \A c \in Cluster :
        /\ Has(s, v, e) /\ IsPayload(e) /\ Reaches(e, c)
        /\ s.dev.data[c] = s.img.dev.data[c] /\ s.durable.data[c] = s.img.dev.data[c]
        => x.dev.data[c] = s.img.dev.data[c] /\ x.durable.data[c] = s.img.dev.data[c]

LEMMA MadeStandard ==
    /\ ~IsPayload(NoEntry) /\ NoEntry.kind = "standard"
    /\ \A n : ~IsPayload(L2EntryFor(n)) /\ L2EntryFor(n).kind = "standard"
  BY DEF IsPayload, NoEntry, L2EntryFor

LEMMA DescendsKeeps ==
    ASSUME NEW s, NEW x, Lineage(s), Descends(s, x)
    PROVE  /\ Lineage(x)
           /\ \A slot : slot # <<>> /\ slot[1] \in VCluster /\ CacheDecodes(s, slot) =>
                  CacheDecodes(x, slot)
<1>1. \A v \in VCluster : Opened(x, v) = Opened(s, v)
  BY DEF Opened, Descends
<1>2. OnlyStandardMade(x)
  BY <1>1, MadeStandard DEF OnlyStandardMade, Lineage, Descends
<1>3. PayloadsKept(x)
  BY MadeStandard DEF PayloadsKept, Lineage, Descends
<1>4. NoTwoReach(x)
  <2> SUFFICES ASSUME NEW v \in VCluster, NEW e \in L2Entry, NEW f \in L2Entry, NEW c \in Cluster,
                      Has(x, v, e), Has(x, v, f), Reaches(e, c), Reaches(f, c)
               PROVE  e = f
    BY DEF NoTwoReach
  <2>1. ASSUME NEW g \in L2Entry, Has(x, v, g), Reaches(g, c)
        PROVE  Has(s, v, g) \/ (g = L2EntryFor(c) /\ Active(s, c) = {})
    <3>1. g # NoEntry
      BY <2>1, EntryForFacts
    <3>2. ASSUME NEW n \in Cluster, g = L2EntryFor(n) PROVE n = c
      BY <2>1, <3>2, EntryForFacts
    <3>3. QED
      BY <2>1, <3>1, <3>2 DEF Descends
  <2>2. \A g \in L2Entry : Has(s, v, g) /\ Reaches(g, c) => v \in Active(s, c)
    BY ActiveFacts
  <2>3. CASE Active(s, c) = {}
    BY <2>1, <2>2, <2>3
  <2>4. CASE Active(s, c) # {}
    BY <2>1, <2>4 DEF Lineage, NoTwoReach
  <2>5. QED
    BY <2>3, <2>4
<1>5. ASSUME NEW slot, slot # <<>>, slot[1] \in VCluster, CacheDecodes(s, slot)
      PROVE  CacheDecodes(x, slot)
  BY <1>5, MadeStandard DEF CacheDecodes, Descends
<1>6. QED
  BY <1>2, <1>3, <1>4, <1>5 DEF Lineage

LEMMA WithinDescends ==
    ASSUME NEW s, NEW x, Within(x, s),
           \A v \in VCluster, e \in L2Entry : \A c \in Cluster :
               Has(s, v, e) /\ IsPayload(e) /\ Reaches(e, c) =>
                   /\ x.dev.data[c] \in {s.dev.data[c], s.durable.data[c]}
                   /\ x.durable.data[c] \in {s.dev.data[c], s.durable.data[c]}
    PROVE  Descends(s, x)
  BY DEF Within, Descends

LEMMA SteadyWithin ==
    ASSUME NEW s, NEW x, Steady(s, x)
    PROVE  Within(x, s) /\ Descends(s, x)
<1>1. Within(x, s)
  <2>1. \A i \in L1Index : Roots(x, i) \subseteq Roots(s, i)
    BY DEF Steady, Roots
  <2>2. QED
    BY <2>1, NoMoreIsWithin DEF Steady
<1>2. QED
  BY <1>1, WithinDescends DEF Steady

(* An in-place write touches the cluster of one entry, which is standard.  *)
LEMMA InPlaceSpares ==
    ASSUME NEW s, IsStore(s), Lineage(s), NEW r \in Local, Mapping(s, "inPlace", r),
           r.map.case = "Plain", r.map.host \in Cluster,
           NEW v \in VCluster, NEW e \in L2Entry, Has(s, v, e), Reaches(e, r.map.host)
    PROVE  v = r.at /\ ~IsPayload(e) /\ e.at = r.map.host /\ e.kind = "standard"
<1>1. v = r.at
  BY ActiveFacts DEF Mapping
<1>2. PICK b \in BOOLEAN : /\ s.cache # <<>> /\ s.cache[1] = v[1]
                           /\ r.map = MapOf(s.cache[2][v[2]], b)
  BY <1>1, PlainTyped DEF Mapping, FromCache
<1> DEFINE f == s.cache[2][v[2]]
<1>3. f \in L2Entry /\ Has(s, v, f) /\ v[2] \in L2Index
  BY <1>2 DEF IsStore, Has, VCluster
<1>4. f.at = r.map.host /\ f.kind = "standard"
  <2> HIDE DEF f
  <2>1. r.map = MapOf(f, b)
    BY <1>2 DEF f
  <2>2. QED
    BY <1>3, <2>1, MapOfEntry
<1>5. Reaches(f, r.map.host)
  BY <1>4 DEF Reaches
<1> HIDE DEF f
<1>6. e = f
  BY <1>3, <1>5 DEF Lineage, NoTwoReach
<1>7. QED
  BY <1>1, <1>4, <1>6 DEF IsPayload

LEMMA DataWithin ==
    ASSUME NEW s, NEW x, NEW c \in Cluster, NEW words, DataWritten(s, x, c, words)
    PROVE  Within(x, s)
<1>1. \A i \in L1Index : Roots(x, i) = Roots(s, i)
  BY DEF DataWritten, Roots
<1>2. QED
  BY <1>1, NoMoreIsWithin DEF DataWritten

LEMMA DataDescends ==
    ASSUME NEW s, NEW x, NEW c \in Cluster, NEW words, DataWritten(s, x, c, words),
           \A v \in VCluster, e \in L2Entry : Has(s, v, e) /\ Reaches(e, c) => ~IsPayload(e)
    PROVE  Descends(s, x)
<1>1. Within(x, s)
  BY DataWithin
<1>2. \A d \in Cluster : d # c =>
          x.dev.data[d] = s.dev.data[d] /\ x.durable.data[d] = s.durable.data[d]
  BY DEF DataWritten
<1>3. QED
  BY <1>1, <1>2, WithinDescends

LEMMA RootHas ==
    ASSUME NEW s, NEW x, NEW i \in L1Index, NEW T \in Cluster, RootWritten(s, x, i, T),
           s.durable.table[T] = s.dev.table[T],
           \A j \in L2Index : s.dev.table[T][j] = NoEntry \/ Has(s, <<i, j>>, s.dev.table[T][j]),
           NEW v \in VCluster, NEW e \in L2Entry, Has(x, v, e)
    PROVE  Has(s, v, e) \/ e = NoEntry
<1>1. v[1] \in L1Index /\ v[2] \in L2Index /\ v = <<v[1], v[2]>>
  BY DEF VCluster
<1>2. \A c : Names(x, v[1], c) => Names(s, v[1], c) \/ (v[1] = i /\ c = T)
  BY <1>1, EntryForFacts DEF Names, Roots, RootWritten
<1>3. CASE v[1] = i /\ (e = s.dev.table[T][v[2]] \/ e = s.durable.table[T][v[2]])
  BY <1>1, <1>3
<1>4. CASE x.cache # <<>> /\ x.cache[1] = v[1] /\ e = x.cache[2][v[2]]
  BY <1>4 DEF Has, RootWritten
<1>5. ASSUME NEW a \in Cluster, Names(x, v[1], a),
             e = s.dev.table[a][v[2]] \/ e = s.durable.table[a][v[2]]
      PROVE  Has(s, v, e) \/ e = NoEntry
  BY <1>2, <1>3, <1>5 DEF Has
<1>6. QED
  BY <1>4, <1>5 DEF Has, RootWritten

(* One L1 index names a table that is its own.                             *)
LEMMA OwnOnly ==
    ASSUME NEW s, NEW i \in L1Index, NEW T, Own(s, i, T), TablesOnce(s),
           NEW k \in L1Index, Names(s, k, T)
    PROVE  k = i
<1>1. Names(s, i, T) /\ T \in Cluster
  BY DEF Own, Names, Roots
<1>2. Active(s, T) = {<<i>>} /\ Active(s, T) = {<<k>>}
  BY <1>1 DEF TablesOnce
<1>3. QED
  BY <1>2, PlacesApart

LEMMA EntryHas ==
    ASSUME NEW s, NEW x, NEW i \in L1Index, NEW j \in L2Index, NEW T, Own(s, i, T), TablesOnce(s),
           NEW n, EntryPut(s, x, T, j, n),
           NEW u \in VCluster, NEW e \in L2Entry, Has(x, u, e)
    PROVE  Has(s, u, e) \/ (u = <<i, j>> /\ e = L2EntryFor(n))
<1>1. u[1] \in L1Index /\ u[2] \in L2Index /\ u = <<u[1], u[2]>> /\ T \in Cluster
  BY DEF VCluster, Own
<1>2. /\ x.dev.table[T][j] = L2EntryFor(n) /\ x.durable = s.durable /\ x.cache = s.cache
      /\ \A a \in Cluster : \A k \in L2Index :
             a # T \/ k # j => x.dev.table[a][k] = s.dev.table[a][k]
  BY DEF EntryPut
<1>3. \A c : Names(x, u[1], c) <=> Names(s, u[1], c)
  BY DEF Names, Roots, EntryPut
<1>4. CASE \E a \in Cluster : /\ Names(x, u[1], a)
                              /\ e = x.dev.table[a][u[2]] \/ e = x.durable.table[a][u[2]]
  <2>1. PICK a \in Cluster : /\ Names(s, u[1], a)
                             /\ e = x.dev.table[a][u[2]] \/ e = s.durable.table[a][u[2]]
    BY <1>2, <1>3, <1>4
  <2>2. CASE a = T /\ u[2] = j /\ e = x.dev.table[a][u[2]]
    <3>1. u[1] = i
      BY <1>1, <2>1, <2>2, OwnOnly
    <3>2. QED
      BY <1>1, <1>2, <2>2, <3>1
  <2>3. CASE ~(a = T /\ u[2] = j /\ e = x.dev.table[a][u[2]])
    <3>1. e = s.dev.table[a][u[2]] \/ e = s.durable.table[a][u[2]]
      BY <1>1, <1>2, <2>1, <2>3
    <3>2. QED
      BY <2>1, <3>1 DEF Has
  <2>4. QED
    BY <2>2, <2>3
<1>5. CASE x.cache # <<>> /\ x.cache[1] = u[1] /\ e = x.cache[2][u[2]]
  BY <1>2, <1>5 DEF Has
<1>6. QED
  BY <1>4, <1>5 DEF Has

(***************************************************************************)
(* Every step's store descends from the one before                         *)
(***************************************************************************)
LEMMA CacheWithin ==
    ASSUME Typed, Typed', Serial, CountsInv, NEW t \in Writers, LookupL2(t) \/ ForgetL2(t)
    PROVE  Within(Stored', Stored)
<1>1. pc[t] \notin {"idle", "lock"}
  BY DEF LookupL2, ForgetL2
<1>2. IsStore(Stored) /\ IsStore(Stored') /\ Sound(Stored, Mine(pc[t], reg[t]))
  BY <1>1, Begin, StoredNext
<1>3. Recached(Stored, Stored')
  BY CacheChanges
<1> DEFINE s == Stored
           x == Stored'
<1> HIDE DEF s, x
<1>4. Within(x, s)
  BY <1>2, <1>3, CacheKeeps DEF Recached, s, x
<1>5. QED
  BY <1>4 DEF s, x

LEMMA RowWithin ==
    ASSUME Typed, Typed', Serial, CountsInv, NEW t \in Writers, Zero(t) \/ CopyTable(t)
    PROVE  Within(Stored', Stored)
<1> DEFINE s == Stored
           x == Stored'
           T == reg[t].table
           H == Mine(pc[t], reg[t])
<1>1. pc[t] \in {"zero", "copy"}
  BY DEF Zero, CopyTable
<1>2. IsStore(s) /\ IsStore(x) /\ Sound(s, H) /\ Working(s, pc[t], reg[t])
  BY <1>1, Begin, StoredNext
<1>3. Active(s, T) = {} /\ Kept(s, T) = {}
  BY <1>1, <1>2 DEF Working, ShadowSteps, Unused, Taken
<1>4. T \in Cluster /\ \E row : RowWritten(s, x, T, row)
  BY RowWrites
<1> HIDE DEF s, x, T, H
<1>5. Within(x, s)
  BY <1>2, <1>3, <1>4, RowKeeps DEF RowWritten
<1>6. QED
  BY <1>5 DEF s, x

LEMMA FollowWithin ==
    ASSUME Typed, NEW t \in Writers, FlushL1(t), Serial, CountsInv
    PROVE  Within(Stored', Stored)
<1> DEFINE s == Stored
           x == Stored'
           i == reg[t].at[1]
           T == reg[t].table
<1>1. pc[t] = "l1Flush"
  BY DEF FlushL1
<1>2. Working(s, "l1Flush", reg[t]) /\ i \in L1Index
  BY <1>1, Begin
<1>3. s.dev.l1[i] = L1EntryFor(T)
  BY <1>2 DEF Working
<1>4. RootFollowed(s, x, i, T)
  BY RootWrites
<1> HIDE DEF s, x, i, T
<1>5. \A k \in L1Index : Roots(x, k) \subseteq Roots(s, k)
  <2> SUFFICES ASSUME NEW k \in L1Index PROVE Roots(x, k) \subseteq Roots(s, k)
    OBVIOUS
  <2>1. x.dev = s.dev /\ x.durable = s.dev /\ x.l1[k] \in {s.l1[k], s.dev.l1[k]}
    BY <1>3, <1>4 DEF RootFollowed
  <2>2. QED
    BY <2>1 DEF Roots
<1>6. Within(x, s)
  BY <1>4, <1>5, NoMoreIsWithin DEF RootFollowed
<1>7. QED
  BY <1>6 DEF s, x

LEMMA InstalledHas ==
    ASSUME Typed, Typed', Serial, CountsInv, NEW t \in Writers, WriteL1(t)
    PROVE  \A v \in VCluster, e \in L2Entry : Has(Stored', v, e) => Has(Stored, v, e) \/ e = NoEntry
<1> DEFINE s == Stored
           x == Stored'
           i == reg[t].at[1]
           T == reg[t].table
<1>1. pc[t] = "l1Write"
  BY DEF WriteL1
<1>2. Working(s, "l1Write", reg[t]) /\ i \in L1Index
  BY <1>1, Begin
<1>3. /\ T \in Cluster /\ s.durable.table[T] = s.dev.table[T] /\ RowReady(s, reg[t])
  BY <1>2 DEF Working, ShadowSteps, Unused, Taken
<1>4. RootWritten(s, x, i, T)
  BY RootWrites
<1> HIDE DEF s, x
<1>5. \A j \in L2Index : s.dev.table[T][j] = NoEntry \/ Has(s, <<i, j>>, s.dev.table[T][j])
  <2> SUFFICES ASSUME NEW j \in L2Index, s.dev.table[T][j] # NoEntry
               PROVE  Has(s, <<i, j>>, s.dev.table[T][j])
    OBVIOUS
  <2>1. s.l1[i].at \in Cluster /\ s.dev.table[T][j] = s.dev.table[s.l1[i].at][j]
    BY <1>3 DEF RowReady
  <2>2. Names(s, i, s.l1[i].at)
    BY DEF Names, Roots
  <2>3. QED
    BY <2>1, <2>2 DEF Has
<1> HIDE DEF i, T
<1>6. \A v \in VCluster, e \in L2Entry : Has(x, v, e) => Has(s, v, e) \/ e = NoEntry
  BY <1>2, <1>3, <1>4, <1>5, RootHas DEF i
<1>7. QED
  BY <1>6 DEF s, x

LEMMA PublishedHas ==
    ASSUME Typed, Typed', Serial, CountsInv, NEW t \in Writers, WriteEntry(t)
    PROVE  /\ reg[t].new \in Cluster /\ Active(Stored, reg[t].new) = {}
           /\ \A v \in VCluster, e \in L2Entry : Has(Stored', v, e) =>
                  Has(Stored, v, e) \/ (v = reg[t].at /\ e = L2EntryFor(reg[t].new))
<1> DEFINE s == Stored
           x == Stored'
           i == reg[t].at[1]
           j == reg[t].at[2]
           T == reg[t].table
           n == reg[t].new
<1>1. pc[t] = "entry"
  BY DEF WriteEntry
<1>2. /\ Sound(s, Mine(pc[t], reg[t])) /\ Working(s, "entry", reg[t])
      /\ i \in L1Index /\ j \in L2Index /\ reg[t].at \in VCluster
  BY <1>1, Begin
<1>3. n \in Cluster /\ Active(s, n) = {} /\ Own(s, i, T) /\ TablesOnce(s)
  BY <1>2 DEF Working, HasNew, FilledSteps, Unused, Taken, Sound
<1>4. EntryPut(s, x, T, j, n) /\ reg[t].at = <<i, j>>
  BY <1>2, <1>3, EntryWrites DEF Own, VCluster
<1> HIDE DEF s, x, i, j, T, n
<1>5. \A v \in VCluster, e \in L2Entry : Has(x, v, e) =>
          Has(s, v, e) \/ (v = reg[t].at /\ e = L2EntryFor(n))
  BY <1>2, <1>3, <1>4, EntryHas DEF i, j
<1>6. QED
  BY <1>3, <1>5 DEF s, x, n

LEMMA StepDescends ==
    ASSUME Typed, Typed', Serial, CountsInv, PayloadInv, NEW t \in Writers,
           Lookup(t) \/ DeviceError(t) \/ StartWrite(t) \/ WriteStep(t)
    PROVE  Descends(Stored, Stored')
<1> DEFINE s == Stored
           x == Stored'
<1>1. IsStore(s) /\ Lineage(s) /\ Mapping(s, pc[t], reg[t]) /\ reg[t] \in Local
  BY StoredTyped, TypedParts DEF PayloadInv
<1>2. CASE Calm(t) \/ Flushes(t) \/ Allocate(t) \/ WriteRelease(t)
  BY <1>2, StepsSteady, SteadyWithin
<1>3. CASE LookupL2(t) \/ ForgetL2(t)
  <2>1. Recached(s, x) /\ Within(x, s)
    BY <1>3, CacheChanges, CacheWithin
  <2> HIDE DEF s, x
  <2>2. Descends(s, x)
    BY <2>1, WithinDescends DEF Recached
  <2>3. QED
    BY <2>2 DEF s, x
<1>4. CASE Zero(t) \/ CopyTable(t)
  <2>1. Within(x, s) /\ \E T, row : RowWritten(s, x, T, row)
    BY <1>4, RowWithin, RowWrites
  <2> HIDE DEF s, x
  <2>2. Descends(s, x)
    BY <2>1, WithinDescends DEF RowWritten
  <2>3. QED
    BY <2>2 DEF s, x
<1>5. CASE FlushL1(t)
  <2>1. Within(x, s) /\ \E i, T : RootFollowed(s, x, i, T)
    BY <1>5, FollowWithin, RootWrites
  <2> HIDE DEF s, x
  <2>2. Descends(s, x)
    BY <2>1, WithinDescends DEF RootFollowed
  <2>3. QED
    BY <2>2 DEF s, x
<1>6. CASE WriteInPlace(t)
  <2> DEFINE host == reg[t].map.host
  <2>1. host \in Cluster /\ \E words : DataWritten(s, x, host, words)
    BY <1>6, InPlaceWrites
  <2>2. pc[t] = "inPlace" /\ reg[t].map.case = "Plain"
    BY <1>6, TypedParts DEF WriteInPlace, LocalsGood, GoodAt
  <2> HIDE DEF s, x
  <2>3. \A v \in VCluster, e \in L2Entry : Has(s, v, e) /\ Reaches(e, host) => ~IsPayload(e)
    BY <1>1, <2>1, <2>2, InPlaceSpares
  <2> HIDE DEF host
  <2>4. Descends(s, x)
    BY <2>1, <2>3, DataDescends
  <2>5. QED
    BY <2>4 DEF s, x
<1>7. CASE Fill(t)
  <2> DEFINE n == reg[t].new
  <2>1. n \in Cluster /\ \E words : DataWritten(s, x, n, words)
    BY <1>7, FillWrites
  <2>2. pc[t] = "fill"
    BY <1>7 DEF Fill
  <2>3. Active(s, n) = {}
    BY <2>2, Begin DEF Working, HasNew, FilledSteps, Unused, Taken
  <2> HIDE DEF s, x, n
  <2>4. Descends(s, x)
    BY <2>1, <2>3, ActiveFacts, DataDescends
  <2>5. QED
    BY <2>4 DEF s, x
<1>8. CASE WriteL1(t)
  <2>1. /\ \A v \in VCluster, e \in L2Entry : Has(x, v, e) => Has(s, v, e) \/ e = NoEntry
        /\ \E i, T : RootWritten(s, x, i, T)
    BY <1>8, InstalledHas, RootWrites
  <2> HIDE DEF s, x
  <2>2. Descends(s, x)
    BY <2>1 DEF RootWritten, Descends
  <2>3. QED
    BY <2>2 DEF s, x
<1>9. CASE WriteEntry(t)
  <2> DEFINE n == reg[t].new
  <2>1. pc[t] = "entry" /\ reg[t].table \in Cluster
    BY <1>9, Begin DEF WriteEntry, Working, Own
  <2>2. /\ n \in Cluster /\ Active(s, n) = {}
        /\ \A v \in VCluster, e \in L2Entry : Has(x, v, e) => Has(s, v, e) \/ e = L2EntryFor(n)
        /\ \E T, j : EntryPut(s, x, T, j, n)
    BY <1>9, <2>1, PublishedHas, EntryWrites
  <2> HIDE DEF s, x, n
  <2>3. Descends(s, x)
    BY <2>2 DEF EntryPut, Descends
  <2>4. QED
    BY <2>3 DEF s, x
<1>10. QED
  BY <1>2, <1>3, <1>4, <1>5, <1>6, <1>7, <1>8, <1>9 DEF Lookup, WriteStep, Calm, Flushes

LEMMA FlushDescends ==
    ASSUME Flush
    PROVE  Steady(Stored, Stored') /\ Descends(Stored, Stored') /\ Within(Stored', Stored)
  BY FlushedSteady, SteadyWithin DEF Flush

(* What a loss of power may leave.                                         *)
LEMMA LeftWithin ==
    ASSUME Typed, NEW d \in Survivors
    PROVE  Mixes(d, Stored) /\ AtRest(Left(d)) /\ Within(Left(d), Stored)
<1> DEFINE x == Left(d)
           s == Stored
<1>1. dev \in Device /\ durable \in Device
  BY TypedParts DEF StoreTyped
<1>2. Mixes(d, s)
  BY <1>1, SurvivorFacts DEF Mixes, Stored
<1>3. /\ x.img = s.img /\ x.dev = d /\ x.durable = d /\ x.l1 = d.l1 /\ x.cache = <<>> /\ AtRest(x)
  BY DEF Left, Stored, AtRest
<1> HIDE DEF x, s
<1>4. \A i \in L1Index : Roots(x, i) \subseteq Roots(s, i)
  BY <1>2, <1>3 DEF Roots, Mixes
<1>5. \A i \in L1Index : \A c : Names(x, i, c) => Names(s, i, c)
  BY <1>4 DEF Names
<1>6. ASSUME NEW v \in VCluster, NEW e \in L2Entry, Has(x, v, e) PROVE Has(s, v, e)
  <2>1. v[1] \in L1Index /\ v[2] \in L2Index
    BY DEF VCluster
  <2>2. PICK a \in Cluster : Names(x, v[1], a) /\ e = d.table[a][v[2]]
    BY <1>3, <1>6 DEF Has
  <2>3. Names(s, v[1], a) /\ (e = s.dev.table[a][v[2]] \/ e = s.durable.table[a][v[2]])
    BY <1>2, <1>5, <2>1, <2>2 DEF Mixes
  <2>4. QED
    BY <2>3 DEF Has
<1>7. QED
  BY <1>2, <1>3, <1>4, <1>6 DEF Within, x, s

LEMMA LeftDescends ==
    ASSUME Typed, PayloadInv, NEW d \in Survivors
    PROVE  Descends(Stored, Left(d))
<1> DEFINE x == Left(d)
           s == Stored
<1>1. Mixes(d, s) /\ Within(x, s) /\ x.dev = d /\ x.durable = d /\ IsStore(s)
  BY LeftWithin, StoredTyped DEF Left
<1>2. PayloadsKept(s)
  BY DEF PayloadInv, Lineage
<1> HIDE DEF x, s
<1>3. \A c \in Cluster : s.dev.data[c] = s.durable.data[c] => d.data[c] = s.dev.data[c]
  <2> SUFFICES ASSUME NEW c \in Cluster, s.dev.data[c] = s.durable.data[c]
               PROVE  d.data[c] = s.dev.data[c]
    OBVIOUS
  <2>1. d.data[c] \in [Word -> Nat] /\ s.dev.data[c] \in [Word -> Nat]
    BY <1>1 DEF Mixes, IsStore, Device
  <2>2. \A w \in Word : d.data[c][w] = s.dev.data[c][w]
    BY <1>1 DEF Mixes
  <2>3. QED
    BY <2>1, <2>2
<1>4. Descends(s, x)
  BY <1>1, <1>2, <1>3, WithinDescends DEF PayloadsKept
<1>5. QED
  BY <1>4 DEF x, s

(***************************************************************************)
(* A payload is decoded before anything is allocated for its cluster       *)
(***************************************************************************)
LEMMA PayloadSame ==
    ASSUME NEW data, NEW other, NEW map, data[map.host] = other[map.host],
           data[map.last] = other[map.last]
    PROVE  /\ Decodes(data, map) <=> Decodes(other, map)
           /\ Decompressed(data, map) = Decompressed(other, map)
<1>1. Payload(data, map) = Payload(other, map)
  BY DEF Payload
<1>2. QED
  BY <1>1 DEF Decodes, Decompressed

(* COPIED says nothing of a payload.                                       *)
LEMMA PayloadPlace ==
    ASSUME NEW data, NEW map, NEW other, map.host = other.host, map.last = other.last,
           map.part = other.part
    PROVE  /\ Decodes(data, map) <=> Decodes(data, other)
           /\ Decompressed(data, map) = Decompressed(data, other)
<1>1. Payload(data, map) = Payload(data, other)
  BY DEF Payload
<1>2. QED
  BY <1>1 DEF Decodes, Decompressed

(* The payload a writer has found, through the L2 cache.                   *)
LEMMA PayloadFound ==
    ASSUME NEW s, IsStore(s), Lineage(s), NEW r \in Local, FromCache(s, r),
           r.map.case = "Compressed", NEW len \in 0 .. Clusters, Placed(r.map, len)
    PROVE  LET e == s.cache[2][r.at[2]] IN
           /\ e \in L2Entry /\ Has(s, r.at, e) /\ IsPayload(e)
           /\ \A f \in L2Entry : Has(s, r.at, f) /\ IsPayload(f) => f = e
           /\ \A data \in {s.dev.data, s.img.dev.data} :
                /\ Decodes(data, r.map) <=> Decodes(s.img.dev.data, MapOf(e, FALSE))
                /\ Decompressed(data, r.map) = Decompressed(s.img.dev.data, MapOf(e, FALSE))
<1> DEFINE e == s.cache[2][r.at[2]]
<1>1. /\ r.at \in VCluster /\ r.at[2] \in L2Index /\ r.map \in ClusterMap
      /\ r.map.host \in Cluster /\ r.map.last \in Cluster
  BY PlacedInCluster DEF Local, VCluster
<1>2. PICK b \in BOOLEAN : /\ s.cache # <<>> /\ s.cache[1] = r.at[1]
                           /\ r.map = MapOf(e, b)
  BY PlainTyped DEF FromCache
<1>3. e \in L2Entry /\ Has(s, r.at, e)
  BY <1>1, <1>2 DEF IsStore, Has
<1> HIDE DEF e
<1>4. /\ r.map.host = e.at /\ r.map.last = LastOf(e) /\ r.map.part = e.part /\ IsPayload(e)
      /\ MapOf(e, FALSE).host = e.at /\ MapOf(e, FALSE).last = LastOf(e)
      /\ MapOf(e, FALSE).part = e.part
  <2>1. FALSE \in BOOLEAN
    OBVIOUS
  <2>2. /\ MapOf(e, FALSE).host = e.at /\ MapOf(e, FALSE).last = LastOf(e)
        /\ MapOf(e, FALSE).part = e.part
    BY <1>3, <2>1, MapOfEntry
  <2>3. /\ r.map.host = e.at /\ r.map.last = LastOf(e) /\ r.map.part = e.part /\ IsPayload(e)
    BY <1>2, <1>3, MapOfEntry
  <2>4. QED
    BY <2>2, <2>3
<1>5. \A f \in L2Entry : Has(s, r.at, f) /\ IsPayload(f) => f = e
  <2>1. \A f \in L2Entry : Has(s, r.at, f) /\ IsPayload(f) => f = Opened(s, r.at)
    BY <1>1 DEF Lineage, OnlyStandardMade, IsPayload
  <2>2. QED
    BY <1>3, <1>4, <2>1
<1>6. /\ s.dev.data[r.map.host] = s.img.dev.data[r.map.host]
      /\ s.dev.data[r.map.last] = s.img.dev.data[r.map.last]
  BY <1>1, <1>3, <1>4 DEF Lineage, PayloadsKept, Reaches
<1>7. \A data \in {s.dev.data, s.img.dev.data} :
          /\ Decodes(data, r.map) <=> Decodes(s.img.dev.data, MapOf(e, FALSE))
          /\ Decompressed(data, r.map) = Decompressed(s.img.dev.data, MapOf(e, FALSE))
  <2>1. /\ Decodes(s.dev.data, r.map) <=> Decodes(s.img.dev.data, r.map)
        /\ Decompressed(s.dev.data, r.map) = Decompressed(s.img.dev.data, r.map)
    BY <1>6, PayloadSame
  <2>2. /\ Decodes(s.img.dev.data, r.map) <=> Decodes(s.img.dev.data, MapOf(e, FALSE))
        /\ Decompressed(s.img.dev.data, r.map) = Decompressed(s.img.dev.data, MapOf(e, FALSE))
    <3> DEFINE once == MapOf(e, FALSE)
               was == s.img.dev.data
    <3>1. once.host = r.map.host /\ once.last = r.map.last /\ once.part = r.map.part
      BY <1>4
    <3> HIDE DEF once, was
    <3>2. /\ Decodes(was, r.map) <=> Decodes(was, once)
          /\ Decompressed(was, r.map) = Decompressed(was, once)
      BY <3>1, PayloadPlace
    <3>3. QED
      BY <3>2 DEF once, was
  <2>3. QED
    BY <2>1, <2>2
<1>8. QED
  BY <1>3, <1>4, <1>5, <1>7 DEF e

(* The steps after which a mapping matters.                                *)
Planning == {"plan", "inPlace", "allocate"}

LEMMA NotPlanning ==
    ASSUME NEW s, NEW step, step \notin Planning, NEW r
    PROVE  Mapping(s, step, r)
  BY DEF Mapping, Planning

LEMMA LeavesPlanning ==
    ASSUME Typed, NEW t \in Writers,
           \/ Undecodable(t) \/ DeviceError(t) \/ StartWrite(t) \/ TakeWriteLock(t) \/ NoRoom(t)
           \/ ForgetData(t) \/ ReleaseFails(t) \/ NextChunk(t) \/ EndWrite(t) \/ Flushes(t)
           \/ Allocate(t) \/ WriteRelease(t) \/ ForgetL2(t) \/ Zero(t) \/ CopyTable(t) \/ FlushL1(t)
           \/ WriteInPlace(t) \/ Fill(t) \/ WriteL1(t) \/ WriteEntry(t)
    PROVE  pc'[t] \notin Planning
<1>1. \A step : Go(t, step) => pc'[t] = step
  BY GoSet
<1>2. Leave(t) => pc'[t] = "idle"
  BY <1>1 DEF Leave
<1>3. CASE Flushes(t)
  <2>1. pc[t] = "allocateFlush" => reg[t].why \in {"data", "table", "copy"}
    BY TypedParts DEF LocalsGood, GoodAt
  <2>2. QED
    BY <1>1, <1>3, <2>1 DEF Planning, Flushes, FlushThen, FlushAllocate, FlushFill, FlushZero,
       FlushCopy, FlushEntry, FlushRelease, AfterRelease
<1>4. CASE WriteInPlace(t) \/ Fill(t) \/ WriteL1(t) \/ WriteEntry(t) \/ Zero(t) \/ CopyTable(t)
  BY <1>1, <1>2, <1>4 DEF Planning, WriteInPlace, Fill, WriteL1, WriteEntry, Zero, CopyTable, Written,
     WrittenTo
<1>5. CASE Undecodable(t) \/ DeviceError(t) \/ NoRoom(t) \/ EndWrite(t) \/ Allocate(t)
  BY <1>1, <1>2, <1>5 DEF Planning, Undecodable, DeviceError, NoRoom, EndWrite, Allocate
<1>6. QED
  BY <1>1, <1>3, <1>4, <1>5 DEF Planning, StartWrite, TakeWriteLock, ForgetData, ReleaseFails,
     NextChunk, WriteRelease, ForgetL2, FlushL1, AfterRelease

LEMMA PlanInPlaceMapping ==
    ASSUME Typed, Serial, CountsInv, PayloadInv, NEW t \in Writers, PlanInPlace(t)
    PROVE  Mapping(Stored', pc'[t], reg'[t])
<1> DEFINE host == reg[t].map.host
           A == Active(Stored, host)
<1>1. /\ pc[t] = "plan" /\ pc'[t] = "inPlace" /\ reg'[t] = reg[t] /\ Stored' = Stored
      /\ reg[t].map.case = "Plain" /\ (reg[t].map.copied \/ ~(dev.rc[host] > 1))
  BY GoSet DEF PlanInPlace, Stored, memory, InPlace, Shared
<1>2. IsStore(Stored) /\ Sound(Stored, Mine(pc[t], reg[t]))
  BY <1>1, Begin
<1>3. /\ host \in Cluster /\ reg[t].at \in A
      /\ reg[t].map.copied => One(Stored, host)
  BY <1>1, Mapped
<1>4. Cardinality(A) <= 1
  <2>1. Stored.dev.rc[host] <= 1
    BY <1>1, <1>2, <1>3, RcTyped DEF One, Stored
  <2>2. Cost(Stored, Mine(pc[t], reg[t]), host) <= 1
    BY <1>2, <1>3, <2>1, CostTyped, RcTyped DEF Sound, Covered
  <2>3. QED
    BY <2>2, CostTyped DEF Cost
<1>5. A \subseteq {reg[t].at}
  <2> SUFFICES ASSUME NEW p \in A, p # reg[t].at PROVE FALSE
    OBVIOUS
  <2>1. A \in SUBSET Place
    BY ActiveFacts
  <2> HIDE DEF A
  <2>2. {p} \in SUBSET Place /\ {p} \subseteq A \ {reg[t].at}
    BY <2>1
  <2>3. Cardinality({p}) \in Nat /\ Cardinality({p}) + 1 <= Cardinality(A) /\ Cardinality(A) \in Nat
    BY <1>3, <2>1, <2>2, Counting
  <2>4. Cardinality({p}) = 0
    BY <1>4, <2>3
  <2>5. QED
    BY <2>2, <2>4, Counting
<1>6. FromCache(Stored, reg[t])
  BY <1>1 DEF PayloadInv, Mapping
<1>7. QED
  BY <1>1, <1>5, <1>6 DEF Mapping

LEMMA PlanReallocateDecodes ==
    ASSUME Typed, Serial, CountsInv, PayloadInv, NEW t \in Writers, PlanReallocate(t)
    PROVE  Mapping(Stored', pc'[t], reg'[t]) /\ CacheDecodes(Stored, deCache')
<1> DEFINE r == reg[t]
           s == Stored
           map == reg[t].map
<1>1. /\ pc[t] = "plan" /\ pc'[t] = "allocate" /\ s' = s /\ Readable(r.at, map)
      /\ deCache' = IF map.case = "Compressed" THEN <<r.at, Seed(r.at, map)>> ELSE deCache
  BY GoSet DEF PlanReallocate, Stored
<1>2. r \in Local /\ map \in ClusterMap /\ IsStore(s) /\ Placed(map, imageLen) /\ r.at \in VCluster
  BY <1>1, Begin DEF LocalsGood, GoodAt
<1>3. PICK full, old : reg'[t] = [r EXCEPT !.full = full, !.old = old, !.why = "data"]
  <2>1. PICK full : reg'[t] = [r EXCEPT !.full = full, !.old = ReleaseOf(map), !.why = "data"]
    BY GoSet DEF PlanReallocate
  <2>2. QED
    BY <2>1
<1>4. reg'[t].map = map
  BY <1>2, <1>3 DEF Local
<1>5. FromCache(s, r) /\ Lineage(s) /\ CacheDecodes(s, deCache) /\ imageLen \in 0 .. Clusters
  BY <1>1, TypedParts DEF PayloadInv, Mapping
<1>6. CASE map.case # "Compressed"
  BY <1>1, <1>4, <1>5, <1>6 DEF Mapping
<1>7. CASE map.case = "Compressed"
  <2> DEFINE e == s.cache[2][r.at[2]]
             once == MapOf(e, FALSE)
             was == s.img.dev.data
  <2>1. /\ e \in L2Entry /\ Has(s, r.at, e) /\ IsPayload(e)
        /\ \A f \in L2Entry : Has(s, r.at, f) /\ IsPayload(f) => f = e
        /\ Decodes(dev.data, map) <=> Decodes(was, once)
        /\ Decompressed(dev.data, map) = Decompressed(was, once)
    <3>1. s.dev.data = dev.data
      BY DEF Stored
    <3>2. /\ e \in L2Entry /\ Has(s, r.at, e) /\ IsPayload(e)
          /\ \A f \in L2Entry : Has(s, r.at, f) /\ IsPayload(f) => f = e
          /\ \A data \in {s.dev.data, s.img.dev.data} :
                /\ Decodes(data, map) <=> Decodes(was, once)
                /\ Decompressed(data, map) = Decompressed(was, once)
      BY <1>2, <1>5, <1>7, PayloadFound
    <3>3. QED
      BY <3>1, <3>2
  <2>2. Seed(r.at, map) = IF DeCached(r.at) THEN deCache[2] ELSE Decompressed(dev.data, map)
    BY <1>7 DEF Seed, ClusterWords
  <2> HIDE DEF e, once, was
  <2>3. Decodes(was, once) /\ Seed(r.at, map) = Decompressed(was, once)
    <3>1. CASE DeCached(r.at)
      <4>1. deCache # <<>> /\ deCache[1] = r.at
        BY <3>1 DEF DeCached
      <4>2. QED
        BY <1>5, <2>1, <2>2, <3>1, <4>1 DEF CacheDecodes, once, was
    <3>2. CASE ~DeCached(r.at)
      BY <1>1, <1>7, <2>1, <2>2, <3>2 DEF Readable
    <3>3. QED
      BY <3>1, <3>2
  <2>4. CacheDecodes(s, <<r.at, Seed(r.at, map)>>)
    <3> DEFINE slot == <<r.at, Seed(r.at, map)>>
    <3>1. slot[1] = r.at /\ slot[2] = Decompressed(was, once)
      BY <2>3
    <3> HIDE DEF slot
    <3>2. CacheDecodes(s, slot)
      BY <2>1, <2>3, <3>1 DEF CacheDecodes, once, was
    <3>3. QED
      BY <3>2 DEF slot
  <2>5. Decodes(s.dev.data, map)
    BY <2>1, <2>3 DEF Stored
  <2>6. QED
    BY <1>1, <1>4, <1>7, <2>4, <2>5 DEF Mapping
<1>8. QED
  BY <1>6, <1>7

LEMMA LookupMapping ==
    ASSUME Typed, Serial, CountsInv, NEW t \in Writers, LookupL1(t) \/ LookupL2(t)
    PROVE  Mapping(Stored', pc'[t], reg'[t])
<1>1. \A step : Go(t, step) => pc'[t] = step
  BY GoSet
<1>2. CASE Leave(t)
  BY <1>1, <1>2, NotPlanning DEF Leave, Planning
<1>3. reg[t] \in Local /\ reg[t].at \in VCluster
  BY TypedParts DEF Local
<1>4. CASE LookupL1(t) /\ ~Leave(t)
  <2>1. /\ reg'[t] = [reg[t] EXCEPT !.l1Entry = l1[reg[t].at[1]], !.map = Unallocated]
        /\ pc'[t] \in {Looked(t), "l2"}
    BY <1>1, <1>4, GoSet DEF LookupL1
  <2>2. reg'[t].map = Unallocated /\ pc'[t] \in {"plan", "l2"}
    BY <1>3, <2>1 DEF Local, Looked
  <2>3. QED
    BY <2>2 DEF Mapping, FromCache
<1>5. CASE LookupL2(t) /\ ~Leave(t)
  <2> DEFINE v == reg[t].at
             cache == Cached(v[1], reg[t].l1Entry.at)
             map == MapOf(cache[2][v[2]], reg[t].l1Entry.copied)
  <2>1. reg'[t] = [reg[t] EXCEPT !.map = map] /\ pc'[t] = "plan" /\ l2Cache' = cache
    BY <1>1, <1>5, GoSet DEF LookupL2, Looked
  <2>2. reg'[t].map = map /\ reg'[t].at = v /\ reg[t].l1Entry.copied \in BOOLEAN
    BY <1>3, <2>1 DEF Local, L1Entry
  <2>3. cache # <<>> /\ cache[1] = v[1] /\ Stored'.cache = cache
    BY <2>1 DEF Cached, Stored
  <2> HIDE DEF cache
  <2>4. FromCache(Stored', reg'[t])
    BY <2>2, <2>3 DEF FromCache
  <2>5. QED
    BY <2>1, <2>4 DEF Mapping
<1>6. QED
  BY <1>2, <1>4, <1>5

LEMMA RepointMapping ==
    ASSUME Typed, NEW t \in Writers, Repoint(t)
    PROVE  Mapping(Stored', pc'[t], reg'[t])
<1>1. reg[t] \in Local
  BY TypedParts
<1> DEFINE entry == l1[reg[t].at[1]]
           what == WhatTable(entry)
<1>2. CASE what = "own"
  BY <1>2, GoSet DEF Repoint, Mapping
<1>3. CASE what # "own"
  <2>1. pc'[t] = "allocate" /\ reg'[t] = [reg[t] EXCEPT !.why = what, !.l1Entry = entry]
    BY <1>3, GoSet DEF Repoint
  <2>2. reg'[t].why = what
    BY <1>1, <2>1 DEF Local
  <2>3. reg'[t].why # "data"
    BY <2>2 DEF WhatTable
  <2>4. QED
    BY <2>1, <2>3 DEF Mapping
<1>4. QED
  BY <1>2, <1>3

LEMMA DeCacheKept ==
    ASSUME NEW t \in Writers, Lookup(t) \/ DeviceError(t) \/ StartWrite(t) \/ WriteStep(t)
    PROVE  deCache' = deCache \/ deCache' = <<>> \/ PlanReallocate(t)
  BY DEF Lookup, WriteStep, LookupL1, LookupL2, Undecodable, DeviceError, StartWrite, TakeWriteLock,
     PlanInPlace, WriteInPlace, Allocate, NoRoom, FlushAllocate, Fill, FlushFill, Repoint, Zero,
     FlushZero, CopyTable, FlushCopy, WriteL1, FlushL1, WriteEntry, FlushEntry, ForgetL2, ForgetData,
     WriteRelease, FlushRelease, ReleaseFails, NextChunk, EndWrite, FlushThen, memory

LEMMA PayloadWriter ==
    ASSUME Typed, Typed', Serial, CountsInv, PayloadInv, NEW t \in Writers,
           Lookup(t) \/ DeviceError(t) \/ StartWrite(t) \/ WriteStep(t)
    PROVE  PayloadInv'
<1>1. Descends(Stored, Stored') /\ Lineage(Stored)
  BY StepDescends DEF PayloadInv
<1>2. Lineage(Stored')
  BY <1>1, DescendsKeeps
<1>3. CacheDecodes(Stored', deCache')
  <2>1. CASE PlanReallocate(t)
    <3>1. Stored' = Stored
      BY <2>1 DEF PlanReallocate, Stored
    <3>2. QED
      BY <2>1, <3>1, PlanReallocateDecodes
  <2>2. CASE deCache' = <<>>
    BY <2>2 DEF CacheDecodes
  <2>3. CASE deCache' = deCache /\ deCache # <<>>
    <3>1. deCache[1] \in VCluster
      BY <2>3, TypedParts DEF StoreTyped, CachesTyped
    <3>2. QED
      BY <1>1, <2>3, <3>1, DescendsKeeps DEF PayloadInv
  <2>4. QED
    BY <2>1, <2>2, <2>3, DeCacheKept
<1>4. ASSUME NEW u \in Writers PROVE Mapping(Stored', pc'[u], reg'[u])
  <2>1. CASE u = t
    BY <2>1, LookupMapping, PlanInPlaceMapping, PlanReallocateDecodes, RepointMapping, LeavesPlanning,
       NotPlanning DEF Lookup, WriteStep, Flushes
  <2>2. CASE u # t /\ pc[u] \in {"idle", "lock"}
    <3>1. t \in Threads /\ u \in Threads
      BY TypedParts
    <3>2. pc'[u] = pc[u]
      BY <2>2, <3>1, OnlyOne
    <3>3. pc'[u] \notin Planning
      BY <2>2, <3>2 DEF Planning
    <3>4. QED
      BY <3>3, NotPlanning
  <2>3. CASE u # t /\ pc[u] \notin {"idle", "lock"}
    <3>1. writeLock = u
      BY <2>3 DEF Serial
    <3>2. pc[t] \in {"idle", "lock"}
      BY <2>3, <3>1 DEF Serial
    <3>3. t \in Threads /\ u \in Threads
      BY TypedParts
    <3>4. pc'[u] = pc[u] /\ reg'[u] = reg[u]
      BY <2>3, <3>3, OnlyOne
    <3>5. StartWrite(t)
      <4>1. ~TakeWriteLock(t)
        BY <2>3, <3>1, WriteAssumption DEF TakeWriteLock, LockFree, Threads
      <4>2. QED
        BY <3>2, <4>1 DEF Lookup, LookupL1, LookupL2, Undecodable, DeviceError, WriteSteps, FlushSteps,
           WriteStep, PlanInPlace, PlanReallocate, WriteInPlace, Allocate, NoRoom, FlushAllocate,
           Fill, FlushFill, Repoint, Zero, FlushZero, CopyTable, FlushCopy, WriteL1, FlushL1,
           WriteEntry, FlushEntry, ForgetL2, ForgetData, WriteRelease, FlushRelease,
           ReleaseFails, ReleaseSteps, NextChunk, EndWrite
    <3>6. Stored' = Stored
      BY <3>5, CalmStores DEF Calm
    <3>7. QED
      BY <3>4, <3>6 DEF PayloadInv
  <2>4. QED
    BY <2>1, <2>2, <2>3
<1>5. QED
  BY <1>2, <1>3, <1>4 DEF PayloadInv

LEMMA PayloadFlush ==
    ASSUME Typed, PayloadInv, Flush
    PROVE  PayloadInv'
<1>1. /\ Descends(Stored, Stored') /\ Within(Stored', Stored) /\ Steady(Stored, Stored')
      /\ UNCHANGED <<deCache, pc, reg>>
  BY FlushDescends DEF Flush, memory
<1>2. Lineage(Stored) /\ CacheDecodes(Stored, deCache)
  BY DEF PayloadInv
<1>3. deCache # <<>> => deCache[1] \in VCluster
  BY TypedParts DEF StoreTyped, CachesTyped
<1>4. Lineage(Stored') /\ CacheDecodes(Stored', deCache')
  <2>1. CASE deCache = <<>>
    BY <1>1, <1>2, <2>1, DescendsKeeps DEF CacheDecodes
  <2>2. CASE deCache # <<>>
    BY <1>1, <1>2, <1>3, <2>2, DescendsKeeps
  <2>3. QED
    BY <2>1, <2>2
<1>5. ASSUME NEW t \in Writers PROVE Mapping(Stored', pc[t], reg[t])
  <2>1. Mapping(Stored, pc[t], reg[t])
    BY DEF PayloadInv
  <2>2. Active(Stored', reg[t].map.host) \subseteq Active(Stored, reg[t].map.host)
    BY <1>1, WithinActive
  <2>3. Stored'.cache = Stored.cache /\ Stored'.dev.data = Stored.dev.data
    BY <1>1 DEF Steady
  <2>4. QED
    BY <2>1, <2>2, <2>3 DEF Mapping, FromCache
<1>6. QED
  BY <1>1, <1>4, <1>5 DEF PayloadInv

LEMMA PayloadCrash ==
    ASSUME Typed, PayloadInv, Crash
    PROVE  PayloadInv'
<1>1. dev' \in Survivors /\ Stored' = Left(dev') /\ deCache' = <<>>
  BY DEF Crash, Stored, Left
<1>2. Lineage(Stored')
  BY <1>1, LeftDescends, DescendsKeeps DEF PayloadInv
<1>3. \A t \in Writers : pc'[t] \notin Planning
  BY TypedParts DEF Crash, Idle, Planning
<1>4. QED
  BY <1>1, <1>2, <1>3, NotPlanning DEF PayloadInv, CacheDecodes

LEMMA PayloadInit ==
    ASSUME Init, Typed
    PROVE  PayloadInv
<1>1. IsStore(Stored) /\ Stored.dev = Stored.img.dev /\ Stored.durable = Stored.dev /\ AtRest(Stored)
  BY StoredTyped DEF Init, Stored, AtRest
<1>2. \A v \in VCluster, e \in L2Entry : Has(Stored, v, e) => e = Opened(Stored, v)
  BY <1>1, AtRestFacts DEF Opened
<1>3. Lineage(Stored)
  BY <1>1, <1>2 DEF Lineage, OnlyStandardMade, PayloadsKept, NoTwoReach
<1>4. \A t \in Writers : pc[t] \notin Planning
  BY TypedParts DEF Init, Idle, Planning
<1>5. QED
  BY <1>3, <1>4, NotPlanning DEF PayloadInv, CacheDecodes, Init

LEMMA PayloadNext ==
    ASSUME Readers = {}, Typed, Serial, CountsInv, PayloadInv, [Next]_vars
    PROVE  PayloadInv'
<1>1. Typed'
  BY NextTyped
<1>2. CASE UNCHANGED vars
  BY <1>2 DEF vars, memory, PayloadInv, Stored
<1>3. CASE Next
  BY <1>1, <1>3, PayloadWriter, PayloadFlush, PayloadCrash DEF Next, Threads
<1>4. QED
  BY <1>2, <1>3

LEMMA AlwaysDecodes ==
    ASSUME Readers = {}, \A image \in Images : SoundImage(image)
    PROVE  Spec => [](Typed /\ Serial /\ CountsInv /\ PayloadInv)
<1> DEFINE Inv == Typed /\ Serial /\ CountsInv /\ PayloadInv
<1>1. Init => Inv
  BY InitTyped, InitFine, PayloadInit
<1>2. Inv /\ [Next]_vars => Inv'
  BY NextTyped, NextFine, PayloadNext
<1>3. QED
  BY <1>1, <1>2, PTL DEF Spec

(* However damaged the tables of an image whose counts are in order, no    *)
(* step of read_at or write_at follows an offset past the end of the       *)
(* device, and write_at allocates nothing for a cluster whose compressed   *)
(* payload does not decode: plan_write has decoded it, or has its words in *)
(* the cache, and nothing written since has touched a payload.             *)
THEOREM DamageIsAlwaysRefused ==
    ASSUME Readers = {}, \A image \in Images : SoundImage(image)
    PROVE  Spec => []DamageIsRefused
<1>1. PayloadInv => PayloadsAreChecked
  BY DEF PayloadInv, Mapping, PayloadsAreChecked, Stored
<1>2. Spec => []PayloadInv
  BY AlwaysDecodes, PTL
<1>3. Spec => []OffsetsAreChecked
  BY OffsetsStayInside
<1>4. OffsetsAreChecked /\ PayloadsAreChecked => DamageIsRefused
  BY DEF DamageIsRefused
<1>5. QED
  BY <1>1, <1>2, <1>3, <1>4, PTL

(***************************************************************************)
(* What a step changes of the disk                                         *)
(***************************************************************************)
LEMMA NowIs ==
    ASSUME NEW s, NEW v \in VCluster
    PROVE  /\ v[1] \in L1Index /\ v[2] \in L2Index /\ v = <<v[1], v[2]>>
           /\ s.l1[v[1]].at \in Cluster => Now(s, v) = s.dev.table[s.l1[v[1]].at][v[2]]
           /\ s.l1[v[1]].at \notin Cluster => Now(s, v) = NoEntry
<1>1. v[1] \in L1Index /\ v[2] \in L2Index /\ v = <<v[1], v[2]>>
  BY DEF VCluster
<1>2. Now(s, v) = IF s.l1[v[1]].at \in Cluster THEN s.dev.table[s.l1[v[1]].at][v[2]] ELSE NoEntry
  BY <1>1 DEF Now, EntryAt, Targets
<1>3. QED
  BY <1>1, <1>2

LEMMA NowFacts ==
    ASSUME NEW s, IsStore(s), NEW v \in VCluster
    PROVE  /\ Now(s, v) \in L2Entry
           /\ IF s.l1[v[1]].at \in Cluster
              THEN Now(s, v) = s.dev.table[s.l1[v[1]].at][v[2]] /\ Names(s, v[1], s.l1[v[1]].at)
              ELSE Now(s, v) = NoEntry
           /\ Now(s, v) = NoEntry \/ Has(s, v, Now(s, v))
<1>1. v[1] \in L1Index /\ v[2] \in L2Index
  BY DEF VCluster
<1>2. /\ s.l1[v[1]].at \in Cluster => Now(s, v) = s.dev.table[s.l1[v[1]].at][v[2]]
      /\ s.l1[v[1]].at \notin Cluster => Now(s, v) = NoEntry
  BY NowIs
<1>3. Now(s, v) \in L2Entry
  <2>1. s.dev.table \in [Cluster -> [L2Index -> L2Entry]]
    BY DEF IsStore, Device
  <2>2. QED
    BY <1>1, <1>2, <2>1, EntriesTyped
<1>4. Names(s, v[1], s.l1[v[1]].at)
  BY DEF Names, Roots
<1>5. QED
  BY <1>2, <1>3, <1>4 DEF Has

LEMMA NowReaches ==
    ASSUME NEW s, IsStore(s), NEW v \in VCluster, NEW c \in Cluster, Reaches(Now(s, v), c)
    PROVE  Has(s, v, Now(s, v)) /\ v \in Active(s, c)
<1>1. Now(s, v) # NoEntry
  BY EntryForFacts
<1>2. QED
  BY <1>1, NowFacts, ActiveFacts

LEMMA ViewAt ==
    ASSUME NEW s, NEW v \in VCluster, NEW w \in Word
    PROVE  ViewOf(s)[<<v, w>>] =
               IF LastOf(Now(s, v)) >= Outside THEN 0
               ELSE ClusterWords(s.dev.data, s.img.backing, v, MapOf(Now(s, v), FALSE))[w]
<1>1. <<v, w>> \in VWord
  BY DEF VWord
<1>2. MapOf(Now(s, v), FALSE).last = LastOf(Now(s, v))
  BY DEF MapOf
<1>3. QED
  BY <1>1, <1>2 DEF ViewOf, ViewThrough, Now

(* The same words are where a mapping goes, or nothing is read there.      *)
LEMMA WordsSame ==
    ASSUME NEW data, NEW other, NEW backing, NEW v, NEW map \in ClusterMap,
           map.case = "Plain" => data[map.host] = other[map.host],
           map.case = "Compressed" =>
               data[map.host] = other[map.host] /\ data[map.last] = other[map.last]
    PROVE  ClusterWords(data, backing, v, map) = ClusterWords(other, backing, v, map)
<1>1. map.case = "Compressed" => Decompressed(data, map) = Decompressed(other, map)
  BY PayloadSame
<1>2. CASE map.case = "Plain"
  BY <1>2 DEF ClusterWords
<1>3. CASE map.case = "Compressed"
  BY <1>1, <1>3 DEF ClusterWords
<1>4. CASE map.case = "Zero"
  BY <1>4 DEF ClusterWords
<1>5. CASE map.case = "Unallocated"
  BY <1>5 DEF ClusterWords
<1>6. QED
  BY <1>2, <1>3, <1>4, <1>5, MapFacts

LEMMA WordsOfEither ==
    ASSUME NEW data, NEW backing, NEW v, NEW m \in ClusterMap, NEW n \in ClusterMap,
           m.case = n.case, m.host = n.host, m.last = n.last, m.part = n.part
    PROVE  ClusterWords(data, backing, v, m) = ClusterWords(data, backing, v, n)
<1>1. Decompressed(data, m) = Decompressed(data, n)
  BY PayloadPlace
<1>2. CASE m.case = "Plain"
  BY <1>2 DEF ClusterWords
<1>3. CASE m.case = "Compressed"
  BY <1>1, <1>3 DEF ClusterWords
<1>4. CASE m.case = "Zero"
  BY <1>4 DEF ClusterWords
<1>5. CASE m.case = "Unallocated"
  BY <1>5 DEF ClusterWords
<1>6. QED
  BY <1>2, <1>3, <1>4, <1>5, MapFacts

(* An entry's own clusters are all it is read from.                        *)
LEMMA LooksAlike ==
    ASSUME NEW s, NEW x, IsStore(s), x.img = s.img, NEW v \in VCluster, Now(x, v) = Now(s, v),
           \A c \in Cluster : Reaches(Now(s, v), c) => x.dev.data[c] = s.dev.data[c],
           NEW w \in Word
    PROVE  ViewOf(x)[<<v, w>>] = ViewOf(s)[<<v, w>>]
<1> DEFINE e == Now(s, v)
           m == MapOf(e, FALSE)
<1>1. e \in L2Entry
  BY NowFacts
<1>2. m.host = e.at /\ m.last = LastOf(e) /\ m \in ClusterMap
  BY <1>1, MapTyped DEF MapOf
<1>3. ViewOf(x)[<<v, w>>] = IF LastOf(e) >= Outside THEN 0
                            ELSE ClusterWords(x.dev.data, s.img.backing, v, m)[w]
  <2>1. ViewOf(x)[<<v, w>>] =
            IF LastOf(Now(x, v)) >= Outside THEN 0
            ELSE ClusterWords(x.dev.data, x.img.backing, v, MapOf(Now(x, v), FALSE))[w]
    BY ViewAt
  <2>2. Now(x, v) = e /\ x.img.backing = s.img.backing
    OBVIOUS
  <2> HIDE DEF e
  <2>3. QED
    BY <2>1, <2>2
<1>4. ViewOf(s)[<<v, w>>] = IF LastOf(e) >= Outside THEN 0
                            ELSE ClusterWords(s.dev.data, s.img.backing, v, m)[w]
  BY ViewAt
<1>5. CASE LastOf(e) >= Outside
  BY <1>3, <1>4, <1>5
<1>6. CASE ~(LastOf(e) >= Outside)
  <2>1. m.case \in {"Plain", "Compressed"} => m.host \in Cluster /\ m.last \in Cluster
    <3>1. /\ m.host \in Offset /\ m.last \in {m.host, m.host + 1}
          /\ m.case \in {"Compressed", "Plain"} => m.host # None
      BY <1>2, MapFacts
    <3>2. ~(m.last >= Outside)
      BY <1>2, <1>6
    <3> HIDE DEF m, e
    <3>3. QED
      BY <3>1, <3>2, Numbers DEF Cluster, Offset, None, Outside
  <2>2. m.case \in {"Plain", "Compressed"} =>
            x.dev.data[m.host] = s.dev.data[m.host] /\ x.dev.data[m.last] = s.dev.data[m.last]
    BY <1>2, <2>1 DEF Reaches
  <2> HIDE DEF m, e
  <2>3. ClusterWords(x.dev.data, s.img.backing, v, m) = ClusterWords(s.dev.data, s.img.backing, v, m)
    BY <1>2, <2>2, WordsSame
  <2>4. QED
    BY <1>3, <1>4, <2>3
<1>7. QED
  BY <1>5, <1>6

(* A step no lookup and no read of the disk can tell.                      *)
SameNow(s, x) == \A v \in VCluster : Now(x, v) = Now(s, v)

Unseen(s, x) == x.img = s.img /\ SameNow(s, x) /\ ViewOf(x) = ViewOf(s)

LEMMA ViewFunction ==
    ASSUME NEW s, NEW x, \A v \in VCluster, w \in Word : ViewOf(x)[<<v, w>>] = ViewOf(s)[<<v, w>>]
    PROVE  ViewOf(x) = ViewOf(s)
<1>1. \A y \in VWord : ViewOf(x)[y] = ViewOf(s)[y]
  BY DEF VWord
<1>2. ViewOf(x) = [y \in VWord |-> ViewOf(x)[y]] /\ ViewOf(s) = [y \in VWord |-> ViewOf(s)[y]]
  BY DEF ViewOf, ViewThrough
<1>3. QED
  BY <1>1, <1>2

LEMMA UnseenBy ==
    ASSUME NEW s, NEW x, IsStore(s), x.img = s.img, SameNow(s, x),
           \A v \in VCluster : \A c \in Cluster : Reaches(Now(s, v), c) => x.dev.data[c] = s.dev.data[c]
    PROVE  Unseen(s, x)
<1>1. \A v \in VCluster, w \in Word : ViewOf(x)[<<v, w>>] = ViewOf(s)[<<v, w>>]
  BY LooksAlike DEF SameNow
<1>2. QED
  BY <1>1, ViewFunction DEF Unseen

LEMMA TablesNow ==
    ASSUME NEW s, NEW x, x.l1 = s.l1, x.dev.table = s.dev.table
    PROVE  SameNow(s, x)
<1>1. ASSUME NEW v \in VCluster PROVE Now(x, v) = Now(s, v)
  <2>1. /\ x.l1[v[1]].at \in Cluster => Now(x, v) = x.dev.table[x.l1[v[1]].at][v[2]]
        /\ x.l1[v[1]].at \notin Cluster => Now(x, v) = NoEntry
    BY NowIs
  <2>2. /\ s.l1[v[1]].at \in Cluster => Now(s, v) = s.dev.table[s.l1[v[1]].at][v[2]]
        /\ s.l1[v[1]].at \notin Cluster => Now(s, v) = NoEntry
    BY NowIs
  <2>3. QED
    BY <2>1, <2>2
<1>2. QED
  BY <1>1 DEF SameNow

LEMMA StepUnseen ==
    ASSUME Typed, Typed', Serial, CountsInv, ProgressInv, NEW t \in Writers,
           Lookup(t) \/ DeviceError(t) \/ StartWrite(t) \/ WriteStep(t),
           ~WriteInPlace(t), ~WriteEntry(t)
    PROVE  Unseen(Stored, Stored')
<1> DEFINE s == Stored
           x == Stored'
           r == reg[t]
           i == reg[t].at[1]
<1>1. IsStore(s) /\ IsStore(x)
  BY StoredTyped, StoredNext
<1>2. CASE Calm(t) \/ Flushes(t) \/ Allocate(t) \/ WriteRelease(t)
  <2>1. Steady(s, x)
    BY <1>2, StepsSteady
  <2> HIDE DEF s, x
  <2>2. Unseen(s, x)
    <3>1. x.img = s.img /\ SameNow(s, x) /\ x.dev.data = s.dev.data
      BY <2>1, TablesNow DEF Steady
    <3>2. QED
      BY <1>1, <3>1, UnseenBy
  <2>3. QED
    BY <2>2 DEF s, x
<1>3. CASE LookupL2(t) \/ ForgetL2(t)
  <2>1. Recached(s, x)
    BY <1>3, CacheChanges
  <2> HIDE DEF s, x
  <2>2. Unseen(s, x)
    <3>1. x.img = s.img /\ SameNow(s, x) /\ x.dev.data = s.dev.data
      BY <2>1, TablesNow DEF Recached
    <3>2. QED
      BY <1>1, <3>1, UnseenBy
  <2>3. QED
    BY <2>2 DEF s, x
<1>4. CASE Fill(t)
  <2> DEFINE n == reg[t].new
  <2>1. n \in Cluster /\ \E words : DataWritten(s, x, n, words)
    BY <1>4, FillWrites
  <2>2. pc[t] = "fill"
    BY <1>4 DEF Fill
  <2>3. Active(s, n) = {}
    BY <2>2, Begin DEF Working, HasNew, FilledSteps, Unused, Taken
  <2> HIDE DEF s, x, n
  <2>4. \A v \in VCluster : \A c \in Cluster : Reaches(Now(s, v), c) => c # n
    BY <1>1, <2>3, NowReaches
  <2>5. Unseen(s, x)
    <3>1. x.img = s.img /\ SameNow(s, x) /\ \A c \in Cluster : c # n => x.dev.data[c] = s.dev.data[c]
      BY <2>1, TablesNow DEF DataWritten
    <3>2. QED
      BY <1>1, <2>4, <3>1, UnseenBy
  <2>6. QED
    BY <2>5 DEF s, x
<1>5. CASE Zero(t) \/ CopyTable(t)
  <2> DEFINE T == reg[t].table
  <2>1. T \in Cluster /\ \E row : RowWritten(s, x, T, row)
    BY <1>5, RowWrites
  <2>2. pc[t] \in {"zero", "copy"}
    BY <1>5 DEF Zero, CopyTable
  <2>3. Active(s, T) = {}
    BY <2>2, Begin DEF Working, ShadowSteps, Unused, Taken
  <2> HIDE DEF s, x, T
  <2>4. \A k \in L1Index : s.l1[k].at # T
    BY <2>3, ActiveFacts DEF Names, Roots
  <2>5. SameNow(s, x)
    <3> SUFFICES ASSUME NEW v \in VCluster PROVE Now(x, v) = Now(s, v)
      BY DEF SameNow
    <3>1. v[1] \in L1Index /\ v[2] \in L2Index
      BY DEF VCluster
    <3>2. x.l1 = s.l1 /\ \A a \in Cluster : a # T => x.dev.table[a] = s.dev.table[a]
      BY <2>1 DEF RowWritten
    <3>3. s.l1[v[1]].at # T
      BY <2>4, <3>1
    <3>4. /\ x.l1[v[1]].at \in Cluster => Now(x, v) = x.dev.table[x.l1[v[1]].at][v[2]]
          /\ x.l1[v[1]].at \notin Cluster => Now(x, v) = NoEntry
      BY NowIs
    <3>5. /\ s.l1[v[1]].at \in Cluster => Now(s, v) = s.dev.table[s.l1[v[1]].at][v[2]]
          /\ s.l1[v[1]].at \notin Cluster => Now(s, v) = NoEntry
      BY NowIs
    <3>6. QED
      BY <3>2, <3>3, <3>4, <3>5
  <2>6. Unseen(s, x)
    BY <1>1, <2>1, <2>5, UnseenBy DEF RowWritten
  <2>7. QED
    BY <2>6 DEF s, x
<1>6. CASE WriteL1(t)
  <2>1. \E T : RootWritten(s, x, i, T)
    BY <1>6, RootWrites
  <2> HIDE DEF s, x, i
  <2>2. Unseen(s, x)
    <3>1. x.img = s.img /\ SameNow(s, x) /\ x.dev.data = s.dev.data
      BY <2>1, TablesNow DEF RootWritten
    <3>2. QED
      BY <1>1, <3>1, UnseenBy
  <2>3. QED
    BY <2>2 DEF s, x
<1>7. CASE FlushL1(t)
  <2> DEFINE T == reg[t].table
  <2>1. RootFollowed(s, x, i, T)
    BY <1>7, RootWrites
  <2>2. pc[t] = "l1Flush"
    BY <1>7 DEF FlushL1
  <2>3. T \in Cluster /\ i \in L1Index
    BY <2>2, Begin DEF Working
  <2>4. \A j \in L2Index : s.dev.table[T][j] = Now(s, <<i, j>>)
    BY <2>2 DEF ProgressInv, Going, RowNow
  <2> HIDE DEF s, x, T, i
  <2>5. SameNow(s, x)
    <3> SUFFICES ASSUME NEW v \in VCluster PROVE Now(x, v) = Now(s, v)
      BY DEF SameNow
    <3>1. v[1] \in L1Index /\ v[2] \in L2Index /\ v = <<v[1], v[2]>>
      BY DEF VCluster
    <3>2. x.dev = s.dev /\ x.l1[i] = L1EntryFor(T) /\ \A k \in L1Index : k # i => x.l1[k] = s.l1[k]
      BY <2>1 DEF RootFollowed
    <3>3. CASE v[1] = i
      <4>1. x.l1[i].at = T
        BY <2>3, <3>2, EntryForFacts
      <4>2. Now(x, v) = s.dev.table[T][v[2]]
        BY <1>1, <2>3, <3>2, <3>3, <4>1, NowFacts
      <4>3. QED
        BY <2>4, <3>1, <3>3, <4>2
    <3>4. CASE v[1] # i
      <4>1. x.l1[v[1]] = s.l1[v[1]]
        BY <3>1, <3>2, <3>4
      <4>2. /\ x.l1[v[1]].at \in Cluster => Now(x, v) = x.dev.table[x.l1[v[1]].at][v[2]]
            /\ x.l1[v[1]].at \notin Cluster => Now(x, v) = NoEntry
        BY NowIs
      <4>3. /\ s.l1[v[1]].at \in Cluster => Now(s, v) = s.dev.table[s.l1[v[1]].at][v[2]]
            /\ s.l1[v[1]].at \notin Cluster => Now(s, v) = NoEntry
        BY NowIs
      <4>4. QED
        BY <3>2, <4>1, <4>2, <4>3
    <3>5. QED
      BY <3>3, <3>4
  <2>6. Unseen(s, x)
    BY <1>1, <2>1, <2>5, UnseenBy DEF RootFollowed
  <2>7. QED
    BY <2>6 DEF s, x
<1>8. QED
  BY <1>2, <1>3, <1>4, <1>5, <1>6, <1>7 DEF Lookup, WriteStep, Calm, Flushes

(***************************************************************************)
(* While no device call fails                                              *)
(***************************************************************************)
(* The steps at which nothing is asked of what a writer carries.           *)
Carefree == {"idle", "lock", "l1", "l2", "next", "entryFlush", "forgetL2", "forgetData"}

LEMMA StepKinds ==
    ASSUME NEW r
    PROVE  /\ \A step \in {"plan", "inPlace"} :
                ~HasNew(step, r) /\ ~Copying(step, r) /\ step \notin ReleaseSteps
           /\ \A step \in {"allocate", "allocateFlush"} :
                /\ Copying(step, r) /\ step \notin ReleaseSteps
                /\ HasNew(step, r) <=> r.why # "data"
           /\ \A step \in FilledSteps :
                HasNew(step, r) /\ Copying(step, r) /\ step \notin ReleaseSteps
           /\ \A step \in ReleaseSteps :
                /\ HasNew(step, r) <=> r.why = "copy"
                /\ Copying(step, r) <=> r.why = "copy"
  BY DEF HasNew, Copying, FilledSteps, ShadowSteps, ReleaseSteps, ForTable, AfterCopy

LEMMA CarefreeGoing ==
    ASSUME NEW s, NEW step \in Carefree, NEW r
    PROVE  Going(s, step, r)
<1>1. ~HasNew(step, r) /\ ~Copying(step, r) /\ step \notin ReleaseSteps
  BY DEF Carefree, HasNew, Copying, FilledSteps, ShadowSteps, ReleaseSteps, ForTable, AfterCopy
<1>2. QED
  BY <1>1 DEF Carefree, Going

(* What a writer carries stays true while no lookup and no read can tell.  *)
LEMMA Carried ==
    ASSUME NEW s, NEW x, NEW r, NEW q, Unseen(s, x), r.at \in VCluster,
           q.at = r.at, q.map = r.map
    PROVE  /\ FindsNow(s, r) => FindsNow(x, q)
           /\ q.old = r.old /\ q.full = r.full /\ q.range = r.range /\ q.val = r.val
              /\ Seeded(s, r) => Seeded(x, q)
           /\ q.table = r.table /\ x.dev.table[r.table] = s.dev.table[r.table] /\ RowNow(s, r) =>
                RowNow(x, q)
<1>1. Now(x, r.at) = Now(s, r.at) /\ ViewOf(x) = ViewOf(s)
  BY DEF Unseen, SameNow
<1>2. FindsNow(s, r) => FindsNow(x, q)
  BY <1>1 DEF FindsNow
<1>3. ASSUME q.old = r.old, q.full = r.full, q.range = r.range, q.val = r.val, Seeded(s, r)
      PROVE  Seeded(x, q)
  BY <1>1, <1>3 DEF Seeded
<1>4. ASSUME q.table = r.table, x.dev.table[r.table] = s.dev.table[r.table], RowNow(s, r)
      PROVE  RowNow(x, q)
  <2>1. \A j \in L2Index : <<r.at[1], j>> \in VCluster
    BY DEF VCluster
  <2>2. \A j \in L2Index : Now(x, <<r.at[1], j>>) = Now(s, <<r.at[1], j>>)
    BY <2>1 DEF Unseen, SameNow
  <2>3. QED
    BY <1>4, <2>2 DEF RowNow
<1>5. QED
  BY <1>2, <1>3, <1>4

(* A writer past its mapping, whose locals but for the table and the why   *)
(* stay.                                                                   *)
SameCopy(r, q) ==
    /\ q.at = r.at /\ q.map = r.map /\ q.old = r.old /\ q.full = r.full
    /\ q.range = r.range /\ q.val = r.val

LEMMA CarriedCopy ==
    ASSUME NEW s, NEW x, NEW r, NEW q, Unseen(s, x), r.at \in VCluster, SameCopy(r, q),
           FindsNow(s, r), Seeded(s, r)
    PROVE  FindsNow(x, q) /\ Seeded(x, q)
  BY Carried DEF SameCopy

(* No device call has failed, nor does this one.                           *)
LEMMA NoFault ==
    ASSUME Typed, faults' = 0
    PROVE  ~Fault /\ (faults' = faults \/ Fault => faults = 0)
<1>1. faults \in Nat
  BY WriteAssumption DEF Typed, TypeOK
<1>2. QED
  BY <1>1 DEF Fault

LEMMA LeavesCarefree ==
    ASSUME Typed, NEW t \in Writers, faults' = 0,
           \/ Undecodable(t) \/ DeviceError(t) \/ StartWrite(t) \/ TakeWriteLock(t) \/ NoRoom(t)
           \/ NextChunk(t) \/ EndWrite(t) \/ WriteEntry(t) \/ FlushEntry(t) \/ ForgetL2(t)
           \/ WriteInPlace(t)
    PROVE  pc'[t] \in Carefree
<1>1. \A step : Go(t, step) => pc'[t] = step
  BY GoSet
<1>2. Leave(t) => pc'[t] = "idle"
  BY <1>1 DEF Leave
<1>3. QED
  BY <1>1, <1>2 DEF Carefree, Undecodable, DeviceError, StartWrite, TakeWriteLock, NoRoom, NextChunk,
     EndWrite, WriteEntry, FlushEntry, ForgetL2, WriteInPlace, Written, WrittenTo, FlushThen

GoingOn(t) == Going(Stored', pc'[t], reg'[t])

LEMMA PlanGoing ==
    ASSUME NEW s, NEW r, FindsNow(s, r)
    PROVE  Going(s, "plan", r) /\ Going(s, "inPlace", r)
<1>1. \A step \in {"plan", "inPlace"} :
          ~HasNew(step, r) /\ ~Copying(step, r) /\ step \notin ReleaseSteps
  BY StepKinds
<1>2. QED
  BY <1>1 DEF Going

LEMMA LookupL1Going ==
    ASSUME Typed, NEW t \in Writers, LookupL1(t)
    PROVE  GoingOn(t)
<1> DEFINE r == reg[t]
           q == reg'[t]
           s == Stored
           v == reg[t].at
<1>1. Leave(t) => pc'[t] = "idle"
  BY GoSet DEF Leave
<1>2. CASE Leave(t)
  BY <1>1, <1>2, CarefreeGoing DEF GoingOn, Carefree
<1>3. CASE /\ Set(t, [r EXCEPT !.l1Entry = l1[v[1]], !.map = Unallocated])
           /\ Go(t, IF l1[v[1]].at = None THEN Looked(t) ELSE "l2")
  <2>1. r \in Local /\ v \in VCluster /\ IsStore(s) /\ s' = s
    BY TypedParts, StoredTyped DEF Local, LookupL1, Stored, memory
  <2>2. q.at = v /\ q.map = Unallocated
    <3>1. q = [r EXCEPT !.l1Entry = l1[v[1]], !.map = Unallocated]
      BY <1>3, GoSet
    <3>2. QED
      BY <2>1, <3>1 DEF Local
  <2>3. CASE l1[v[1]].at = None
    <3>1. pc'[t] = "plan" /\ s.l1[v[1]].at \notin Cluster
      BY <1>3, <2>3, GoSet, Numbers DEF Looked, Stored
    <3>2. Now(s, v) = NoEntry
      BY <2>1, <3>1, NowIs
    <3>3. FindsNow(s', q)
      BY <2>1, <2>2, <3>2 DEF FindsNow, Unallocated
    <3>4. QED
      BY <3>1, <3>3, PlanGoing DEF GoingOn
  <2>4. CASE l1[v[1]].at # None
    <3>1. pc'[t] = "l2"
      BY <1>3, <2>4, GoSet
    <3>2. QED
      BY <3>1, CarefreeGoing DEF GoingOn, Carefree
  <2>5. QED
    BY <2>3, <2>4
<1>4. QED
  BY <1>2, <1>3 DEF LookupL1

(* Between its lookup and its entry the writer at work finds the cache as  *)
(* good as the device.                                                     *)
LEMMA NothingStale ==
    ASSUME Serial, NEW t \in Writers, pc[t] \notin {"idle", "lock", "entryFlush", "forgetL2"}
    PROVE  StaleAt = {}
<1>1. \A u \in Writers : pc[u] \notin {"entryFlush", "forgetL2"}
  BY DEF Serial
<1>2. QED
  BY <1>1 DEF StaleAt

(* The table memory names, loaded or found in the cache.                   *)
LEMMA CachedNow ==
    ASSUME Typed, Serial, CountsInv, ProgressInv, NEW t \in Writers, pc[t] = "l2"
    PROVE  LET cache == Cached(reg[t].at[1], reg[t].l1Entry.at) IN
           /\ cache # <<>> /\ cache[1] = reg[t].at[1]
           /\ \A v \in VCluster : v[1] = reg[t].at[1] => cache[2][v[2]] = Now(Stored, v)
<1> DEFINE i == reg[t].at[1]
           T == reg[t].l1Entry.at
           s == Stored
           cache == Cached(i, T)
<1>1. T \in Cluster /\ s.l1[i].at = T
  BY Begin DEF Working, LocalsGood, GoodAt
<1>2. StaleAt = {}
  BY NothingStale
<1>3. CacheFresh(s, {})
  BY <1>2 DEF ProgressInv
<1>4. cache = IF s.cache # <<>> /\ s.cache[1] = i THEN s.cache ELSE <<i, s.dev.table[T]>>
  BY DEF Cached, Stored
<1> HIDE DEF s, cache, T, i
<1>5. CASE s.cache # <<>> /\ s.cache[1] = i
  BY <1>3, <1>4, <1>5 DEF CacheFresh, cache, i, T, s
<1>6. CASE ~(s.cache # <<>> /\ s.cache[1] = i)
  <2>1. cache = <<i, s.dev.table[T]>>
    BY <1>4, <1>6
  <2>2. \A v \in VCluster : v[1] = i => s.dev.table[T][v[2]] = Now(s, v)
    BY <1>1, NowIs
  <2>3. cache # <<>> /\ cache[1] = i /\ cache[2] = s.dev.table[T]
    BY <2>1
  <2>4. QED
    BY <2>2, <2>3 DEF cache, i, T, s
<1>7. QED
  BY <1>5, <1>6 DEF cache, i, T, s

LEMMA LookupL2Going ==
    ASSUME Typed, Typed', Serial, CountsInv, ProgressInv, NEW t \in Writers, LookupL2(t)
    PROVE  GoingOn(t)
<1> DEFINE r == reg[t]
           q == reg'[t]
           v == reg[t].at
           cache == Cached(v[1], r.l1Entry.at)
           map == MapOf(cache[2][v[2]], r.l1Entry.copied)
<1>1. Leave(t) => pc'[t] = "idle"
  BY GoSet DEF Leave
<1>2. CASE Leave(t)
  BY <1>1, <1>2, CarefreeGoing DEF GoingOn, Carefree
<1>3. CASE Set(t, [r EXCEPT !.map = map]) /\ Go(t, Looked(t))
  <2>1. pc[t] = "l2" /\ pc'[t] = "plan" /\ q = [r EXCEPT !.map = map]
    BY <1>3, GoSet DEF LookupL2, Looked
  <2>2. r \in Local /\ v \in VCluster /\ r.l1Entry.copied \in BOOLEAN
    BY TypedParts DEF Local, L1Entry
  <2>3. cache[2][v[2]] = Now(Stored, v)
    BY <2>1, <2>2, CachedNow
  <2>4. Unseen(Stored, Stored')
    <3>1. ~WriteInPlace(t) /\ ~WriteEntry(t)
      BY <2>1 DEF WriteInPlace, WriteEntry
    <3>2. QED
      BY <3>1, StepUnseen DEF Lookup
  <2>5. q.at = v /\ q.map = map
    BY <2>1, <2>2 DEF Local
  <2>6. FindsNow(Stored', q)
    BY <2>2, <2>3, <2>4, <2>5 DEF FindsNow, Unseen, SameNow
  <2>7. QED
    BY <2>1, <2>6, PlanGoing DEF GoingOn
<1>4. QED
  BY <1>2, <1>3 DEF LookupL2

(* The words of a mapping are the view's, wherever the entry lies.         *)
LEMMA WordsAreView ==
    ASSUME NEW s, IsStore(s), NEW r, r.at \in VCluster, r.map \in ClusterMap, FindsNow(s, r),
           NEW len \in 0 .. Clusters, Placed(r.map, len), NEW w \in Word
    PROVE  ViewOf(s)[<<r.at, w>>] = ClusterWords(s.dev.data, s.img.backing, r.at, r.map)[w]
<1> DEFINE v == r.at
           e == Now(s, r.at)
           m == MapOf(e, FALSE)
           map == r.map
<1>1. e \in L2Entry
  BY NowFacts
<1>2. PICK b \in BOOLEAN : map = MapOf(e, b)
  BY DEF FindsNow
<1>3. ViewOf(s)[<<v, w>>] = IF LastOf(e) >= Outside THEN 0
                            ELSE ClusterWords(s.dev.data, s.img.backing, v, m)[w]
  BY ViewAt
<1> HIDE DEF e
<1>4. m \in ClusterMap /\ m.case = map.case /\ m.host = map.host /\ m.last = map.last /\ m.part = map.part
      /\ map.last = LastOf(e)
  <2>1. m \in ClusterMap
    BY <1>1, MapTyped
  <2>2. /\ m.case = MapOf(e, b).case /\ m.host = MapOf(e, b).host /\ m.last = MapOf(e, b).last
        /\ m.part = MapOf(e, b).part /\ MapOf(e, b).last = LastOf(e)
    BY DEF MapOf
  <2>3. QED
    BY <1>2, <2>1, <2>2
<1> HIDE DEF m, map, v
<1>5. ClusterWords(s.dev.data, s.img.backing, v, m) = ClusterWords(s.dev.data, s.img.backing, v, map)
  BY <1>4, WordsOfEither DEF map
<1>6. CASE LastOf(e) >= Outside
  <2>1. ~(map.last <= len)
    <3>1. map.last \in Nat
      BY <1>4, MapFacts DEF Offset, map
    <3>2. QED
      BY <1>4, <1>6, <3>1, Numbers DEF Outside
  <2>2. map.case = "Zero"
    BY <2>1 DEF Placed, map
  <2>3. ClusterWords(s.dev.data, s.img.backing, v, map)[w] = 0
    BY <2>2 DEF ClusterWords
  <2>4. QED
    BY <1>3, <1>6, <2>3 DEF v, map
<1>7. CASE ~(LastOf(e) >= Outside)
  BY <1>3, <1>5, <1>7 DEF v, map
<1>8. QED
  BY <1>6, <1>7

LEMMA SeedIsView ==
    ASSUME Typed, Serial, CountsInv, PayloadInv, NEW t \in Writers, pc[t] = "plan",
           FindsNow(Stored, reg[t]), NEW w \in Word
    PROVE  Seed(reg[t].at, reg[t].map)[w] = ViewOf(Stored)[<<reg[t].at, w>>]
<1> DEFINE r == reg[t]
           s == Stored
           map == reg[t].map
<1>1. /\ r \in Local /\ map \in ClusterMap /\ IsStore(s) /\ Placed(map, imageLen) /\ r.at \in VCluster
      /\ imageLen \in 0 .. Clusters
  BY Begin, TypedParts DEF LocalsGood, GoodAt
<1>2. FromCache(s, r) /\ Lineage(s) /\ CacheDecodes(s, deCache)
  BY DEF PayloadInv, Mapping
<1>3. ViewOf(s)[<<r.at, w>>] = ClusterWords(s.dev.data, s.img.backing, r.at, map)[w]
  BY <1>1, WordsAreView
<1>4. s.dev.data = dev.data /\ s.img = img
  BY DEF Stored
<1>5. CASE map.case = "Compressed" /\ DeCached(r.at)
  <2> DEFINE e == s.cache[2][r.at[2]]
             once == MapOf(e, FALSE)
             was == s.img.dev.data
  <2>1. /\ e \in L2Entry /\ Has(s, r.at, e) /\ IsPayload(e)
        /\ Decompressed(s.dev.data, map) = Decompressed(was, once)
    <3>1. /\ e \in L2Entry /\ Has(s, r.at, e) /\ IsPayload(e)
          /\ \A f \in L2Entry : Has(s, r.at, f) /\ IsPayload(f) => f = e
          /\ \A data \in {s.dev.data, s.img.dev.data} :
                /\ Decodes(data, map) <=> Decodes(was, once)
                /\ Decompressed(data, map) = Decompressed(was, once)
      BY <1>1, <1>2, <1>5, PayloadFound
    <3>2. QED
      BY <3>1
  <2>2. deCache # <<>> /\ deCache[1] = r.at
    BY <1>5 DEF DeCached
  <2> HIDE DEF e
  <2>3. deCache[2] = Decompressed(was, once)
    BY <1>2, <2>1, <2>2 DEF CacheDecodes
  <2>4. ClusterWords(s.dev.data, s.img.backing, r.at, map) = Decompressed(s.dev.data, map)
    BY <1>5 DEF ClusterWords
  <2>5. Seed(r.at, map) = deCache[2]
    BY <1>5 DEF Seed
  <2>6. QED
    BY <1>3, <2>1, <2>3, <2>4, <2>5
<1>6. CASE ~(map.case = "Compressed" /\ DeCached(r.at))
  BY <1>3, <1>4, <1>6 DEF Seed
<1>7. QED
  BY <1>5, <1>6

LEMMA PlanReallocateGoing ==
    ASSUME Typed, Serial, CountsInv, PayloadInv, ProgressInv, NEW t \in Writers, PlanReallocate(t)
    PROVE  GoingOn(t)
<1> DEFINE r == reg[t]
           q == reg'[t]
           s == Stored
           v == reg[t].at
           map == reg[t].map
           full == Spliced(Seed(v, map), r.range, v, r.val)
<1>1. pc[t] = "plan" /\ pc'[t] = "allocate" /\ s' = s
  BY GoSet DEF PlanReallocate, Stored
<1>2. q = [r EXCEPT !.full = full, !.old = ReleaseOf(map), !.why = "data"]
  BY GoSet DEF PlanReallocate
<1>3. r \in Local /\ v \in VCluster
  BY <1>1, Begin
<1> HIDE DEF full
<1>4. /\ q.at = v /\ q.map = map /\ q.old = ReleaseOf(map) /\ q.full = full /\ q.why = "data"
      /\ q.range = r.range /\ q.val = r.val
  BY <1>2, <1>3 DEF Local
<1>5. FindsNow(s, r)
  BY <1>1 DEF ProgressInv, Going
<1>6. \A w \in Word : Seed(v, map)[w] = ViewOf(s)[<<v, w>>]
  BY <1>1, <1>5, SeedIsView
<1>7. FindsNow(s, q)
  BY <1>4, <1>5 DEF FindsNow
<1>8. Seeded(s, q)
  BY <1>4, <1>6 DEF Seeded, full, Spliced
<1>9. ~HasNew("allocate", q)
  BY <1>4, StepKinds
<1>10. Going(s, "allocate", q)
  BY <1>7, <1>8, <1>9 DEF Going, ReleaseSteps
<1>11. QED
  BY <1>1, <1>10 DEF GoingOn

(***************************************************************************)
(* From the plan to the entry                                              *)
(***************************************************************************)
LEMMA Carrying ==
    ASSUME Typed, ProgressInv, NEW t \in Writers, Unseen(Stored, Stored'),
           Copying(pc[t], reg[t]), SameCopy(reg[t], reg'[t])
    PROVE  FindsNow(Stored', reg'[t]) /\ Seeded(Stored', reg'[t])
<1> DEFINE s == Stored
           x == Stored'
           r == reg[t]
           q == reg'[t]
<1>1. Going(s, pc[t], r) /\ r.at \in VCluster
  BY TypedParts DEF ProgressInv, Local
<1>2. FindsNow(s, r) /\ Seeded(s, r)
  BY <1>1 DEF Going
<1> HIDE DEF s, x, r, q
<1>3. FindsNow(x, q) /\ Seeded(x, q)
  BY <1>1, <1>2, CarriedCopy DEF s, x, r, q
<1>4. QED
  BY <1>3 DEF x, q

LEMMA SameIsCopy ==
    ASSUME NEW r \in Local
    PROVE  /\ SameCopy(r, r)
           /\ \A c : SameCopy(r, [r EXCEPT !.new = c]) /\ SameCopy(r, [r EXCEPT !.table = c])
           /\ \A why : SameCopy(r, [r EXCEPT !.why = why])
           /\ \A why, e : SameCopy(r, [r EXCEPT !.why = why, !.l1Entry = e])
  BY DEF SameCopy, Local

LEMMA AllocateGoing ==
    ASSUME Typed, Typed', Serial, CountsInv, ProgressInv, NEW t \in Writers, Allocate(t), faults' = 0
    PROVE  GoingOn(t)
<1> DEFINE r == reg[t]
           q == reg'[t]
<1>1. PICK c \in Cluster :
          /\ Set(t, IF r.why = "data" THEN [r EXCEPT !.new = c] ELSE [r EXCEPT !.table = c])
          /\ Go(t, "allocateFlush")
  BY NoFault DEF Allocate
<1>2. pc[t] = "allocate" /\ pc'[t] = "allocateFlush"
      /\ q = IF r.why = "data" THEN [r EXCEPT !.new = c] ELSE [r EXCEPT !.table = c]
  BY <1>1, GoSet DEF Allocate
<1>3. r \in Local
  BY TypedParts
<1>4. q.why = r.why /\ q.full = r.full /\ (r.why # "data" => q.new = r.new)
  BY <1>2, <1>3 DEF Local
<1>5. SameCopy(r, q)
  BY <1>2, <1>3 DEF SameCopy, Local
<1>6. Unseen(Stored, Stored')
  BY <1>2, StepUnseen DEF WriteStep, WriteInPlace, WriteEntry
<1>7. Copying(pc[t], r) /\ Copying(pc'[t], q) /\ (HasNew(pc[t], r) <=> r.why # "data")
      /\ (HasNew(pc'[t], q) <=> q.why # "data") /\ pc'[t] \notin ReleaseSteps
  BY <1>2, StepKinds
<1>8. FindsNow(Stored', q) /\ Seeded(Stored', q)
  BY <1>5, <1>6, <1>7, Carrying
<1>9. dev'.data = dev.data /\ durable' = durable
  BY CountSteady, <1>3 DEF Allocate, Steady, Stored
<1>10. r.why # "data" => InNew(Stored', q) /\ InNewDurably(Stored', q)
  <2>1. r.why # "data" => InNew(Stored, r) /\ InNewDurably(Stored, r)
    BY <1>2, <1>7 DEF ProgressInv, Going
  <2>2. QED
    BY <1>4, <1>9, <2>1 DEF InNew, InNewDurably, Stored
<1>11. QED
  BY <1>2, <1>4, <1>7, <1>8, <1>10 DEF GoingOn, Going

(* A flush makes what the new cluster and the new table hold durable.      *)
LEMMA FlushedNew ==
    ASSUME Typed, ProgressInv, NEW t \in Writers, Flushes(t) \/ FlushL1(t), HasNew(pc[t], reg[t]),
           pc[t] # "fill", reg'[t] = reg[t]
    PROVE  InNew(Stored', reg'[t]) /\ InNewDurably(Stored', reg'[t])
<1>1. dev' = dev /\ durable' = dev
  BY FlushStores DEF FlushL1
<1>2. InNew(Stored, reg[t])
  BY DEF ProgressInv, Going
<1>3. QED
  BY <1>1, <1>2 DEF InNew, InNewDurably, Stored

LEMMA FlushesGoing ==
    ASSUME Typed, Typed', Serial, CountsInv, ProgressInv, NEW t \in Writers, Flushes(t), faults' = 0
    PROVE  GoingOn(t)
<1> DEFINE r == reg[t]
           q == reg'[t]
<1>1. \A step : FlushThen(t, step) => pc'[t] = step
  BY GoSet DEF FlushThen
<1>2. q = r /\ r \in Local /\ dev' = dev /\ durable' = dev /\ r.at \in VCluster
  BY GoSet, TypedParts, FlushStores DEF Flushes, FlushAllocate, FlushFill, FlushZero, FlushCopy,
     FlushEntry, FlushRelease, FlushThen, Local
<1>3. pc[t] \in FlushSteps \cup {"releaseFlush"}
  BY DEF Flushes, FlushAllocate, FlushFill, FlushZero, FlushCopy, FlushEntry, FlushRelease,
     FlushSteps
<1>4. Unseen(Stored, Stored')
  BY <1>3, StepUnseen DEF WriteStep, WriteInPlace, WriteEntry, Flushes, FlushSteps
<1>5. Copying(pc[t], r) => FindsNow(Stored', q) /\ Seeded(Stored', q)
  BY <1>2, <1>4, Carrying, SameIsCopy
<1>6. HasNew(pc[t], r) => InNew(Stored', q) /\ InNewDurably(Stored', q)
  BY <1>2, <1>3, FlushedNew DEF FlushSteps
<1>7. CASE FlushAllocate(t)
  <2>1. pc[t] = "allocateFlush" /\ r.why \in {"data", "table", "copy"}
    BY <1>7, TypedParts DEF FlushAllocate, LocalsGood, GoodAt
  <2>2. /\ r.why = "data" => pc'[t] = "fill"
        /\ r.why = "table" => pc'[t] = "zero"
        /\ r.why = "copy" => pc'[t] = "copy"
    BY <1>1, <1>7, <2>1 DEF FlushAllocate
  <2>3. /\ Copying(pc[t], r) /\ (HasNew(pc[t], r) <=> r.why # "data")
        /\ pc'[t] \notin ReleaseSteps
    BY <2>1, <2>2, StepKinds DEF ReleaseSteps
  <2>4. QED
    BY <1>2, <1>5, <1>6, <2>1, <2>2, <2>3 DEF GoingOn, Going
<1>8. CASE FlushFill(t)
  <2>1. pc[t] = "fillFlush" /\ pc'[t] = "repoint"
    BY <1>1, <1>8 DEF FlushFill
  <2>2. Copying(pc[t], r) /\ HasNew(pc[t], r) /\ pc'[t] \notin ReleaseSteps
    BY <2>1, StepKinds DEF FilledSteps, ReleaseSteps
  <2>3. QED
    BY <1>5, <1>6, <2>1, <2>2 DEF GoingOn, Going
<1>9. CASE FlushZero(t) \/ FlushCopy(t)
  <2>1. pc[t] \in {"zeroFlush", "copyFlush"} /\ pc'[t] = "l1Write"
    BY <1>1, <1>9 DEF FlushZero, FlushCopy
  <2>2. Copying(pc[t], r) /\ HasNew(pc[t], r) /\ pc'[t] \notin ReleaseSteps
    BY <2>1, StepKinds DEF FilledSteps, ReleaseSteps, ShadowSteps
  <2>3. RowNow(Stored', q)
    <3>1. RowNow(Stored, r)
      BY <2>1 DEF ProgressInv, Going
    <3>2. Stored'.dev.table[r.table] = Stored.dev.table[r.table]
      BY <1>2 DEF Stored
    <3>3. QED
      BY <1>2, <1>4, <3>1, <3>2, Carried
  <2>4. QED
    BY <1>5, <1>6, <2>1, <2>2, <2>3 DEF GoingOn, Going
<1>10. CASE FlushEntry(t)
  BY <1>10, LeavesCarefree, CarefreeGoing DEF GoingOn
<1>11. CASE FlushRelease(t)
  <2>1. pc[t] = "releaseFlush" /\ pc'[t] = AfterRelease(t)
    BY <1>1, <1>11 DEF FlushRelease
  <2>2. CASE r.why = "copy"
    <3>1. pc'[t] = "entry" /\ Copying(pc[t], r) /\ HasNew(pc[t], r) /\ pc'[t] \notin ReleaseSteps
      BY <2>1, <2>2, StepKinds DEF ReleaseSteps, AfterRelease
    <3>2. QED
      BY <1>5, <1>6, <3>1 DEF GoingOn, Going
  <2>3. CASE r.why # "copy"
    <3>1. pc'[t] = "next"
      BY <2>1, <2>3 DEF AfterRelease
    <3>2. QED
      BY <3>1, CarefreeGoing DEF GoingOn, Carefree
  <2>4. QED
    BY <2>2, <2>3
<1>12. QED
  BY <1>7, <1>8, <1>9, <1>10, <1>11 DEF Flushes

LEMMA FillGoing ==
    ASSUME Typed, Typed', Serial, CountsInv, ProgressInv, NEW t \in Writers, Fill(t), faults' = 0
    PROVE  GoingOn(t)
<1> DEFINE r == reg[t]
           q == reg'[t]
<1>1. pc[t] = "fill" /\ pc'[t] = "fillFlush" /\ q = r
  BY NoFault, GoSet DEF Fill, WrittenTo
<1>2. Unseen(Stored, Stored')
  BY <1>1, StepUnseen DEF WriteStep, WriteInPlace, WriteEntry
<1>3. Copying(pc[t], r) /\ pc'[t] \notin ReleaseSteps
  BY <1>1, StepKinds DEF FilledSteps, ReleaseSteps
<1>4. FindsNow(Stored', q) /\ Seeded(Stored', q)
  BY <1>1, <1>2, <1>3, Carrying, SameIsCopy, TypedParts
<1>5. InNew(Stored', q)
  BY <1>1, FillWrites DEF InNew, DataWritten
<1>6. QED
  BY <1>1, <1>3, <1>4, <1>5 DEF GoingOn, Going

(* A step that leaves the clusters' words as they are, written and durable.*)
LEMMA NewStays ==
    ASSUME Typed, ProgressInv, NEW t \in Writers, dev'.data = dev.data, durable'.data = durable.data,
           HasNew(pc[t], reg[t]), pc[t] \notin {"fill", "fillFlush"},
           reg'[t].new = reg[t].new, reg'[t].full = reg[t].full
    PROVE  InNew(Stored', reg'[t]) /\ InNewDurably(Stored', reg'[t])
<1>1. InNew(Stored, reg[t]) /\ InNewDurably(Stored, reg[t])
  BY DEF ProgressInv, Going
<1>2. QED
  BY <1>1 DEF InNew, InNewDurably, Stored

LEMMA RepointGoing ==
    ASSUME Typed, Typed', Serial, CountsInv, ProgressInv, NEW t \in Writers, Repoint(t)
    PROVE  GoingOn(t)
<1> DEFINE r == reg[t]
           q == reg'[t]
           entry == l1[r.at[1]]
           what == WhatTable(entry)
<1>1. pc[t] = "repoint" /\ Stored' = Stored /\ dev' = dev /\ durable' = durable
  BY DEF Repoint, Stored, memory
<1>2. Unseen(Stored, Stored')
  BY <1>1 DEF Unseen, SameNow
<1>3. Copying(pc[t], r) /\ HasNew(pc[t], r) /\ r \in Local
  BY <1>1, StepKinds, TypedParts DEF FilledSteps
<1>4. \/ q = [r EXCEPT !.table = entry.at] /\ pc'[t] = "entry"
      \/ /\ q = [r EXCEPT !.why = what, !.l1Entry = entry] /\ pc'[t] = "allocate"
         /\ what # "own"
  BY GoSet DEF Repoint
<1> HIDE DEF entry, what
<1>5. SameCopy(r, q) /\ q.new = r.new
  BY <1>3, <1>4 DEF SameCopy, Local
<1>6. FindsNow(Stored', q) /\ Seeded(Stored', q)
  BY <1>2, <1>3, <1>5, Carrying
<1>7. InNew(Stored', q) /\ InNewDurably(Stored', q)
  BY <1>1, <1>3, <1>5, NewStays DEF SameCopy
<1>8. pc'[t] \in {"entry", "allocate"}
  BY <1>4
<1>9. QED
  BY <1>6, <1>7, <1>8 DEF GoingOn, Going, ReleaseSteps

LEMMA RowGoing ==
    ASSUME Typed, Typed', Serial, CountsInv, ProgressInv, NEW t \in Writers, Zero(t) \/ CopyTable(t),
           faults' = 0
    PROVE  GoingOn(t)
<1> DEFINE r == reg[t]
           q == reg'[t]
           s == Stored
           x == Stored'
           i == r.at[1]
           T == r.table
           row == IF pc[t] = "zero" THEN EmptyTable ELSE dev.table[r.l1Entry.at]
<1>1. /\ pc[t] \in {"zero", "copy"} /\ q = r
      /\ pc'[t] = IF pc[t] = "zero" THEN "zeroFlush" ELSE "copyFlush"
  BY NoFault, GoSet DEF Zero, CopyTable, WrittenTo
<1>2. Unseen(s, x)
  BY <1>1, StepUnseen DEF WriteStep, WriteInPlace, WriteEntry
<1>3. Copying(pc[t], r) /\ HasNew(pc[t], r) /\ pc'[t] \notin ReleaseSteps
  BY <1>1, StepKinds DEF FilledSteps, ShadowSteps, ReleaseSteps
<1>4. FindsNow(x, q) /\ Seeded(x, q)
  BY <1>1, <1>2, <1>3, Carrying, SameIsCopy, TypedParts
<1>5. T \in Cluster /\ RowWritten(s, x, T, row)
  BY RowWrites
<1>6. InNew(x, q) /\ InNewDurably(x, q)
  <2>1. dev'.data = dev.data /\ durable' = durable
    BY <1>5 DEF RowWritten, Stored
  <2>2. QED
    BY <1>1, <1>3, <2>1, NewStays
<1>7. /\ Working(s, pc[t], r) /\ IsStore(s) /\ i \in L1Index /\ r.at \in VCluster /\ LocalsGood(t)
      /\ Replaced(s, r)
  BY <1>1, Begin DEF Working, ShadowSteps
<1>8. \A j \in L2Index : row[j] = Now(s, <<i, j>>)
  <2> SUFFICES ASSUME NEW j \in L2Index PROVE row[j] = Now(s, <<i, j>>)
    OBVIOUS
  <2>1. <<i, j>> \in VCluster /\ <<i, j>>[1] = i /\ <<i, j>>[2] = j
    BY <1>7 DEF VCluster
  <2>2. /\ s.l1[i].at \in Cluster => Now(s, <<i, j>>) = s.dev.table[s.l1[i].at][j]
        /\ s.l1[i].at \notin Cluster => Now(s, <<i, j>>) = NoEntry
    BY <2>1, NowIs
  <2>3. CASE pc[t] = "zero"
    <3>1. r.why = "table"
      BY <2>3 DEF ProgressInv, Going
    <3>2. s.l1[i].at \notin Cluster
      BY <1>7, <3>1, Numbers DEF Replaced
    <3>3. row[j] = NoEntry
      BY <2>3 DEF EmptyTable
    <3>4. QED
      BY <2>2, <3>2, <3>3
  <2>4. CASE pc[t] = "copy"
    <3>1. r.why = "copy"
      BY <1>7, <2>4 DEF LocalsGood, GoodAt
    <3>2. s.l1[i].at \in Cluster /\ r.l1Entry.at = s.l1[i].at
      BY <1>7, <3>1 DEF Replaced
    <3>3. row[j] = s.dev.table[s.l1[i].at][j]
      BY <2>4, <3>2 DEF Stored
    <3>4. QED
      BY <2>2, <3>2, <3>3
  <2>5. QED
    BY <1>1, <2>3, <2>4
<1>9. RowNow(x, q)
  <2>1. \A j \in L2Index : x.dev.table[T][j] = Now(s, <<i, j>>)
    BY <1>5, <1>8 DEF RowWritten
  <2>2. \A j \in L2Index : <<i, j>> \in VCluster
    BY <1>7 DEF VCluster
  <2>3. \A j \in L2Index : Now(x, <<i, j>>) = Now(s, <<i, j>>)
    BY <1>2, <2>2 DEF Unseen, SameNow
  <2>4. QED
    BY <1>1, <2>1, <2>3 DEF RowNow
<1>10. QED
  BY <1>1, <1>3, <1>4, <1>6, <1>9 DEF GoingOn, Going

LEMMA WriteL1Going ==
    ASSUME Typed, Typed', Serial, CountsInv, ProgressInv, NEW t \in Writers, WriteL1(t), faults' = 0
    PROVE  GoingOn(t)
<1> DEFINE r == reg[t]
           q == reg'[t]
           s == Stored
           x == Stored'
<1>1. pc[t] = "l1Write" /\ pc'[t] = "l1Flush" /\ q = r
  BY NoFault, GoSet DEF WriteL1
<1>2. Unseen(s, x)
  BY <1>1, StepUnseen DEF WriteStep, WriteInPlace, WriteEntry
<1>3. Copying(pc[t], r) /\ HasNew(pc[t], r) /\ pc'[t] \notin ReleaseSteps
  BY <1>1, StepKinds DEF FilledSteps, ShadowSteps, ReleaseSteps
<1>4. FindsNow(x, q) /\ Seeded(x, q)
  BY <1>1, <1>2, <1>3, Carrying, SameIsCopy, TypedParts
<1>5. /\ dev'.data = dev.data /\ dev'.table = dev.table /\ durable' = durable
  BY RootWrites DEF RootWritten, Stored
<1>6. InNew(x, q) /\ InNewDurably(x, q)
  BY <1>1, <1>3, <1>5, NewStays
<1>7. r.at \in VCluster /\ s.durable.table[r.table] = s.dev.table[r.table] /\ RowNow(s, r)
  BY <1>1, Begin DEF Working, ProgressInv, Going
<1>8. /\ x.dev.table[r.table] = s.dev.table[r.table]
      /\ x.durable.table[r.table] = x.dev.table[r.table]
  BY <1>5, <1>7 DEF Stored
<1>9. RowNow(x, q)
  BY <1>1, <1>2, <1>7, <1>8, Carried
<1>10. QED
  BY <1>1, <1>3, <1>4, <1>6, <1>8, <1>9 DEF GoingOn, Going

LEMMA FlushL1Going ==
    ASSUME Typed, Typed', Serial, CountsInv, ProgressInv, NEW t \in Writers, FlushL1(t)
    PROVE  GoingOn(t)
<1> DEFINE r == reg[t]
           q == reg'[t]
<1>1. /\ pc[t] = "l1Flush" /\ q = r /\ r \in Local
      /\ pc'[t] = IF r.why = "copy" THEN "release" ELSE "entry"
  BY GoSet, TypedParts DEF FlushL1
<1>2. Unseen(Stored, Stored')
  BY <1>1, StepUnseen DEF WriteStep, WriteInPlace, WriteEntry
<1>3. Copying(pc[t], r) /\ HasNew(pc[t], r)
  BY <1>1, StepKinds DEF FilledSteps
<1>4. FindsNow(Stored', q) /\ Seeded(Stored', q)
  BY <1>1, <1>2, <1>3, Carrying, SameIsCopy
<1>5. InNew(Stored', q) /\ InNewDurably(Stored', q)
  BY <1>1, <1>3, FlushedNew
<1>6. pc'[t] \in {"release", "entry"} /\ (pc'[t] \in ReleaseSteps => q.why = "copy")
  BY <1>1 DEF ReleaseSteps
<1>7. QED
  BY <1>4, <1>5, <1>6 DEF GoingOn, Going

LEMMA ReleaseGoing ==
    ASSUME Typed, Typed', Serial, CountsInv, ProgressInv, NEW t \in Writers,
           WriteRelease(t) \/ ReleaseFails(t)
    PROVE  GoingOn(t)
<1> DEFINE r == reg[t]
           q == reg'[t]
<1>1. /\ pc[t] \in ReleaseSteps /\ q = r /\ r \in Local
      /\ pc'[t] \in {"releaseFlush", AfterRelease(t)}
  BY GoSet, TypedParts DEF WriteRelease, ReleaseFails, ReleaseSteps
<1>2. CASE r.why = "copy"
  <2>1. Unseen(Stored, Stored')
    BY <1>1, StepUnseen DEF WriteStep, WriteInPlace, WriteEntry, ReleaseSteps
  <2>2. Copying(pc[t], r) /\ HasNew(pc[t], r) /\ pc[t] \notin {"fill", "fillFlush"}
    BY <1>1, <1>2, StepKinds DEF ReleaseSteps
  <2>3. FindsNow(Stored', q) /\ Seeded(Stored', q)
    BY <1>1, <2>1, <2>2, Carrying, SameIsCopy
  <2>4. dev'.data = dev.data /\ durable' = durable
    <3>1. ReleaseFails(t) => dev' = dev /\ durable' = durable
      BY DEF ReleaseFails
    <3>2. WriteRelease(t) => dev'.data = dev.data /\ durable' = durable
      BY CountSteady DEF WriteRelease, Steady, Stored
    <3>3. QED
      BY <3>1, <3>2
  <2>5. InNew(Stored', q) /\ InNewDurably(Stored', q)
    BY <1>1, <2>2, <2>4, NewStays
  <2>6. pc'[t] \in {"releaseFlush", "entry"}
    BY <1>1, <1>2 DEF AfterRelease
  <2>7. QED
    BY <1>1, <1>2, <2>3, <2>5, <2>6 DEF GoingOn, Going
<1>3. CASE r.why # "copy"
  <2>1. r.why = "release"
    BY <1>1, <1>3 DEF ProgressInv, Going
  <2>2. CASE pc'[t] = "next"
    BY <2>2, CarefreeGoing DEF GoingOn, Carefree
  <2>3. CASE pc'[t] = "releaseFlush"
    <3>1. ~HasNew(pc'[t], q) /\ ~Copying(pc'[t], q)
      BY <1>1, <1>3, <2>3, StepKinds DEF ReleaseSteps
    <3>2. QED
      BY <1>1, <2>1, <2>3, <3>1 DEF GoingOn, Going
  <2>4. QED
    BY <1>1, <1>3, <2>2, <2>3 DEF AfterRelease
<1>4. QED
  BY <1>2, <1>3

LEMMA ForgetDataGoing ==
    ASSUME Typed, NEW t \in Writers, ForgetData(t)
    PROVE  GoingOn(t)
<1> DEFINE r == reg[t]
           q == reg'[t]
<1>1. q = [r EXCEPT !.why = "release"] /\ r \in Local /\ pc'[t] \in {"next", "release"}
  BY GoSet, TypedParts DEF ForgetData
<1>2. q.why = "release"
  BY <1>1 DEF Local
<1>3. CASE pc'[t] = "next"
  BY <1>3, CarefreeGoing DEF GoingOn, Carefree
<1>4. CASE pc'[t] = "release"
  <2>1. ~HasNew(pc'[t], q) /\ ~Copying(pc'[t], q)
    BY <1>2, <1>4, StepKinds DEF ReleaseSteps
  <2>2. QED
    BY <1>2, <1>4, <2>1 DEF GoingOn, Going
<1>5. QED
  BY <1>1, <1>3, <1>4

LEMMA PlanInPlaceGoing ==
    ASSUME Typed, ProgressInv, NEW t \in Writers, PlanInPlace(t)
    PROVE  GoingOn(t)
<1>1. pc[t] = "plan" /\ pc'[t] = "inPlace" /\ reg'[t] = reg[t] /\ Stored' = Stored
  BY GoSet DEF PlanInPlace, Stored, memory
<1>2. FindsNow(Stored, reg[t])
  BY <1>1 DEF ProgressInv, Going
<1>3. QED
  BY <1>1, <1>2, PlanGoing DEF GoingOn

LEMMA WriterGoing ==
    ASSUME Typed, Typed', Serial, CountsInv, PayloadInv, ProgressInv, NEW t \in Writers,
           Lookup(t) \/ DeviceError(t) \/ StartWrite(t) \/ WriteStep(t), faults' = 0
    PROVE  GoingOn(t)
<1>1. pc'[t] \in Carefree => GoingOn(t)
  BY CarefreeGoing DEF GoingOn
<1>2. CASE Lookup(t)
  BY <1>1, <1>2, LookupL1Going, LookupL2Going, LeavesCarefree DEF Lookup
<1>3. CASE DeviceError(t) \/ StartWrite(t)
  BY <1>1, <1>3, LeavesCarefree
<1>4. CASE WriteStep(t)
  BY <1>1, <1>4, LeavesCarefree, PlanInPlaceGoing, PlanReallocateGoing, AllocateGoing, FlushesGoing,
     FillGoing, RepointGoing, RowGoing, WriteL1Going, FlushL1Going, ReleaseGoing, ForgetDataGoing
     DEF WriteStep, Flushes
<1>5. QED
  BY <1>2, <1>3, <1>4

(***************************************************************************)
(* The cache, and the other writers                                        *)
(***************************************************************************)
LEMMA StaleGrows ==
    ASSUME Typed, NEW t \in Writers, Lookup(t) \/ DeviceError(t) \/ StartWrite(t) \/ WriteStep(t),
           ~ForgetL2(t), faults' = 0
    PROVE  StaleAt \subseteq StaleAt'
<1> SUFFICES ASSUME NEW u \in Writers, pc[u] \in {"entryFlush", "forgetL2"}
             PROVE  reg[u].at \in StaleAt'
  BY DEF StaleAt
<1>1. CASE u # t
  <2>1. t \in Threads /\ u \in Threads
    BY TypedParts
  <2>2. pc'[u] = pc[u] /\ reg'[u] = reg[u]
    BY <1>1, <2>1, OnlyOne
  <2>3. QED
    BY <2>2 DEF StaleAt
<1>2. CASE u = t
  <2>1. ~DeviceError(t)
    BY NoFault DEF DeviceError
  <2>2. FlushEntry(t)
    BY <1>2, <2>1 DEF Lookup, LookupL1, LookupL2, Undecodable, StartWrite, WriteStep, TakeWriteLock,
       PlanInPlace, PlanReallocate, WriteInPlace, Allocate, NoRoom, FlushAllocate, Fill, FlushFill,
       Repoint, Zero, FlushZero, CopyTable, FlushCopy, WriteL1, FlushL1, WriteEntry, ForgetL2,
       ForgetData, WriteRelease, FlushRelease, ReleaseFails, ReleaseSteps, NextChunk, EndWrite
  <2>3. pc'[t] = "forgetL2" /\ reg'[t] = reg[t]
    BY <2>2, GoSet DEF FlushEntry, FlushThen
  <2>4. QED
    BY <1>2, <2>3 DEF StaleAt
<1>3. QED
  BY <1>1, <1>2

LEMMA FreshStays ==
    ASSUME NEW s, NEW x, NEW stale, NEW more, CacheFresh(s, stale), stale \subseteq more,
           x.cache = s.cache, \A v \in VCluster : v \notin more => Now(x, v) = Now(s, v)
    PROVE  CacheFresh(x, more)
  BY DEF CacheFresh

LEMMA LoadedFresh ==
    ASSUME NEW x, x.cache # <<>>,
           \A v \in VCluster : v[1] = x.cache[1] => x.cache[2][v[2]] = Now(x, v), NEW stale
    PROVE  CacheFresh(x, stale)
  BY DEF CacheFresh

LEMMA EmptyFresh ==
    ASSUME NEW x, x.cache = <<>>, NEW stale
    PROVE  CacheFresh(x, stale)
  BY DEF CacheFresh

(* The entry written changes what one virtual cluster has, no other.       *)
LEMMA EntryNow ==
    ASSUME Typed, Typed', Serial, CountsInv, NEW t \in Writers, WriteEntry(t)
    PROVE  /\ Now(Stored', reg[t].at) = L2EntryFor(reg[t].new)
           /\ \A v \in VCluster : v # reg[t].at => Now(Stored', v) = Now(Stored, v)
<1> DEFINE s == Stored
           x == Stored'
           i == reg[t].at[1]
           j == reg[t].at[2]
           T == reg[t].table
           n == reg[t].new
<1>1. pc[t] = "entry"
  BY DEF WriteEntry
<1>2. /\ Sound(s, Mine(pc[t], reg[t])) /\ Working(s, "entry", reg[t]) /\ IsStore(s)
      /\ i \in L1Index /\ j \in L2Index /\ reg[t].at \in VCluster
  BY <1>1, Begin
<1>3. Own(s, i, T) /\ TablesOnce(s) /\ T \in Cluster /\ s.l1[i].at = T
  BY <1>2 DEF Working, Sound, Own
<1>4. EntryPut(s, x, T, j, n) /\ reg[t].at = <<i, j>>
  BY <1>2, <1>3, EntryWrites DEF VCluster
<1> HIDE DEF s, x, i, j, T, n
<1>5. x.l1 = s.l1 /\ x.dev.table[T][j] = L2EntryFor(n)
      /\ \A a \in Cluster : \A k \in L2Index :
             a # T \/ k # j => x.dev.table[a][k] = s.dev.table[a][k]
  BY <1>4 DEF EntryPut
<1>6. Now(x, reg[t].at) = L2EntryFor(n)
  <2>1. reg[t].at[1] = i /\ reg[t].at[2] = j
    BY DEF i, j
  <2>2. x.l1[i].at = T
    BY <1>3, <1>5
  <2>3. QED
    BY <1>2, <1>3, <1>5, <2>1, <2>2, NowIs
<1>7. ASSUME NEW v \in VCluster, v # reg[t].at PROVE Now(x, v) = Now(s, v)
  <2>1. v[1] \in L1Index /\ v[2] \in L2Index /\ v = <<v[1], v[2]>>
    BY DEF VCluster
  <2>2. /\ x.l1[v[1]].at \in Cluster => Now(x, v) = x.dev.table[x.l1[v[1]].at][v[2]]
        /\ x.l1[v[1]].at \notin Cluster => Now(x, v) = NoEntry
    BY NowIs
  <2>3. /\ s.l1[v[1]].at \in Cluster => Now(s, v) = s.dev.table[s.l1[v[1]].at][v[2]]
        /\ s.l1[v[1]].at \notin Cluster => Now(s, v) = NoEntry
    BY NowIs
  <2>4. s.l1[v[1]].at = T => v[2] # j
    <3> SUFFICES ASSUME s.l1[v[1]].at = T PROVE v[2] # j
      OBVIOUS
    <3>1. Names(s, v[1], T)
      BY DEF Names, Roots
    <3>2. v[1] = i
      BY <1>2, <1>3, <2>1, <3>1, OwnOnly
    <3>3. QED
      BY <1>4, <1>7, <2>1, <3>2
  <2>5. QED
    BY <1>5, <2>1, <2>2, <2>3, <2>4
<1>8. QED
  BY <1>6, <1>7 DEF s, x, n

LEMMA InPlaceNow ==
    ASSUME Typed, NEW t \in Writers, WriteInPlace(t)
    PROVE  SameNow(Stored, Stored')
<1> DEFINE s == Stored
           x == Stored'
<1>1. \E c, words : DataWritten(s, x, c, words)
  BY InPlaceWrites
<1> HIDE DEF s, x
<1>2. SameNow(s, x)
  BY <1>1, TablesNow DEF DataWritten
<1>3. QED
  BY <1>2 DEF s, x

LEMMA FreshNext ==
    ASSUME Typed, Typed', Serial, CountsInv, ProgressInv, NEW t \in Writers,
           Lookup(t) \/ DeviceError(t) \/ StartWrite(t) \/ WriteStep(t), faults' = 0
    PROVE  CacheFresh(Stored', StaleAt')
<1> DEFINE s == Stored
           x == Stored'
           gone == StaleAt'
<1>1. CASE ForgetL2(t)
  <2>1. x.cache = <<>>
    BY <1>1, CacheChanges
  <2> HIDE DEF x, gone
  <2>2. CacheFresh(x, gone)
    BY <2>1, EmptyFresh
  <2>3. QED
    BY <2>2 DEF x, gone
<1>2. CASE LookupL2(t)
  <2> DEFINE cache == Cached(reg[t].at[1], reg[t].l1Entry.at)
  <2>1. pc[t] = "l2" /\ x.cache = cache
    BY <1>2, CacheChanges DEF LookupL2
  <2>2. /\ cache # <<>> /\ cache[1] = reg[t].at[1]
        /\ \A v \in VCluster : v[1] = reg[t].at[1] => cache[2][v[2]] = Now(s, v)
    BY <2>1, CachedNow
  <2>3. Unseen(s, x)
    BY <2>1, StepUnseen DEF WriteInPlace, WriteEntry
  <2> HIDE DEF s, x, gone, cache
  <2>4. CacheFresh(x, gone)
    BY <2>1, <2>2, <2>3, LoadedFresh DEF Unseen, SameNow
  <2>5. QED
    BY <2>4 DEF x, gone
<1>3. CASE ~ForgetL2(t) /\ ~LookupL2(t)
  <2>1. StaleAt \subseteq gone
    BY <1>3, StaleGrows
  <2>2. CacheFresh(s, StaleAt)
    BY DEF ProgressInv
  <2>3. x.cache = s.cache
    BY <1>3 DEF Stored, Lookup, WriteStep, LookupL1, Undecodable, DeviceError, StartWrite,
       TakeWriteLock, PlanInPlace, PlanReallocate, WriteInPlace, Allocate, NoRoom, FlushAllocate,
       Fill, FlushFill, Repoint, Zero, FlushZero, CopyTable, FlushCopy, WriteL1, FlushL1, WriteEntry,
       FlushEntry, ForgetData, WriteRelease, FlushRelease, ReleaseFails, NextChunk, EndWrite,
       FlushThen, memory
  <2>4. \A v \in VCluster : v \notin gone => Now(x, v) = Now(s, v)
    <3>1. CASE WriteEntry(t)
      <4>1. pc'[t] = "entryFlush" /\ reg'[t] = reg[t]
        BY <3>1, NoFault, GoSet DEF WriteEntry, Written, WrittenTo
      <4>2. reg[t].at \in gone
        BY <4>1 DEF StaleAt
      <4>3. QED
        BY <3>1, <4>2, EntryNow
    <3>2. CASE WriteInPlace(t)
      BY <3>2, InPlaceNow DEF SameNow
    <3>3. CASE ~WriteEntry(t) /\ ~WriteInPlace(t)
      BY <3>3, StepUnseen DEF Unseen, SameNow
    <3>4. QED
      BY <3>1, <3>2, <3>3
  <2> DEFINE stale == StaleAt
  <2> HIDE DEF s, x, gone, stale
  <2>5. CacheFresh(x, gone)
    BY <2>1, <2>2, <2>3, <2>4, FreshStays DEF stale
  <2>6. QED
    BY <2>5 DEF x, gone
<1>4. QED
  BY <1>1, <1>2, <1>3

(* A writer beside the one that moves waits, or the mover only begins.     *)
LEMMA Beside ==
    ASSUME Typed, Serial, NEW t \in Writers, NEW u \in Writers, u # t,
           Lookup(t) \/ DeviceError(t) \/ StartWrite(t) \/ WriteStep(t)
    PROVE  /\ pc'[u] = pc[u] /\ reg'[u] = reg[u]
           /\ pc[u] \in {"idle", "lock"} \/ (StartWrite(t) /\ Stored' = Stored)
<1>1. t \in Threads /\ u \in Threads
  BY TypedParts
<1>2. pc'[u] = pc[u] /\ reg'[u] = reg[u]
  BY <1>1, OnlyOne
<1>3. ASSUME pc[u] \notin {"idle", "lock"} PROVE StartWrite(t) /\ Stored' = Stored
  <2>1. writeLock = u
    BY <1>3 DEF Serial
  <2>2. pc[t] \in {"idle", "lock"}
    BY <2>1 DEF Serial
  <2>3. ~TakeWriteLock(t)
    BY <2>1, WriteAssumption DEF TakeWriteLock, LockFree, Threads
  <2>4. StartWrite(t)
    BY <2>2, <2>3 DEF Lookup, LookupL1, LookupL2, Undecodable, DeviceError, WriteSteps, FlushSteps,
       WriteStep, PlanInPlace, PlanReallocate, WriteInPlace, Allocate, NoRoom, FlushAllocate,
       Fill, FlushFill, Repoint, Zero, FlushZero, CopyTable, FlushCopy, WriteL1, FlushL1,
       WriteEntry, FlushEntry, ForgetL2, ForgetData, WriteRelease, FlushRelease,
       ReleaseFails, ReleaseSteps, NextChunk, EndWrite
  <2>5. QED
    BY <2>4, CalmStores DEF Calm
<1>4. QED
  BY <1>2, <1>3

LEMMA ProgressWriter ==
    ASSUME Typed, Typed', Serial, CountsInv, PayloadInv, ProgressInv, NEW t \in Writers,
           Lookup(t) \/ DeviceError(t) \/ StartWrite(t) \/ WriteStep(t), faults' = 0
    PROVE  ProgressInv'
<1>1. CacheFresh(Stored', StaleAt')
  BY FreshNext
<1>2. ASSUME NEW u \in Writers PROVE Going(Stored', pc'[u], reg'[u])
  <2>1. CASE u = t
    BY <2>1, WriterGoing DEF GoingOn
  <2>2. CASE u # t /\ pc[u] \in {"idle", "lock"}
    BY <2>2, Beside, CarefreeGoing DEF Carefree
  <2>3. CASE u # t /\ pc[u] \notin {"idle", "lock"}
    BY <2>3, Beside DEF ProgressInv
  <2>4. QED
    BY <2>1, <2>2, <2>3
<1>3. QED
  BY <1>1, <1>2 DEF ProgressInv

LEMMA ProgressFlush ==
    ASSUME Typed, ProgressInv, Flush
    PROVE  ProgressInv'
<1> DEFINE s == Stored
           x == Stored'
<1>1. Steady(s, x) /\ durable' = dev /\ dev' = dev /\ UNCHANGED <<pc, reg>>
  BY FlushDescends DEF Flush
<1>2. IsStore(s) /\ Steady(s, x)
  BY <1>1, StoredTyped
<1>3. Unseen(s, x)
  <2> HIDE DEF s, x
  <2>1. x.img = s.img /\ SameNow(s, x) /\ x.dev.data = s.dev.data
    BY <1>2, TablesNow DEF Steady
  <2>2. QED
    BY <1>2, <2>1, UnseenBy
<1>4. CacheFresh(x, StaleAt')
  <2>1. StaleAt' = StaleAt
    BY <1>1 DEF StaleAt
  <2> DEFINE stale == StaleAt
  <2>2. CacheFresh(s, stale) /\ x.cache = s.cache
    BY <1>1 DEF ProgressInv, Steady
  <2> HIDE DEF s, x, stale
  <2>3. CacheFresh(x, stale)
    BY <1>3, <2>2, FreshStays DEF Unseen, SameNow
  <2>4. QED
    BY <2>1, <2>3 DEF stale
<1>5. ASSUME NEW t \in Writers PROVE Going(x, pc[t], reg[t])
  <2> DEFINE r == reg[t]
  <2>1. Going(s, pc[t], r) /\ r.at \in VCluster
    BY TypedParts DEF ProgressInv, Local
  <2>2. x.dev = s.dev /\ x.durable = s.dev
    BY <1>1 DEF Stored
  <2> HIDE DEF s, x, r
  <2>3. /\ FindsNow(s, r) => FindsNow(x, r)
        /\ Seeded(s, r) => Seeded(x, r)
        /\ RowNow(s, r) => RowNow(x, r)
    BY <1>3, <2>1, <2>2, Carried
  <2>4. /\ InNew(s, r) => InNew(x, r)
        /\ InNew(s, r) => InNewDurably(x, r)
    BY <2>2 DEF InNew, InNewDurably
  <2>5. Going(x, pc[t], r)
    BY <2>1, <2>2, <2>3, <2>4 DEF Going
  <2>6. QED
    BY <2>5 DEF x, r
<1>6. QED
  BY <1>1, <1>4, <1>5 DEF ProgressInv

LEMMA ProgressRest ==
    ASSUME l2Cache = <<>>, \A t \in Writers : pc[t] = "idle"
    PROVE  ProgressInv
<1>1. CacheFresh(Stored, StaleAt)
  BY EmptyFresh DEF Stored
<1>2. \A t \in Writers : Going(Stored, pc[t], reg[t])
  BY CarefreeGoing DEF Carefree
<1>3. QED
  BY <1>1, <1>2 DEF ProgressInv

(* As long as no device call has failed.                                   *)
Smooth == faults = 0 => ProgressInv

LEMMA RestSmooth == (Init => Smooth) /\ (Typed /\ Crash => ProgressInv')
<1>1. Init => Smooth
  BY ProgressRest DEF Init, Idle, Threads, Smooth
<1>2. ASSUME Typed, Crash PROVE ProgressInv'
  <2>1. l2Cache' = <<>> /\ \A t \in Writers : pc'[t] = "idle"
    BY <1>2 DEF Crash, Idle, Threads
  <2>2. CacheFresh(Stored', StaleAt')
    BY <2>1, EmptyFresh DEF Stored
  <2>3. \A t \in Writers : Going(Stored', pc'[t], reg'[t])
    BY <2>1, CarefreeGoing DEF Carefree
  <2>4. QED
    BY <2>2, <2>3 DEF ProgressInv
<1>3. QED
  BY <1>1, <1>2

LEMMA NoFaultBefore ==
    ASSUME Readers = {}, Typed, Next, faults' = 0
    PROVE  faults = 0
<1>1. faults \in Nat
  BY WriteAssumption DEF Typed, TypeOK
<1>2. Fault \/ UNCHANGED faults
  <2>1. CASE Flush \/ Crash
    BY <2>1 DEF Flush, Crash, bounds
  <2>2. CASE \E t \in Writers : Lookup(t) \/ DeviceError(t) \/ StartWrite(t) \/ WriteStep(t)
    <3>1. PICK t \in Writers : Lookup(t) \/ DeviceError(t) \/ StartWrite(t) \/ WriteStep(t)
      BY <2>2
    <3>2. QED
      BY <3>1 DEF Lookup, LookupL1, LookupL2, Undecodable, DeviceError, StartWrite, WriteStep,
       TakeWriteLock, PlanInPlace, PlanReallocate, WriteInPlace, Allocate, NoRoom,
       FlushAllocate, Fill, FlushFill, Repoint, Zero, FlushZero, CopyTable, FlushCopy, WriteL1,
       FlushL1, WriteEntry, FlushEntry, ForgetL2, ForgetData, WriteRelease, FlushRelease,
       ReleaseFails, NextChunk, EndWrite, FlushThen, Written, WrittenTo, bounds
  <2>3. QED
    BY <2>1, <2>2 DEF Next, Threads
<1>3. QED
  BY <1>1, <1>2 DEF Fault

LEMMA SmoothNext ==
    ASSUME Readers = {}, Typed, Serial, CountsInv, PayloadInv, Smooth, [Next]_vars
    PROVE  Smooth'
<1>1. Typed'
  BY NextTyped
<1>2. CASE UNCHANGED vars
  BY <1>2 DEF vars, memory, bounds, Smooth, ProgressInv, Stored, StaleAt
<1>3. CASE Next /\ faults' = 0
  <2>1. faults = 0
    BY <1>3, NoFaultBefore
  <2>2. QED
    BY <1>1, <1>3, <2>1, ProgressWriter, ProgressFlush, RestSmooth DEF Next, Threads, Smooth
<1>4. QED
  BY <1>2, <1>3 DEF Smooth

(***************************************************************************)
(* What a loss of power may leave in a word                                *)
(***************************************************************************)
LEMMA LeadsHas ==
    ASSUME NEW s, NEW v \in VCluster, NEW e, LeadsTo(s, v, e), e # NoEntry
    PROVE  Has(s, v, e)
<1>1. v[1] \in L1Index
  BY DEF VCluster
<1>2. PICK root \in {s.dev.l1[v[1]], s.durable.l1[v[1]]} :
          /\ root.at \in Cluster
          /\ e \in {s.dev.table[root.at][v[2]], s.durable.table[root.at][v[2]]}
  BY DEF LeadsTo
<1>3. Names(s, v[1], root.at)
  BY <1>1, <1>2 DEF Names, Roots
<1>4. QED
  BY <1>2, <1>3 DEF Has

LEMMA LeadsReaches ==
    ASSUME NEW s, NEW v \in VCluster, NEW e \in L2Entry, LeadsTo(s, v, e),
           NEW c \in Cluster, Reaches(e, c)
    PROVE  Has(s, v, e) /\ v \in Active(s, c)
<1>1. e # NoEntry
  BY EntryForFacts
<1>2. QED
  BY <1>1, LeadsHas, ActiveFacts

LEMMA StandardPlace ==
    ASSUME NEW e \in L2Entry, ~(LastOf(e) >= Outside), e.kind = "standard", e.at # None
    PROVE  e.at \in Cluster /\ LastOf(e) = e.at
<1>1. e.at \in Offset
  BY DEF L2Entry
<1>2. LastOf(e) = e.at
  BY DEF LastOf
<1>3. QED
  BY <1>1, <1>2, Numbers DEF Cluster, Offset, None, Outside

(* No entry more is led to, and no word of the clusters they lead to.      *)
NoMoreLeft(s, x) ==
    \A v \in VCluster, w \in Word : \A n : Leaves(x, v, w, n) => Leaves(s, v, w, n)

LEMMA NoMoreBy ==
    ASSUME NEW s, NEW x, x.img = s.img,
           \A v \in VCluster, e \in L2Entry : LeadsTo(x, v, e) => LeadsTo(s, v, e),
           \A v \in VCluster, e \in L2Entry : \A c \in Cluster : \A w \in Word :
               LeadsTo(x, v, e) /\ Reaches(e, c) =>
                   /\ x.dev.data[c][w] \in {s.dev.data[c][w], s.durable.data[c][w]}
                   /\ x.durable.data[c][w] \in {s.dev.data[c][w], s.durable.data[c][w]}
    PROVE  NoMoreLeft(s, x)
<1> SUFFICES ASSUME NEW v \in VCluster, NEW w \in Word, NEW n, Leaves(x, v, w, n)
             PROVE  Leaves(s, v, w, n)
  BY DEF NoMoreLeft
<1>1. PICK e \in L2Entry : LeadsTo(x, v, e) /\ ReadsAs(x, v, e, w, n)
  BY DEF Leaves
<1>2. LeadsTo(s, v, e)
  BY <1>1
<1>3. ReadsAs(s, v, e, w, n)
  <2>1. CASE LastOf(e) >= Outside
    BY <1>1, <2>1 DEF ReadsAs
  <2>2. CASE ~(LastOf(e) >= Outside) /\ e.kind = "standard" /\ e.at # None
    <3>1. e.at \in Cluster /\ Reaches(e, e.at)
      BY <2>2, StandardPlace DEF Reaches
    <3>2. n \in {x.dev.data[e.at][w], x.durable.data[e.at][w]}
      BY <1>1, <2>2 DEF ReadsAs
    <3>3. n \in {s.dev.data[e.at][w], s.durable.data[e.at][w]}
      BY <1>1, <3>1, <3>2
    <3>4. QED
      BY <2>2, <3>3 DEF ReadsAs
  <2>3. CASE ~(LastOf(e) >= Outside) /\ ~(e.kind = "standard" /\ e.at # None)
    BY <1>1, <2>3 DEF ReadsAs
  <2>4. QED
    BY <2>1, <2>2, <2>3
<1>4. QED
  BY <1>2, <1>3 DEF Leaves

(* The device's tables and roots are as before, or as one copy was.        *)
LEMMA NoMoreTables ==
    ASSUME NEW s, NEW x, x.dev.l1 = s.dev.l1, x.dev.table = s.dev.table,
           \E d \in {s.dev, s.durable} : x.durable.l1 = d.l1 /\ x.durable.table = d.table,
           NEW v \in VCluster, NEW e, LeadsTo(x, v, e)
    PROVE  LeadsTo(s, v, e)
<1>1. PICK root \in {x.dev.l1[v[1]], x.durable.l1[v[1]]} :
          IF root.at \in Cluster
          THEN e \in {x.dev.table[root.at][v[2]], x.durable.table[root.at][v[2]]}
          ELSE e = NoEntry
  BY DEF LeadsTo
<1>2. root \in {s.dev.l1[v[1]], s.durable.l1[v[1]]}
  BY <1>1
<1>3. IF root.at \in Cluster
      THEN e \in {s.dev.table[root.at][v[2]], s.durable.table[root.at][v[2]]}
      ELSE e = NoEntry
  BY <1>1
<1>4. QED
  BY <1>2, <1>3 DEF LeadsTo

LEMMA SteadyNoMore ==
    ASSUME NEW s, NEW x, Steady(s, x)
    PROVE  NoMoreLeft(s, x)
<1>1. \A v \in VCluster, e \in L2Entry : LeadsTo(x, v, e) => LeadsTo(s, v, e)
  BY NoMoreTables DEF Steady
<1>2. \A c \in Cluster : \A w \in Word :
          /\ x.dev.data[c][w] \in {s.dev.data[c][w], s.durable.data[c][w]}
          /\ x.durable.data[c][w] \in {s.dev.data[c][w], s.durable.data[c][w]}
  BY DEF Steady
<1>3. QED
  BY <1>1, <1>2, NoMoreBy DEF Steady

LEMMA FollowNoMore ==
    ASSUME NEW s, NEW x, NEW i, NEW T, RootFollowed(s, x, i, T)
    PROVE  NoMoreLeft(s, x)
<1>1. \A v \in VCluster, e \in L2Entry : LeadsTo(x, v, e) => LeadsTo(s, v, e)
  BY NoMoreTables DEF RootFollowed
<1>2. \A c \in Cluster : \A w \in Word :
          /\ x.dev.data[c][w] \in {s.dev.data[c][w], s.durable.data[c][w]}
          /\ x.durable.data[c][w] \in {s.dev.data[c][w], s.durable.data[c][w]}
  BY DEF RootFollowed
<1>3. QED
  BY <1>1, <1>2, NoMoreBy DEF RootFollowed

LEMMA RecachedNoMore ==
    ASSUME NEW s, NEW x, Recached(s, x)
    PROVE  NoMoreLeft(s, x)
<1>1. \A v \in VCluster, e \in L2Entry : LeadsTo(x, v, e) => LeadsTo(s, v, e)
  BY NoMoreTables DEF Recached
<1>2. QED
  BY <1>1, NoMoreBy DEF Recached

(* Data written where no entry leads.                                      *)
LEMMA FillNoMore ==
    ASSUME NEW s, NEW x, NEW c, NEW words, DataWritten(s, x, c, words), Active(s, c) = {}
    PROVE  NoMoreLeft(s, x)
<1>1. \A v \in VCluster, e \in L2Entry : LeadsTo(x, v, e) => LeadsTo(s, v, e)
  BY NoMoreTables DEF DataWritten
<1>2. \A v \in VCluster, e \in L2Entry : \A d \in Cluster : \A w \in Word :
          LeadsTo(x, v, e) /\ Reaches(e, d) =>
              /\ x.dev.data[d][w] \in {s.dev.data[d][w], s.durable.data[d][w]}
              /\ x.durable.data[d][w] \in {s.dev.data[d][w], s.durable.data[d][w]}
  <2> SUFFICES ASSUME NEW v \in VCluster, NEW e \in L2Entry, NEW d \in Cluster,
                      LeadsTo(x, v, e), Reaches(e, d)
               PROVE  x.dev.data[d] = s.dev.data[d] /\ x.durable.data[d] = s.durable.data[d]
    OBVIOUS
  <2>1. v \in Active(s, d)
    BY <1>1, LeadsReaches
  <2>2. QED
    BY <2>1 DEF DataWritten
<1>3. QED
  BY <1>1, <1>2, NoMoreBy DEF DataWritten

(* A table written that no root names.                                     *)
LEMMA RowNoMore ==
    ASSUME NEW s, NEW x, NEW T, NEW row, RowWritten(s, x, T, row), Active(s, T) = {}
    PROVE  NoMoreLeft(s, x)
<1>1. ASSUME NEW v \in VCluster, NEW e \in L2Entry, LeadsTo(x, v, e) PROVE LeadsTo(s, v, e)
  <2>1. v[1] \in L1Index
    BY DEF VCluster
  <2>2. x.durable = s.durable /\ x.dev.l1 = s.dev.l1
        /\ \A a \in Cluster : a # T => x.dev.table[a] = s.dev.table[a]
    BY DEF RowWritten
  <2>3. PICK root \in {s.dev.l1[v[1]], s.durable.l1[v[1]]} :
            IF root.at \in Cluster
            THEN e \in {x.dev.table[root.at][v[2]], x.durable.table[root.at][v[2]]}
            ELSE e = NoEntry
    BY <1>1, <2>2 DEF LeadsTo
  <2>4. root.at # T
    BY <2>1, ActiveFacts DEF Names, Roots
  <2>5. IF root.at \in Cluster
        THEN e \in {s.dev.table[root.at][v[2]], s.durable.table[root.at][v[2]]}
        ELSE e = NoEntry
    BY <2>2, <2>3, <2>4
  <2>6. QED
    BY <2>5 DEF LeadsTo
<1>2. QED
  BY <1>1, NoMoreBy DEF RowWritten

(* A table installed that leads where the one before it did.               *)
LEMMA RootNoMore ==
    ASSUME NEW s, NEW x, NEW i \in L1Index, NEW T \in Cluster, RootWritten(s, x, i, T),
           s.durable.table[T] = s.dev.table[T], s.l1 = s.dev.l1,
           \A j \in L2Index : s.dev.table[T][j] = Now(s, <<i, j>>)
    PROVE  NoMoreLeft(s, x)
<1>1. ASSUME NEW v \in VCluster, NEW e \in L2Entry, LeadsTo(x, v, e) PROVE LeadsTo(s, v, e)
  <2>1. v[1] \in L1Index /\ v[2] \in L2Index /\ v = <<v[1], v[2]>>
    BY DEF VCluster
  <2>2. x.durable = s.durable /\ x.dev.table = s.dev.table /\ x.dev.l1[i] = L1EntryFor(T)
        /\ \A k \in L1Index : k # i => x.dev.l1[k] = s.dev.l1[k]
    BY DEF RootWritten
  <2>3. PICK root \in {x.dev.l1[v[1]], s.durable.l1[v[1]]} :
            IF root.at \in Cluster
            THEN e \in {s.dev.table[root.at][v[2]], s.durable.table[root.at][v[2]]}
            ELSE e = NoEntry
    BY <1>1, <2>2 DEF LeadsTo
  <2>4. CASE v[1] = i /\ root = L1EntryFor(T)
    <3>1. e = s.dev.table[T][v[2]]
      BY <2>3, <2>4, EntryForFacts
    <3>2. e = Now(s, v)
      BY <2>1, <2>4, <3>1
    <3>3. /\ s.l1[v[1]].at \in Cluster => Now(s, v) = s.dev.table[s.l1[v[1]].at][v[2]]
          /\ s.l1[v[1]].at \notin Cluster => Now(s, v) = NoEntry
      BY NowIs
    <3>4. QED
      BY <3>2, <3>3 DEF LeadsTo
  <2>5. CASE root \in {s.dev.l1[v[1]], s.durable.l1[v[1]]}
    BY <2>3, <2>5 DEF LeadsTo
  <2>6. QED
    BY <2>1, <2>2, <2>3, <2>4, <2>5
<1>2. \A c \in Cluster : \A w \in Word :
          /\ x.dev.data[c][w] \in {s.dev.data[c][w], s.durable.data[c][w]}
          /\ x.durable.data[c][w] \in {s.dev.data[c][w], s.durable.data[c][w]}
  BY DEF RootWritten
<1>3. x.img = s.img
  BY DEF RootWritten
<1>4. QED
  BY <1>1, <1>2, <1>3, NoMoreBy

(* The words of the disk, by the kind of entry that is found.              *)
LEMMA ViewReads ==
    ASSUME NEW s, IsStore(s), PayloadsKept(s), NEW v \in VCluster, NEW w \in Word
    PROVE  ViewOf(s)[<<v, w>>] =
               IF LastOf(Now(s, v)) >= Outside THEN 0
               ELSE IF Now(s, v).kind = "standard" /\ Now(s, v).at # None
               THEN s.dev.data[Now(s, v).at][w]
               ELSE ClusterWords(s.img.dev.data, s.img.backing, v, MapOf(Now(s, v), FALSE))[w]
<1> DEFINE e == Now(s, v)
           m == MapOf(e, FALSE)
<1>1. e \in L2Entry /\ m \in ClusterMap
  BY NowFacts, MapTyped
<1>2. ViewOf(s)[<<v, w>>] = IF LastOf(e) >= Outside THEN 0
                            ELSE ClusterWords(s.dev.data, s.img.backing, v, m)[w]
  BY ViewAt
<1>3. \A c \in Cluster : Reaches(e, c) => Has(s, v, e)
  BY NowReaches
<1>4. m.host = e.at /\ m.last = LastOf(e) /\ (m.case = "Compressed" <=> IsPayload(e))
      /\ (m.case = "Plain" <=> e.kind = "standard" /\ e.at # None)
  <2> HIDE DEF e
  <2>1. QED
    BY <1>1, MapOfEntry
<1>5. CASE e.kind = "standard" /\ e.at # None
  <2>1. ClusterWords(s.dev.data, s.img.backing, v, m) = s.dev.data[e.at]
    BY <1>4, <1>5 DEF ClusterWords
  <2> HIDE DEF m, e
  <2>2. QED
    BY <1>2, <1>5, <2>1 DEF e
<1>6. CASE ~(e.kind = "standard" /\ e.at # None) /\ ~(LastOf(e) >= Outside)
  <2>1. m.case = "Compressed" => m.host \in Cluster /\ m.last \in Cluster
    <3>1. /\ m.host \in Offset /\ m.last \in {m.host, m.host + 1}
          /\ m.case \in {"Compressed", "Plain"} => m.host # None
      BY <1>1, MapFacts
    <3>2. ~(m.last >= Outside)
      BY <1>4, <1>6
    <3> HIDE DEF m, e
    <3>3. QED
      BY <3>1, <3>2, Numbers DEF Cluster, Offset, None, Outside
  <2>2. m.case = "Compressed" =>
            /\ s.dev.data[m.host] = s.img.dev.data[m.host]
            /\ s.dev.data[m.last] = s.img.dev.data[m.last]
    BY <1>1, <1>3, <1>4, <2>1 DEF PayloadsKept, Reaches
  <2>3. m.case # "Plain"
    BY <1>4, <1>6
  <2> HIDE DEF m
  <2>4. ClusterWords(s.dev.data, s.img.backing, v, m) =
        ClusterWords(s.img.dev.data, s.img.backing, v, m)
    BY <1>1, <2>2, <2>3, WordsSame
  <2> HIDE DEF e
  <2>5. QED
    BY <1>2, <1>6, <2>4 DEF e, m
<1>7. CASE LastOf(e) >= Outside
  BY <1>2, <1>7
<1>8. QED
  BY <1>5, <1>6, <1>7

(* Everything is on the medium, and every root leads where memory does.    *)
LEMMA SettledLeft ==
    ASSUME NEW s, IsStore(s), PayloadsKept(s), s.durable = s.dev,
           \A v \in VCluster, e \in L2Entry : LeadsTo(s, v, e) => e = Now(s, v),
           NEW v \in VCluster, NEW w \in Word, NEW n, Leaves(s, v, w, n)
    PROVE  n = ViewOf(s)[<<v, w>>]
<1>1. PICK e \in L2Entry : LeadsTo(s, v, e) /\ ReadsAs(s, v, e, w, n)
  BY DEF Leaves
<1>2. e = Now(s, v)
  BY <1>1
<1>3. ViewOf(s)[<<v, w>>] =
          IF LastOf(e) >= Outside THEN 0
          ELSE IF e.kind = "standard" /\ e.at # None
          THEN s.dev.data[e.at][w]
          ELSE ClusterWords(s.img.dev.data, s.img.backing, v, MapOf(e, FALSE))[w]
  BY <1>2, ViewReads
<1>4. QED
  BY <1>1, <1>3 DEF ReadsAs

(* Whatever a loss of power leaves is among what it may leave.             *)
LEMMA LossLeaves ==
    ASSUME NEW s, NEW x, IsStore(x), PayloadsKept(x), x.img = s.img, Mixes(x.dev, s), x.l1 = x.dev.l1,
           NEW v \in VCluster, NEW w \in Word
    PROVE  Leaves(s, v, w, ViewOf(x)[<<v, w>>])
<1> DEFINE e == Now(x, v)
           n == ViewOf(x)[<<v, w>>]
<1>1. e \in L2Entry /\ v[1] \in L1Index /\ v[2] \in L2Index
  BY NowFacts DEF VCluster
<1>2. /\ x.l1[v[1]].at \in Cluster => e = x.dev.table[x.l1[v[1]].at][v[2]]
      /\ x.l1[v[1]].at \notin Cluster => e = NoEntry
  BY NowIs
<1>3. n = IF LastOf(e) >= Outside THEN 0
          ELSE IF e.kind = "standard" /\ e.at # None
          THEN x.dev.data[e.at][w]
          ELSE ClusterWords(x.img.dev.data, x.img.backing, v, MapOf(e, FALSE))[w]
  BY ViewReads
<1> HIDE DEF e, n
<1>4. LeadsTo(s, v, e)
  <2>1. x.dev.l1[v[1]] \in {s.dev.l1[v[1]], s.durable.l1[v[1]]}
    BY <1>1 DEF Mixes
  <2>2. \A c \in Cluster : x.dev.table[c][v[2]] \in {s.dev.table[c][v[2]], s.durable.table[c][v[2]]}
    BY <1>1 DEF Mixes
  <2>3. QED
    BY <1>2, <2>1, <2>2 DEF LeadsTo
<1>5. ReadsAs(s, v, e, w, n)
  <2>1. CASE LastOf(e) >= Outside
    BY <1>3, <2>1 DEF ReadsAs
  <2>2. CASE ~(LastOf(e) >= Outside) /\ e.kind = "standard" /\ e.at # None
    <3>1. e.at \in Cluster
      BY <1>1, <2>2, StandardPlace
    <3>2. x.dev.data[e.at][w] \in {s.dev.data[e.at][w], s.durable.data[e.at][w]}
      BY <3>1 DEF Mixes
    <3>3. QED
      BY <1>3, <2>2, <3>2 DEF ReadsAs
  <2>3. CASE ~(LastOf(e) >= Outside) /\ ~(e.kind = "standard" /\ e.at # None)
    BY <1>3, <2>3 DEF ReadsAs
  <2>4. QED
    BY <2>1, <2>2, <2>3
<1>6. Leaves(s, v, w, n)
  BY <1>1, <1>4, <1>5 DEF Leaves
<1>7. QED
  BY <1>6 DEF n

(* No more is left than before but what the disk now holds.                *)
LeftOrNow(s, x) ==
    \A v \in VCluster, w \in Word : \A n :
        Leaves(x, v, w, n) => Leaves(s, v, w, n) \/ n = ViewOf(x)[<<v, w>>]

LEMMA EntryLeft ==
    ASSUME NEW s, NEW x, IsStore(x), PayloadsKept(x),
           NEW i \in L1Index, NEW j \in L2Index, NEW T, Own(s, i, T), TablesOnce(s),
           NEW c \in Cluster, EntryPut(s, x, T, j, c), s.dev.data[c] = s.durable.data[c],
           Now(x, <<i, j>>) = L2EntryFor(c)
    PROVE  LeftOrNow(s, x)
<1>1. /\ x.dev.l1 = s.dev.l1 /\ x.durable = s.durable /\ x.dev.data = s.dev.data /\ x.img = s.img
      /\ x.dev.table[T][j] = L2EntryFor(c)
      /\ \A a \in Cluster : \A k \in L2Index :
             a # T \/ k # j => x.dev.table[a][k] = s.dev.table[a][k]
  BY DEF EntryPut
<1> SUFFICES ASSUME NEW v \in VCluster, NEW w \in Word, NEW n, Leaves(x, v, w, n)
             PROVE  Leaves(s, v, w, n) \/ n = ViewOf(x)[<<v, w>>]
  BY DEF LeftOrNow
<1>2. PICK e \in L2Entry : LeadsTo(x, v, e) /\ ReadsAs(x, v, e, w, n)
  BY DEF Leaves
<1>3. v[1] \in L1Index /\ v[2] \in L2Index /\ v = <<v[1], v[2]>>
  BY DEF VCluster
<1>4. LeadsTo(s, v, e) \/ (v = <<i, j>> /\ e = L2EntryFor(c))
  <2>1. PICK root \in {s.dev.l1[v[1]], s.durable.l1[v[1]]} :
            IF root.at \in Cluster
            THEN e \in {x.dev.table[root.at][v[2]], s.durable.table[root.at][v[2]]}
            ELSE e = NoEntry
    BY <1>1, <1>2 DEF LeadsTo
  <2>2. CASE root.at = T /\ v[2] = j
    <3>1. Names(s, v[1], T)
      BY <1>3, <2>2 DEF Names, Roots
    <3>2. v[1] = i
      BY <1>3, <3>1, OwnOnly
    <3>3. T \in Cluster
      BY DEF Own
    <3>4. e \in {L2EntryFor(c), s.durable.table[T][j]}
      BY <1>1, <2>1, <2>2, <3>3
    <3>5. QED
      BY <1>3, <2>1, <2>2, <3>2, <3>3, <3>4 DEF LeadsTo
  <2>3. CASE ~(root.at = T /\ v[2] = j)
    <3>1. root.at \in Cluster => x.dev.table[root.at][v[2]] = s.dev.table[root.at][v[2]]
      BY <1>1, <1>3, <2>3
    <3>2. QED
      BY <2>1, <3>1 DEF LeadsTo
  <2>4. QED
    BY <2>2, <2>3
<1>5. CASE LeadsTo(s, v, e)
  <2>1. ReadsAs(s, v, e, w, n)
    BY <1>1, <1>2 DEF ReadsAs
  <2>2. QED
    BY <1>5, <2>1 DEF Leaves
<1>6. CASE v = <<i, j>> /\ e = L2EntryFor(c)
  <2>1. e.kind = "standard" /\ e.at = c /\ e.at # None /\ LastOf(e) = c /\ ~(c >= Outside)
    BY <1>6, EntryForFacts, MadeStandard, Numbers DEF LastOf, Cluster, Outside, None
  <2>2. n = s.dev.data[c][w]
    BY <1>1, <1>2, <2>1 DEF ReadsAs
  <2>3. Now(x, v) = e
    BY <1>6
  <2>4. ViewOf(x)[<<v, w>>] =
          IF LastOf(e) >= Outside THEN 0
          ELSE IF e.kind = "standard" /\ e.at # None
          THEN x.dev.data[e.at][w]
          ELSE ClusterWords(x.img.dev.data, x.img.backing, v, MapOf(e, FALSE))[w]
    BY <2>3, ViewReads
  <2>5. QED
    BY <1>1, <2>1, <2>2, <2>4
<1>7. QED
  BY <1>4, <1>5, <1>6

LEMMA InPlaceLeft ==
    ASSUME NEW s, NEW x, IsStore(x), PayloadsKept(x), NEW c \in Cluster, NEW words,
           DataWritten(s, x, c, words), NEW at \in VCluster,
           \A v \in VCluster, e \in L2Entry : Has(s, v, e) /\ Reaches(e, c) =>
               v = at /\ e.kind = "standard" /\ e.at = c,
           Now(x, at).kind = "standard", Now(x, at).at = c
    PROVE  LeftOrNow(s, x)
<1>1. \A v \in VCluster, e \in L2Entry : LeadsTo(x, v, e) => LeadsTo(s, v, e)
  BY NoMoreTables DEF DataWritten
<1>2. /\ x.img = s.img
      /\ \A d \in Cluster : d # c =>
             x.dev.data[d] = s.dev.data[d] /\ x.durable.data[d] = s.durable.data[d]
      /\ \A w \in Word : x.durable.data[c][w] \in {s.durable.data[c][w], s.dev.data[c][w]}
  BY DEF DataWritten
<1> SUFFICES ASSUME NEW v \in VCluster, NEW w \in Word, NEW n, Leaves(x, v, w, n)
             PROVE  Leaves(s, v, w, n) \/ n = ViewOf(x)[<<v, w>>]
  BY DEF LeftOrNow
<1>3. PICK e \in L2Entry : LeadsTo(x, v, e) /\ ReadsAs(x, v, e, w, n)
  BY DEF Leaves
<1>4. LeadsTo(s, v, e)
  BY <1>1, <1>3
<1>5. ReadsAs(s, v, e, w, n) \/ n = ViewOf(x)[<<v, w>>]
  <2>1. CASE LastOf(e) >= Outside \/ ~(e.kind = "standard" /\ e.at # None)
    BY <1>2, <1>3, <2>1 DEF ReadsAs
  <2>2. CASE ~(LastOf(e) >= Outside) /\ e.kind = "standard" /\ e.at # None
    <3>1. e.at \in Cluster /\ Reaches(e, e.at)
      BY <2>2, StandardPlace DEF Reaches
    <3>2. n \in {x.dev.data[e.at][w], x.durable.data[e.at][w]}
      BY <1>3, <2>2 DEF ReadsAs
    <3>3. CASE e.at # c
      BY <1>2, <2>2, <3>1, <3>2, <3>3 DEF ReadsAs
    <3>4. CASE e.at = c /\ n = x.durable.data[c][w]
      BY <1>2, <2>2, <3>4 DEF ReadsAs
    <3>5. CASE e.at = c /\ n = x.dev.data[c][w]
      <4>1. v = at
        BY <1>4, <3>1, <3>5, LeadsReaches
      <4>2. ViewOf(x)[<<v, w>>] =
              IF LastOf(Now(x, v)) >= Outside THEN 0
              ELSE IF Now(x, v).kind = "standard" /\ Now(x, v).at # None
              THEN x.dev.data[Now(x, v).at][w]
              ELSE ClusterWords(x.img.dev.data, x.img.backing, v, MapOf(Now(x, v), FALSE))[w]
        BY ViewReads
      <4>3. LastOf(Now(x, v)) = c /\ ~(c >= Outside) /\ c # None
        BY <4>1, Numbers DEF LastOf, Cluster, Outside, None
      <4>4. QED
        BY <3>5, <4>1, <4>2, <4>3
    <3>6. QED
      BY <3>2, <3>3, <3>4, <3>5
  <2>3. QED
    BY <2>1, <2>2
<1>6. QED
  BY <1>4, <1>5 DEF Leaves

(***************************************************************************)
(* Every step leaves no more than was left before, or what is there now    *)
(***************************************************************************)
LEMMA NoMoreIsLeft ==
    ASSUME NEW s, NEW x, NoMoreLeft(s, x)
    PROVE  LeftOrNow(s, x)
  BY DEF NoMoreLeft, LeftOrNow

LEMMA CopyLeft ==
    ASSUME Typed, Serial, CountsInv, NEW t \in Writers,
           \/ Calm(t) \/ Flushes(t) \/ Allocate(t) \/ WriteRelease(t) \/ LookupL2(t) \/ ForgetL2(t)
           \/ FlushL1(t)
    PROVE  LeftOrNow(Stored, Stored')
<1> DEFINE s == Stored
           x == Stored'
<1>1. CASE Calm(t) \/ Flushes(t) \/ Allocate(t) \/ WriteRelease(t)
  <2>1. Steady(s, x)
    BY <1>1, StepsSteady
  <2> HIDE DEF s, x
  <2>2. LeftOrNow(s, x)
    BY <2>1, SteadyNoMore, NoMoreIsLeft
  <2>3. QED
    BY <2>2 DEF s, x
<1>2. CASE LookupL2(t) \/ ForgetL2(t)
  <2>1. Recached(s, x)
    BY <1>2, CacheChanges
  <2> HIDE DEF s, x
  <2>2. LeftOrNow(s, x)
    BY <2>1, RecachedNoMore, NoMoreIsLeft
  <2>3. QED
    BY <2>2 DEF s, x
<1>3. CASE FlushL1(t)
  <2>1. \E i, T : RootFollowed(s, x, i, T)
    BY <1>3, RootWrites
  <2> HIDE DEF s, x
  <2>2. LeftOrNow(s, x)
    BY <2>1, FollowNoMore, NoMoreIsLeft
  <2>3. QED
    BY <2>2 DEF s, x
<1>4. QED
  BY <1>1, <1>2, <1>3

LEMMA BeforeLeft ==
    ASSUME Typed, Serial, CountsInv, ProgressInv, Matched, NEW t \in Writers,
           Fill(t) \/ Zero(t) \/ CopyTable(t) \/ WriteL1(t)
    PROVE  LeftOrNow(Stored, Stored')
<1> DEFINE s == Stored
           x == Stored'
           T == reg[t].table
           i == reg[t].at[1]
<1>1. CASE Fill(t)
  <2> DEFINE n == reg[t].new
  <2>1. \E words : DataWritten(s, x, n, words)
    BY <1>1, FillWrites
  <2>2. pc[t] = "fill"
    BY <1>1 DEF Fill
  <2>3. Active(s, n) = {}
    BY <2>2, Begin DEF Working, HasNew, FilledSteps, Unused, Taken
  <2> HIDE DEF s, x, n
  <2>4. LeftOrNow(s, x)
    BY <2>1, <2>3, FillNoMore, NoMoreIsLeft
  <2>5. QED
    BY <2>4 DEF s, x
<1>2. CASE Zero(t) \/ CopyTable(t)
  <2>1. \E row : RowWritten(s, x, T, row)
    BY <1>2, RowWrites
  <2>2. pc[t] \in {"zero", "copy"}
    BY <1>2 DEF Zero, CopyTable
  <2>3. Active(s, T) = {}
    BY <2>2, Begin DEF Working, ShadowSteps, Unused, Taken
  <2> HIDE DEF s, x, T
  <2>4. LeftOrNow(s, x)
    BY <2>1, <2>3, RowNoMore, NoMoreIsLeft
  <2>5. QED
    BY <2>4 DEF s, x
<1>3. CASE WriteL1(t)
  <2>1. pc[t] = "l1Write" /\ l1Lock = Nobody
    BY <1>3 DEF WriteL1
  <2>2. Working(s, "l1Write", reg[t]) /\ i \in L1Index
    BY <2>1, Begin
  <2>3. T \in Cluster /\ s.durable.table[T] = s.dev.table[T]
    BY <2>2 DEF Working, ShadowSteps, Unused, Taken
  <2>4. s.l1 = s.dev.l1
    BY <2>1 DEF Matched, Stored
  <2>5. \A j \in L2Index : s.dev.table[T][j] = Now(s, <<i, j>>)
    BY <2>1 DEF ProgressInv, Going, RowNow
  <2>6. RootWritten(s, x, i, T)
    BY <1>3, RootWrites
  <2> HIDE DEF s, x, i, T
  <2>7. LeftOrNow(s, x)
    BY <2>2, <2>3, <2>4, <2>5, <2>6, RootNoMore, NoMoreIsLeft
  <2>8. QED
    BY <2>7 DEF s, x
<1>4. QED
  BY <1>1, <1>2, <1>3

LEMMA WriteEntryLeft ==
    ASSUME Typed, Typed', Serial, CountsInv, PayloadInv', ProgressInv, NEW t \in Writers,
           WriteEntry(t)
    PROVE  LeftOrNow(Stored, Stored')
<1> DEFINE s == Stored
           x == Stored'
           i == reg[t].at[1]
           j == reg[t].at[2]
           T == reg[t].table
           n == reg[t].new
<1>1. pc[t] = "entry"
  BY DEF WriteEntry
<1>2. /\ Sound(s, Mine(pc[t], reg[t])) /\ Working(s, "entry", reg[t])
      /\ i \in L1Index /\ j \in L2Index /\ reg[t].at \in VCluster
  BY <1>1, Begin
<1>3. n \in Cluster /\ Own(s, i, T) /\ TablesOnce(s)
  BY <1>2 DEF Working, HasNew, FilledSteps, Unused, Taken, Sound
<1>4. EntryPut(s, x, T, j, n) /\ reg[t].at = <<i, j>>
  BY <1>2, <1>3, EntryWrites DEF Own, VCluster
<1>5. Now(x, <<i, j>>) = L2EntryFor(n)
  BY <1>4, EntryNow
<1>6. s.dev.data[n] = s.durable.data[n]
  BY <1>1 DEF ProgressInv, Going, HasNew, FilledSteps, InNew, InNewDurably
<1>7. IsStore(x) /\ PayloadsKept(x)
  BY StoredNext DEF PayloadInv, Lineage
<1> HIDE DEF s, x, i, j, T, n
<1>8. LeftOrNow(s, x)
  BY <1>2, <1>3, <1>4, <1>5, <1>6, <1>7, EntryLeft
<1>9. QED
  BY <1>8 DEF s, x

(* The cluster written in place is the one the disk has there.             *)
LEMMA HostNow ==
    ASSUME Typed, Serial, CountsInv, ProgressInv, NEW t \in Writers, WriteInPlace(t)
    PROVE  /\ reg[t].at \in VCluster /\ reg[t].map.host \in Cluster
           /\ Now(Stored, reg[t].at) \in L2Entry
           /\ Now(Stored, reg[t].at).kind = "standard"
           /\ Now(Stored, reg[t].at).at = reg[t].map.host
<1> DEFINE e == Now(Stored, reg[t].at)
<1>1. pc[t] = "inPlace" /\ reg[t].map.case = "Plain"
  BY TypedParts DEF WriteInPlace, LocalsGood, GoodAt
<1>2. reg[t].at \in VCluster /\ IsStore(Stored)
  BY <1>1, Begin
<1>3. e \in L2Entry
  BY <1>2, NowFacts
<1>4. FindsNow(Stored, reg[t])
  BY <1>1 DEF ProgressInv, Going
<1>5. PICK b \in BOOLEAN : reg[t].map = MapOf(e, b)
  BY <1>4 DEF FindsNow
<1>6. reg[t].map.host \in Cluster
  BY InPlaceWrites
<1> HIDE DEF e
<1>7. e.kind = "standard" /\ e.at = reg[t].map.host
  BY <1>1, <1>3, <1>5, MapOfEntry
<1>8. QED
  BY <1>2, <1>3, <1>6, <1>7 DEF e

LEMMA WriteInPlaceLeft ==
    ASSUME Typed, Typed', Serial, CountsInv, PayloadInv, PayloadInv', ProgressInv,
           NEW t \in Writers, WriteInPlace(t)
    PROVE  LeftOrNow(Stored, Stored')
<1> DEFINE s == Stored
           x == Stored'
           r == reg[t]
           c == reg[t].map.host
           at == reg[t].at
<1>1. IsStore(s) /\ Lineage(s) /\ Mapping(s, pc[t], r) /\ r \in Local
  BY StoredTyped, TypedParts DEF PayloadInv
<1>2. pc[t] = "inPlace" /\ r.map.case = "Plain"
  BY TypedParts DEF WriteInPlace, LocalsGood, GoodAt
<1>3. c \in Cluster /\ at \in VCluster /\ \E words : DataWritten(s, x, c, words)
  BY InPlaceWrites, HostNow
<1>4. Now(s, at).kind = "standard" /\ Now(s, at).at = c
  BY HostNow
<1>5. Now(x, at) = Now(s, at)
  BY <1>3, InPlaceNow DEF SameNow
<1>6. IsStore(x) /\ PayloadsKept(x)
  BY StoredNext DEF PayloadInv, Lineage
<1> HIDE DEF s, x, r
<1>7. \A v \in VCluster, e \in L2Entry : Has(s, v, e) /\ Reaches(e, c) =>
          v = at /\ e.kind = "standard" /\ e.at = c
  BY <1>1, <1>2, <1>3, InPlaceSpares DEF r
<1> HIDE DEF c, at
<1>8. LeftOrNow(s, x)
  BY <1>3, <1>4, <1>5, <1>6, <1>7, InPlaceLeft
<1>9. QED
  BY <1>8 DEF s, x

LEMMA StepLeft ==
    ASSUME Typed, Typed', Serial, CountsInv, PayloadInv, PayloadInv', ProgressInv, Matched,
           NEW t \in Writers, Lookup(t) \/ DeviceError(t) \/ StartWrite(t) \/ WriteStep(t)
    PROVE  LeftOrNow(Stored, Stored')
  BY CopyLeft, BeforeLeft, WriteEntryLeft, WriteInPlaceLeft DEF Lookup, WriteStep, Calm, Flushes

(* flush() leaves the disk, and so does a loss of power.                   *)
LEMMA FlushSettles ==
    ASSUME Typed, Typed', PayloadInv', ProgressInv, Matched, Flush
    PROVE  \A v \in VCluster, w \in Word : \A n :
               Leaves(Stored', v, w, n) => n = ViewOf(Stored')[<<v, w>>]
<1> DEFINE s == Stored
           x == Stored'
<1>1. IsStore(x) /\ PayloadsKept(x)
  BY StoredNext DEF PayloadInv, Lineage
<1>2. x.dev = s.dev /\ x.l1 = s.l1 /\ x.durable = x.dev
  BY DEF Flush, Stored, memory
<1>3. ASSUME NEW v \in VCluster, NEW e \in L2Entry, LeadsTo(x, v, e)
      PROVE  e = Now(x, v)
  <2>1. v[1] \in L1Index /\ v[2] \in L2Index /\ v = <<v[1], v[2]>>
    BY DEF VCluster
  <2>2. IF s.dev.l1[v[1]].at \in Cluster THEN e = s.dev.table[s.dev.l1[v[1]].at][v[2]]
        ELSE e = NoEntry
    BY <1>2, <1>3 DEF LeadsTo
  <2>3. /\ x.l1[v[1]].at \in Cluster => Now(x, v) = x.dev.table[x.l1[v[1]].at][v[2]]
        /\ x.l1[v[1]].at \notin Cluster => Now(x, v) = NoEntry
    BY NowIs
  <2>4. CASE s.l1[v[1]] = s.dev.l1[v[1]]
    BY <1>2, <2>2, <2>3, <2>4
  <2>5. CASE s.l1[v[1]] # s.dev.l1[v[1]]
    <3>1. l1Lock # Nobody
      BY <2>5 DEF Matched, Stored
    <3>2. PICK t \in Writers : l1Lock = t
      BY <3>1, TypedParts DEF LocksTyped
    <3>3. pc[t] = "l1Flush" /\ s.dev.l1 = [s.l1 EXCEPT ![reg[t].at[1]] = L1EntryFor(reg[t].table)]
      BY <3>2 DEF Matched, Stored
    <3>4. s.l1 \in [L1Index -> L1Entry] /\ reg[t].table \in Cluster
      BY <3>3, TypedParts DEF Stored, StoreTyped, LocalsGood, GoodAt, TableSteps
    <3>5. v[1] = reg[t].at[1]
      BY <2>1, <2>5, <3>3, <3>4
    <3>6. s.dev.l1[v[1]] = L1EntryFor(reg[t].table)
      BY <2>1, <3>3, <3>4, <3>5
    <3>7. e = s.dev.table[reg[t].table][v[2]]
      BY <2>2, <3>4, <3>6, EntryForFacts
    <3>8. s.dev.table[reg[t].table][v[2]] = Now(s, v)
      BY <2>1, <3>3, <3>5 DEF ProgressInv, Going, RowNow
    <3>9. /\ s.l1[v[1]].at \in Cluster => Now(s, v) = s.dev.table[s.l1[v[1]].at][v[2]]
          /\ s.l1[v[1]].at \notin Cluster => Now(s, v) = NoEntry
      BY NowIs
    <3>10. QED
      BY <1>2, <2>3, <3>7, <3>8, <3>9
  <2>6. QED
    BY <2>4, <2>5
<1> HIDE DEF s, x
<1>4. \A v \in VCluster, w \in Word : \A n : Leaves(x, v, w, n) => n = ViewOf(x)[<<v, w>>]
  BY <1>1, <1>2, <1>3, SettledLeft
<1>5. QED
  BY <1>4 DEF x

LEMMA RestSettles ==
    ASSUME NEW x, IsStore(x), PayloadsKept(x), AtRest(x)
    PROVE  \A v \in VCluster, w \in Word : \A n : Leaves(x, v, w, n) => n = ViewOf(x)[<<v, w>>]
<1>1. ASSUME NEW v \in VCluster, NEW e \in L2Entry, LeadsTo(x, v, e)
      PROVE  e = Now(x, v)
  <2>1. IF x.dev.l1[v[1]].at \in Cluster THEN e = x.dev.table[x.dev.l1[v[1]].at][v[2]]
        ELSE e = NoEntry
    BY <1>1 DEF AtRest, LeadsTo
  <2>2. /\ x.l1[v[1]].at \in Cluster => Now(x, v) = x.dev.table[x.l1[v[1]].at][v[2]]
        /\ x.l1[v[1]].at \notin Cluster => Now(x, v) = NoEntry
    BY NowIs
  <2>3. QED
    BY <2>1, <2>2 DEF AtRest
<1>2. QED
  BY <1>1, SettledLeft DEF AtRest

(***************************************************************************)
(* What may survive                                                        *)
(***************************************************************************)
LEMMA ViewIs == View = ViewOf(Stored) /\ View' = ViewOf(Stored')
  BY DEF View, ViewOf, Stored

LEMMA MayStep ==
    ASSUME MayInv, LeftOrNow(Stored, Stored'), Observe, crashes' = crashes
    PROVE  MayInv'
<1> DEFINE s == Stored
           x == Stored'
           m == may'
<1>1. \A y \in VWord : m[y] = {ViewOf(x)[y]} \cup may[y]
  BY ViewIs DEF Observe
<1>2. MayCovers(s, may) /\ LeftOrNow(s, x)
  BY DEF MayInv
<1> HIDE DEF s, x, m
<1>3. MayCovers(x, m)
  <2> SUFFICES ASSUME NEW v \in VCluster, NEW w \in Word
               PROVE  /\ ViewOf(x)[<<v, w>>] \in m[<<v, w>>]
                      /\ \A n : Leaves(x, v, w, n) => n \in m[<<v, w>>]
    BY DEF MayCovers
  <2>1. <<v, w>> \in VWord
    BY DEF VWord
  <2>2. QED
    BY <1>1, <1>2, <2>1 DEF MayCovers, LeftOrNow
<1>4. QED
  BY <1>3 DEF MayInv, x, m

LEMMA MaySettled ==
    ASSUME NEW x, NEW m, \A y \in VWord : m[y] = {ViewOf(x)[y]},
           \A v \in VCluster, w \in Word : \A n : Leaves(x, v, w, n) => n = ViewOf(x)[<<v, w>>]
    PROVE  MayCovers(x, m)
<1>1. \A v \in VCluster, w \in Word : <<v, w>> \in VWord
  BY DEF VWord
<1>2. QED
  BY <1>1 DEF MayCovers

LEMMA MayFlush ==
    ASSUME Typed, Typed', PayloadInv', ProgressInv, Matched, Flush
    PROVE  MayInv'
<1> DEFINE x == Stored'
           m == may'
<1>1. \A y \in VWord : m[y] = {ViewOf(x)[y]}
  BY ViewIs DEF Flush, Settle
<1>2. \A v \in VCluster, w \in Word : \A n : Leaves(x, v, w, n) => n = ViewOf(x)[<<v, w>>]
  BY FlushSettles
<1> HIDE DEF x, m
<1>3. MayCovers(x, m)
  BY <1>1, <1>2, MaySettled
<1>4. QED
  BY <1>3 DEF MayInv, x, m

LEMMA MayCrash ==
    ASSUME Typed, Typed', PayloadInv', Crash
    PROVE  MayInv'
<1> DEFINE x == Stored'
           m == may'
<1>1. crashes' # crashes
  BY TypedParts, WriteAssumption DEF Crash, BoundsTyped
<1>2. \A y \in VWord : m[y] = {ViewOf(x)[y]}
  BY <1>1, ViewIs DEF Crash, Observe
<1>3. AtRest(x)
  BY DEF Crash, Stored, AtRest
<1>4. IsStore(x) /\ PayloadsKept(x)
  BY StoredNext DEF PayloadInv, Lineage
<1> HIDE DEF x, m
<1>5. \A v \in VCluster, w \in Word : \A n : Leaves(x, v, w, n) => n = ViewOf(x)[<<v, w>>]
  BY <1>3, <1>4, RestSettles
<1>6. MayCovers(x, m)
  BY <1>2, <1>5, MaySettled
<1>7. QED
  BY <1>6 DEF MayInv, x, m

LEMMA MayInit ==
    ASSUME Init, Typed, PayloadInv
    PROVE  MayInv
<1> DEFINE x == Stored
           m == may
<1>1. \A y \in VWord : m[y] = {ViewOf(x)[y]}
  BY ViewIs DEF Init
<1>2. AtRest(x)
  BY DEF Init, Stored, AtRest
<1>3. IsStore(x) /\ PayloadsKept(x)
  BY StoredTyped DEF PayloadInv, Lineage
<1> HIDE DEF x, m
<1>4. \A v \in VCluster, w \in Word : \A n : Leaves(x, v, w, n) => n = ViewOf(x)[<<v, w>>]
  BY <1>2, <1>3, RestSettles
<1>5. MayCovers(x, m)
  BY <1>1, <1>4, MaySettled
<1>6. QED
  BY <1>5 DEF MayInv, x, m

(* A writer's step is observed, and no power is lost.                      *)
LEMMA Observed ==
    ASSUME NEW t \in Writers, Lookup(t) \/ DeviceError(t) \/ StartWrite(t) \/ WriteStep(t)
    PROVE  Observe /\ crashes' = crashes
<1>1. CASE Lookup(t) \/ DeviceError(t) \/ StartWrite(t)
  BY <1>1 DEF Lookup, LookupL1, LookupL2, Undecodable, DeviceError, StartWrite, bounds
<1>2. CASE WriteStep(t)
  BY <1>2 DEF WriteStep, TakeWriteLock, PlanInPlace, PlanReallocate, WriteInPlace, Allocate, NoRoom,
     FlushAllocate, Fill, FlushFill, Repoint, Zero, FlushZero, CopyTable, FlushCopy, WriteL1,
     FlushL1, WriteEntry, FlushEntry, ForgetL2, ForgetData, WriteRelease, FlushRelease,
     ReleaseFails, NextChunk, EndWrite, FlushThen, bounds
<1>3. QED
  BY <1>1, <1>2

MayFollow == faults = 0 => MayInv

(* Everything a run without device failures keeps.                         *)
DiskInv ==
    /\ Typed /\ Serial /\ CountsInv /\ PayloadInv
    /\ Smooth /\ L1Follows /\ MayFollow

LEMMA DiskInit ==
    ASSUME \A image \in Images : SoundImage(image), Init
    PROVE  DiskInv
<1>1. Typed /\ Serial /\ CountsInv /\ PayloadInv
  BY InitTyped, InitFine, PayloadInit
<1>2. Smooth
  BY RestSmooth
<1>3. Matched
  BY <1>1, TypedParts, WriteAssumption DEF Init, Matched, Idle, Threads
<1>4. QED
  BY <1>1, <1>2, <1>3, MayInit DEF DiskInv, L1Follows, MayFollow

LEMMA DiskNext ==
    ASSUME Readers = {}, DiskInv, [Next]_vars
    PROVE  DiskInv'
<1>1. Typed' /\ Serial' /\ CountsInv' /\ PayloadInv' /\ Smooth' /\ L1Follows'
  BY NextTyped, NextFine, PayloadNext, SmoothNext, L1FollowsNext DEF DiskInv
<1>2. MayFollow'
  <2>1. CASE UNCHANGED vars
    BY <2>1 DEF vars, memory, bounds, DiskInv, MayFollow, MayInv, Stored
  <2>2. CASE Next /\ faults' = 0
    <3>1. ProgressInv /\ Matched /\ MayInv
      BY <2>2, NoFaultBefore DEF DiskInv, Smooth, L1Follows, MayFollow
    <3>2. CASE Flush \/ Crash
      BY <1>1, <3>1, <3>2, MayFlush, MayCrash DEF DiskInv, MayFollow
    <3>3. CASE \E t \in Writers : Lookup(t) \/ DeviceError(t) \/ StartWrite(t) \/ WriteStep(t)
      BY <1>1, <3>1, <3>3, Observed, StepLeft, MayStep DEF DiskInv, MayFollow
    <3>4. QED
      BY <2>2, <3>2, <3>3 DEF Next, Threads
  <2>3. QED
    BY <2>1, <2>2 DEF MayFollow
<1>3. QED
  BY <1>1, <1>2 DEF DiskInv

(***************************************************************************)
(* The words a writer has still to change                                  *)
(***************************************************************************)
LandedAt(step, r) ==
    \/ step \in {"entryFlush", "forgetL2", "forgetData", "next"}
    \/ step \in ReleaseSteps /\ r.why = "release"

TodoAt(step, r) ==
    LET ahead == FromV(r.at) \ FromV(AfterV(r.range.last))
    IN  IF step = "idle" THEN {}
        ELSE {y \in VWord :
                /\ y[1] \in IF LandedAt(step, r) THEN ahead \ {r.at} ELSE ahead
                /\ y[2] \in Chunk(r.range, y[1])}

LEMMA TodoIs ==
    ASSUME NEW t \in Writers
    PROVE  Todo(t) = TodoAt(pc[t], reg[t]) /\ Todo(t)' = TodoAt(pc'[t], reg'[t])
  BY DEF Todo, TodoAt, Landed, LandedAt

LEMMA TodoSame ==
    ASSUME NEW step, NEW next, NEW r, NEW q, step # "idle", next # "idle",
           q.range = r.range, q.at = r.at, LandedAt(step, r) <=> LandedAt(next, q)
    PROVE  TodoAt(step, r) = TodoAt(next, q)
  BY DEF TodoAt

(* The chunk at hand, of the words still to change.                        *)
ChunkAt(r) == {y \in VWord : y[1] = r.at /\ y[2] \in Chunk(r.range, r.at)}

LEMMA TodoLands ==
    ASSUME NEW step, NEW next, NEW r, step # "idle", next # "idle", r.at \in VCluster,
           r.range.last \in VCluster, AtMost(r.at, r.range.last),
           ~LandedAt(step, r), LandedAt(next, r)
    PROVE  ChunkAt(r) \subseteq TodoAt(step, r) /\ TodoAt(next, r) = TodoAt(step, r) \ ChunkAt(r)
<1>1. r.at[1] \in Nat /\ r.at[2] \in Nat /\ r.range.last[1] \in Nat /\ r.range.last[2] \in Nat
  BY Numbers DEF VCluster, L1Index, L2Index
<1>2. r.at \in FromV(r.at) /\ r.at \notin FromV(AfterV(r.range.last))
  BY <1>1 DEF FromV, AfterV, AtMost
<1> DEFINE ahead == FromV(r.at) \ FromV(AfterV(r.range.last))
<1>3. r.at \in ahead
  BY <1>2
<1>4. TodoAt(step, r) = {y \in VWord : y[1] \in ahead /\ y[2] \in Chunk(r.range, y[1])}
  BY DEF TodoAt
<1>5. TodoAt(next, r) = {y \in VWord : y[1] \in ahead \ {r.at} /\ y[2] \in Chunk(r.range, y[1])}
  BY DEF TodoAt
<1> HIDE DEF ahead
<1>6. QED
  BY <1>3, <1>4, <1>5 DEF ChunkAt

LEMMA AfterOne ==
    ASSUME NEW v \in VCluster
    PROVE  FromV(AfterV(v)) = FromV(v) \ {v}
<1>1. v[1] \in 0 .. L1Len - 1 /\ v[2] \in 0 .. L2Len - 1 /\ v = <<v[1], v[2]>>
  BY DEF VCluster, L1Index, L2Index
<1>2. ASSUME NEW u \in VCluster
      PROVE  u \in FromV(AfterV(v)) <=> u \in FromV(v) /\ u # v
  <2>1. u[1] \in 0 .. L1Len - 1 /\ u[2] \in 0 .. L2Len - 1 /\ u = <<u[1], u[2]>>
    BY DEF VCluster, L1Index, L2Index
  <2>2. u # v <=> u[1] # v[1] \/ u[2] # v[2]
    BY <1>1, <2>1
  <2>3. CASE v[2] + 1 < L2Len
    BY <1>1, <2>1, <2>2, <2>3, Numbers DEF FromV, AfterV
  <2>4. CASE ~(v[2] + 1 < L2Len)
    BY <1>1, <2>1, <2>2, <2>4, Numbers DEF FromV, AfterV
  <2>5. QED
    BY <2>3, <2>4
<1>3. FromV(AfterV(v)) \subseteq VCluster /\ FromV(v) \subseteq VCluster
  BY DEF FromV
<1>4. QED
  BY <1>2, <1>3

LEMMA TodoMovesOn ==
    ASSUME NEW r, NEW q, r.at \in VCluster, q.range = r.range, q.at = AfterV(r.at)
    PROVE  TodoAt("next", r) = TodoAt("l1", q)
<1>1. FromV(q.at) = FromV(r.at) \ {r.at}
  BY AfterOne
<1>2. LandedAt("next", r) /\ ~LandedAt("l1", q)
  BY DEF LandedAt, ReleaseSteps
<1>3. QED
  BY <1>1, <1>2 DEF TodoAt

(* The steps after which the writer is in the same chunk, or the next,     *)
(* with the same words to change.                                          *)
Plods(t) == TodoAt(pc'[t], reg'[t]) = TodoAt(pc[t], reg[t]) /\ reg'[t].val = reg[t].val

LEMMA LookupPlods ==
    ASSUME Typed, NEW t \in Writers, LookupL1(t) \/ LookupL2(t), ~Leave(t)
    PROVE  Plods(t)
<1>1. t \in Threads /\ reg[t] \in Local
  BY TypedParts
<1>2. /\ pc[t] \in {"l1", "l2"} /\ pc'[t] \in {"l2", "plan"}
      /\ reg'[t].at = reg[t].at /\ reg'[t].range = reg[t].range /\ reg'[t].val = reg[t].val
  BY <1>1, GoSet DEF LookupL1, LookupL2, Looked, Local
<1>3. QED
  BY <1>2, TodoSame DEF Plods, LandedAt, ReleaseSteps

LEMMA NextPlods ==
    ASSUME Typed, NEW t \in Writers, NextChunk(t)
    PROVE  Plods(t)
<1>1. t \in Threads /\ reg[t] \in Local
  BY TypedParts
<1>2. pc[t] = "next" /\ pc'[t] = "l1"
  BY GoSet DEF NextChunk
<1>3. reg'[t] = [reg[t] EXCEPT !.at = AfterV(@), !.new = None, !.table = None, !.old = None]
  BY GoSet DEF NextChunk
<1>4. /\ reg'[t].at = AfterV(reg[t].at) /\ reg'[t].range = reg[t].range
      /\ reg'[t].val = reg[t].val /\ reg[t].at \in VCluster
  BY <1>1, <1>3 DEF Local
<1>5. QED
  BY <1>2, <1>4, TodoMovesOn DEF Plods

LEMMA SetPlods ==
    ASSUME Typed, NEW t \in Writers, faults' = 0, ~Leave(t),
           PlanReallocate(t) \/ Allocate(t) \/ Repoint(t)
    PROVE  Plods(t)
<1>1. t \in Threads /\ reg[t] \in Local /\ ~Fault
  BY TypedParts, NoFault
<1>2. /\ pc[t] \in {"plan", "allocate", "repoint"} /\ pc'[t] \in {"allocate", "allocateFlush", "entry"}
      /\ reg'[t].at = reg[t].at /\ reg'[t].range = reg[t].range /\ reg'[t].val = reg[t].val
  <2>1. CASE PlanReallocate(t)
    BY <1>1, <2>1, GoSet DEF PlanReallocate, Local
  <2>2. CASE Allocate(t)
    BY <1>1, <2>2, GoSet DEF Allocate, Local
  <2>3. CASE Repoint(t)
    BY <1>1, <2>3, GoSet DEF Repoint, Local
  <2>4. QED
    BY <2>1, <2>2, <2>3
<1>3. QED
  BY <1>2, TodoSame DEF Plods, LandedAt, ReleaseSteps

LEMMA ForgetPlods ==
    ASSUME Typed, NEW t \in Writers, ForgetData(t)
    PROVE  Plods(t)
<1>1. t \in Threads /\ reg[t] \in Local
  BY TypedParts
<1>2. pc[t] = "forgetData" /\ pc'[t] \in {"next", "release"}
  BY GoSet DEF ForgetData
<1>3. reg'[t] = [reg[t] EXCEPT !.why = "release"]
  BY GoSet DEF ForgetData
<1>4. /\ reg'[t].at = reg[t].at /\ reg'[t].range = reg[t].range
      /\ reg'[t].val = reg[t].val /\ reg'[t].why = "release"
  BY <1>1, <1>3 DEF Local
<1>5. QED
  BY <1>2, <1>4, TodoSame DEF Plods, LandedAt, ReleaseSteps

(* The steps that leave every local alone.                                 *)
LEMMA SteadyPlods ==
    ASSUME Typed, ProgressInv, NEW t \in Writers, faults' = 0, ~Leave(t),
           \/ TakeWriteLock(t) \/ PlanInPlace(t) \/ FlushAllocate(t) \/ Fill(t) \/ FlushFill(t)
           \/ Zero(t) \/ FlushZero(t) \/ CopyTable(t) \/ FlushCopy(t) \/ WriteL1(t) \/ FlushL1(t)
           \/ FlushEntry(t) \/ ForgetL2(t)
    PROVE  Plods(t)
<1>1. t \in Threads /\ ~Fault /\ GoodAt(pc[t], reg[t], imageLen)
  BY TypedParts, NoFault DEF LocalsGood
<1>2. reg'[t] = reg[t]
  BY <1>1, GoSet DEF TakeWriteLock, PlanInPlace, FlushAllocate, Fill, FlushFill, Zero, FlushZero,
     CopyTable, FlushCopy, WriteL1, FlushL1, FlushEntry, ForgetL2, FlushThen, WrittenTo
<1>3. CASE FlushAllocate(t)
  <2>1. pc[t] = "allocateFlush"
    BY <1>3 DEF FlushAllocate
  <2>2. reg[t].why \in {"data", "table", "copy"}
    BY <1>1, <2>1 DEF GoodAt
  <2>3. pc'[t] \in {"fill", "zero", "copy"}
    BY <1>3, <2>2, GoSet DEF FlushAllocate, FlushThen
  <2>4. QED
    BY <1>2, <2>1, <2>3, TodoSame DEF Plods, LandedAt, ReleaseSteps
<1>4. CASE FlushL1(t)
  <2>1. pc[t] = "l1Flush" /\ pc'[t] = IF reg[t].why = "copy" THEN "release" ELSE "entry"
    BY <1>4, GoSet DEF FlushL1
  <2>2. QED
    BY <1>2, <2>1, TodoSame DEF Plods, LandedAt, ReleaseSteps
<1>5. CASE FlushEntry(t) \/ ForgetL2(t)
  <2>1. pc[t] \in {"entryFlush", "forgetL2"} /\ pc'[t] \in {"forgetL2", "forgetData"}
    BY <1>5, GoSet DEF FlushEntry, ForgetL2, FlushThen
  <2>2. QED
    BY <1>2, <2>1, TodoSame DEF Plods, LandedAt, ReleaseSteps
<1>6. CASE \/ TakeWriteLock(t) \/ PlanInPlace(t) \/ Fill(t) \/ FlushFill(t)
           \/ Zero(t) \/ FlushZero(t) \/ CopyTable(t) \/ FlushCopy(t) \/ WriteL1(t)
  <2> DEFINE Plain == {"lock", "l1", "plan", "inPlace", "fill", "fillFlush", "repoint", "zero",
                       "zeroFlush", "l1Write", "copy", "copyFlush", "l1Flush"}
  <2>1. pc[t] \in Plain /\ pc'[t] \in Plain
    BY <1>1, <1>6, GoSet DEF TakeWriteLock, PlanInPlace, Fill, FlushFill, Zero, FlushZero,
       CopyTable, FlushCopy, WriteL1, FlushThen, WrittenTo
  <2>2. QED
    BY <1>2, <2>1, TodoSame DEF Plods, LandedAt, ReleaseSteps
<1>7. QED
  BY <1>3, <1>4, <1>5, <1>6

LEMMA ReleasePlods ==
    ASSUME Typed, ProgressInv, NEW t \in Writers, faults' = 0,
           WriteRelease(t) \/ FlushRelease(t) \/ ReleaseFails(t)
    PROVE  Plods(t)
<1>1. t \in Threads /\ ~Fault
  BY TypedParts, NoFault
<1>2. pc[t] \in ReleaseSteps
  BY DEF WriteRelease, FlushRelease, ReleaseFails, ReleaseSteps
<1>3. reg[t].why \in {"copy", "release"}
  BY <1>2 DEF ProgressInv, Going
<1>4. reg'[t] = reg[t]
  BY GoSet DEF WriteRelease, FlushRelease, ReleaseFails, FlushThen
<1>5. pc'[t] \in {"releaseFlush", AfterRelease(t)}
  BY <1>1, GoSet DEF WriteRelease, FlushRelease, ReleaseFails, FlushThen
<1>6. QED
  BY <1>2, <1>3, <1>4, <1>5, TodoSame DEF Plods, LandedAt, ReleaseSteps, AfterRelease

LEMMA StepPlods ==
    ASSUME Typed, ProgressInv, NEW t \in Writers, faults' = 0,
           Lookup(t) \/ DeviceError(t) \/ StartWrite(t) \/ WriteStep(t),
           ~StartWrite(t), ~WriteInPlace(t), ~WriteEntry(t), ~Leave(t)
    PROVE  Plods(t)
<1>1. ~DeviceError(t) /\ ~Undecodable(t) /\ ~NoRoom(t) /\ ~EndWrite(t)
  BY DEF DeviceError, Undecodable, NoRoom, EndWrite
<1>2. QED
  BY <1>1, LookupPlods, NextPlods, SetPlods, ForgetPlods, SteadyPlods, ReleasePlods
     DEF Lookup, WriteStep

(***************************************************************************)
(* The step that lands a chunk                                             *)
(***************************************************************************)
Landing(s, x, r) ==
    \A v \in VCluster, w \in Word :
        ViewOf(x)[<<v, w>>] = IF v = r.at /\ w \in Chunk(r.range, r.at) THEN r.val
                              ELSE ViewOf(s)[<<v, w>>]

LEMMA EntryLands ==
    ASSUME Typed, Typed', Serial, CountsInv, PayloadInv', ProgressInv, NEW t \in Writers,
           WriteEntry(t)
    PROVE  Landing(Stored, Stored', reg[t])
<1> DEFINE s == Stored
           x == Stored'
           r == reg[t]
           c == reg[t].new
<1>1. pc[t] = "entry"
  BY DEF WriteEntry
<1>2. IsStore(s) /\ IsStore(x) /\ PayloadsKept(x)
  BY StoredTyped, StoredNext DEF PayloadInv, Lineage
<1>3. /\ c \in Cluster /\ r.table \in Cluster /\ r.at \in VCluster
      /\ \E T, j : EntryPut(s, x, T, j, c)
  BY <1>1, Begin, EntryWrites DEF Working, HasNew, FilledSteps, Unused, Taken, Own
<1>4. x.img = s.img /\ x.dev.data = s.dev.data
  BY <1>3 DEF EntryPut
<1>5. /\ Now(x, r.at) = L2EntryFor(c)
      /\ \A v \in VCluster : v # r.at => Now(x, v) = Now(s, v)
  BY EntryNow
<1>6. InNew(s, r) /\ Seeded(s, r)
  BY <1>1 DEF ProgressInv, Going, Copying, HasNew, FilledSteps
<1> HIDE DEF s, x, r
<1>7. ASSUME NEW v \in VCluster, NEW w \in Word, v # r.at
      PROVE  ViewOf(x)[<<v, w>>] = ViewOf(s)[<<v, w>>]
  BY <1>2, <1>4, <1>5, <1>7, LooksAlike
<1>8. ASSUME NEW w \in Word
      PROVE  ViewOf(x)[<<r.at, w>>] = IF w \in Chunk(r.range, r.at) THEN r.val
                                      ELSE ViewOf(s)[<<r.at, w>>]
  <2> DEFINE e == L2EntryFor(c)
  <2>1. e.kind = "standard" /\ e.at = c /\ c # None /\ LastOf(e) = c /\ ~(c >= Outside)
    BY <1>3, EntryForFacts, MadeStandard, Numbers DEF LastOf, Cluster, Outside, None
  <2>2. ViewOf(x)[<<r.at, w>>] =
          IF LastOf(Now(x, r.at)) >= Outside THEN 0
          ELSE IF Now(x, r.at).kind = "standard" /\ Now(x, r.at).at # None
          THEN x.dev.data[Now(x, r.at).at][w]
          ELSE ClusterWords(x.img.dev.data, x.img.backing, r.at, MapOf(Now(x, r.at), FALSE))[w]
    BY <1>2, <1>3, ViewReads
  <2>3. ViewOf(x)[<<r.at, w>>] = x.dev.data[c][w]
    BY <1>5, <2>1, <2>2
  <2>4. x.dev.data[c][w] = r.full[w]
    BY <1>4, <1>6 DEF InNew, r
  <2>5. QED
    BY <1>6, <2>3, <2>4 DEF Seeded
<1>9. Landing(s, x, r)
  BY <1>7, <1>8 DEF Landing
<1>10. QED
  BY <1>9 DEF s, x, r

LEMMA InPlaceLands ==
    ASSUME Typed, Typed', Serial, CountsInv, PayloadInv, PayloadInv', ProgressInv,
           NEW t \in Writers, WriteInPlace(t)
    PROVE  Landing(Stored, Stored', reg[t])
<1> DEFINE s == Stored
           x == Stored'
           r == reg[t]
           c == reg[t].map.host
           words == Spliced(dev.data[c], r.range, r.at, r.val)
<1>1. pc[t] = "inPlace" /\ r.map.case = "Plain"
  BY TypedParts DEF WriteInPlace, LocalsGood, GoodAt
<1>2. /\ IsStore(s) /\ IsStore(x) /\ PayloadsKept(x) /\ PayloadsKept(s) /\ Lineage(s)
      /\ Mapping(s, "inPlace", r) /\ r \in Local
  BY <1>1, StoredTyped, StoredNext, TypedParts DEF PayloadInv, Lineage
<1>3. DataWritten(s, x, c, words)
  BY InPlaceWrites
<1>4. /\ r.at \in VCluster /\ c \in Cluster /\ Now(s, r.at) \in L2Entry
      /\ Now(s, r.at).kind = "standard" /\ Now(s, r.at).at = c
  BY HostNow
<1>5. \A v \in VCluster : Now(x, v) = Now(s, v)
  BY InPlaceNow DEF SameNow
<1>6. \A w \in Word : words[w] = IF w \in Chunk(r.range, r.at) THEN r.val ELSE s.dev.data[c][w]
  BY DEF Spliced, Stored
<1> HIDE DEF s, x, r, words
<1>7. ASSUME NEW v \in VCluster, NEW w \in Word, v # r.at
      PROVE  ViewOf(x)[<<v, w>>] = ViewOf(s)[<<v, w>>]
  <2>1. \A d \in Cluster : Reaches(Now(s, v), d) => Has(s, v, Now(s, v)) /\ Now(s, v) \in L2Entry
    BY <1>2, NowReaches, NowFacts
  <2>2. ~Reaches(Now(s, v), c)
    BY <1>1, <1>2, <1>4, <1>7, <2>1, InPlaceSpares DEF r
  <2>3. \A d \in Cluster : Reaches(Now(s, v), d) => x.dev.data[d] = s.dev.data[d]
    BY <1>3, <2>2 DEF DataWritten
  <2>4. x.img = s.img
    BY <1>3 DEF DataWritten
  <2> HIDE DEF c
  <2>5. QED
    BY <1>2, <1>5, <2>3, <2>4, LooksAlike
<1> HIDE DEF c
<1>8. ASSUME NEW w \in Word
      PROVE  ViewOf(x)[<<r.at, w>>] = IF w \in Chunk(r.range, r.at) THEN r.val
                                      ELSE ViewOf(s)[<<r.at, w>>]
  <2>1. c # None /\ LastOf(Now(s, r.at)) = c /\ ~(c >= Outside)
    BY <1>4, Numbers DEF LastOf, Cluster, Outside, None
  <2>2. ViewOf(x)[<<r.at, w>>] =
          IF LastOf(Now(x, r.at)) >= Outside THEN 0
          ELSE IF Now(x, r.at).kind = "standard" /\ Now(x, r.at).at # None
          THEN x.dev.data[Now(x, r.at).at][w]
          ELSE ClusterWords(x.img.dev.data, x.img.backing, r.at, MapOf(Now(x, r.at), FALSE))[w]
    BY <1>2, <1>4, ViewReads
  <2>3. ViewOf(s)[<<r.at, w>>] =
          IF LastOf(Now(s, r.at)) >= Outside THEN 0
          ELSE IF Now(s, r.at).kind = "standard" /\ Now(s, r.at).at # None
          THEN s.dev.data[Now(s, r.at).at][w]
          ELSE ClusterWords(s.img.dev.data, s.img.backing, r.at, MapOf(Now(s, r.at), FALSE))[w]
    BY <1>2, <1>4, ViewReads
  <2>4. ViewOf(x)[<<r.at, w>>] = x.dev.data[c][w]
    BY <1>4, <1>5, <2>1, <2>2
  <2>5. ViewOf(s)[<<r.at, w>>] = s.dev.data[c][w]
    BY <1>4, <2>1, <2>3
  <2>6. x.dev.data[c] = words
    BY <1>3 DEF DataWritten
  <2>7. QED
    BY <1>6, <2>4, <2>5, <2>6
<1>9. Landing(s, x, r)
  BY <1>7, <1>8 DEF Landing
<1>10. QED
  BY <1>9 DEF s, x, r

(***************************************************************************)
(* A flat disk                                                             *)
(***************************************************************************)
TodoNow == [t \in Writers |-> Todo(t)]
PayloadNow == [t \in Writers |-> reg[t].val]

LEMMA DiskStuff ==
    /\ Disk!diskVars = <<View, may, TodoNow, PayloadNow>>
    /\ Disk!diskVars' = <<View', may', TodoNow', PayloadNow'>>
  BY DEF Disk!diskVars, TodoNow, PayloadNow

(* The other writers' words and payloads are as they were.                 *)
LEMMA OthersWait ==
    ASSUME Typed, Serial, NEW t \in Writers,
           Lookup(t) \/ DeviceError(t) \/ StartWrite(t) \/ WriteStep(t)
    PROVE  \A u \in Writers : u # t => Todo(u)' = Todo(u) /\ reg'[u].val = reg[u].val
<1> SUFFICES ASSUME NEW u \in Writers, u # t
             PROVE  Todo(u)' = Todo(u) /\ reg'[u].val = reg[u].val
  OBVIOUS
<1>1. pc'[u] = pc[u] /\ reg'[u] = reg[u]
  BY Beside
<1>2. QED
  BY <1>1, TodoIs

LEMMA TodoPut ==
    ASSUME NEW t \in Writers, NEW words, Todo(t)' = words,
           \A u \in Writers : u # t => Todo(u)' = Todo(u)
    PROVE  TodoNow' = [TodoNow EXCEPT ![t] = words]
  BY DEF TodoNow

LEMMA TodoKept ==
    ASSUME \A u \in Writers : Todo(u)' = Todo(u) /\ reg'[u].val = reg[u].val
    PROVE  TodoNow' = TodoNow /\ PayloadNow' = PayloadNow
  BY DEF TodoNow, PayloadNow

(* A step nobody sees keeps what may survive.                              *)
LEMMA MayKept ==
    ASSUME Typed, MayInv, Observe, crashes' = crashes, View' = View
    PROVE  may' = may
<1>1. may \in [VWord -> SUBSET Nat]
  BY DEF Typed, TypeOK
<1>2. \A y \in VWord : View[y] \in may[y]
  BY ViewIs DEF MayInv, MayCovers, VWord
<1>3. may' = [y \in VWord |-> {View[y]} \cup may[y]]
  BY DEF Observe
<1>4. QED
  BY <1>1, <1>2, <1>3

LEMMA PayloadTyped == Typed => PayloadNow \in [Writers -> Nat]
  BY TypedParts DEF PayloadNow, Local

PayloadGood == PayloadNow \in [Writers -> Nat]

LEMMA PayloadAfter == Typed' => PayloadNow' \in [Writers -> Nat]
<1>1. Typed => PayloadGood
  BY PayloadTyped DEF PayloadGood
<1>2. Typed' => PayloadGood'
  BY <1>1, PTL
<1>3. QED
  BY <1>2 DEF PayloadGood

LEMMA LandRefines ==
    ASSUME DiskInv, DiskInv', NEW t \in Writers, faults = 0, faults' = 0,
           WriteInPlace(t) \/ WriteEntry(t)
    PROVE  Disk!Land(t)
<1> DEFINE r == reg[t]
           words == ChunkAt(r)
<1>1. /\ Typed /\ Typed' /\ Serial /\ CountsInv /\ PayloadInv /\ PayloadInv' /\ ProgressInv
      /\ Lookup(t) \/ DeviceError(t) \/ StartWrite(t) \/ WriteStep(t)
  BY DEF DiskInv, Smooth, WriteStep
<1>2. Landing(Stored, Stored', r)
  BY <1>1, EntryLands, InPlaceLands
<1>3. Observe /\ crashes' = crashes
  BY <1>1, Observed
<1>4. pc[t] \in {"inPlace", "entry"} /\ pc'[t] \in {"next", "entryFlush"} /\ reg'[t] = r
  BY <1>1, NoFault, GoSet DEF WriteInPlace, WriteEntry, Written, WrittenTo
<1>5. r.at \in VCluster /\ r.range.last \in VCluster /\ AtMost(r.at, r.range.last)
  BY <1>1, TypedParts DEF Local, CallRange, LocalsGood, GoodAt
<1>6. words \subseteq Todo(t) /\ Todo(t)' = Todo(t) \ words
  <2>1. ~LandedAt(pc[t], r) /\ LandedAt(pc'[t], r)
    BY <1>4 DEF LandedAt, ReleaseSteps
  <2>2. QED
    BY <1>4, <1>5, <2>1, TodoLands, TodoIs
<1>7. TodoNow' = [TodoNow EXCEPT ![t] = Todo(t) \ words]
  BY <1>1, <1>6, OthersWait, TodoPut
<1>8. PayloadNow' = PayloadNow
  BY <1>1, <1>4, OthersWait DEF PayloadNow
<1>9. View' = [y \in VWord |-> IF y \in words THEN PayloadNow[t] ELSE View[y]]
  <2>1. \A y \in VWord : View'[y] = IF y \in words THEN PayloadNow[t] ELSE View[y]
    <3> SUFFICES ASSUME NEW y \in VWord
                 PROVE  View'[y] = IF y \in words THEN PayloadNow[t] ELSE View[y]
      OBVIOUS
    <3>1. y[1] \in VCluster /\ y[2] \in Word /\ y = <<y[1], y[2]>>
      BY DEF VWord
    <3>2. View'[y] = IF y[1] = r.at /\ y[2] \in Chunk(r.range, r.at) THEN r.val ELSE View[y]
      BY <1>2, <3>1, ViewIs DEF Landing
    <3>3. QED
      BY <3>1, <3>2 DEF ChunkAt, PayloadNow
  <2>2. View' = [y \in VWord |-> View'[y]]
    BY DEF View, ViewThrough
  <2>3. QED
    BY <2>1, <2>2
<1>10. may' = [y \in VWord |-> may[y] \cup {View'[y]}]
  BY <1>3 DEF Observe
<1>11. TodoNow[t] = Todo(t)
  BY DEF TodoNow
<1> HIDE DEF words, r
<1>12. words \in SUBSET TodoNow[t] /\ TodoNow' = [TodoNow EXCEPT ![t] = @ \ words]
  BY <1>6, <1>7, <1>11
<1>13. QED
  BY <1>8, <1>9, <1>10, <1>12 DEF Disk!Land, TodoNow, PayloadNow

(* The steps nobody sees: with nothing changed, or a writer at rest.       *)
LEMMA UnseenRefines ==
    ASSUME DiskInv, DiskInv', NEW t \in Writers, faults = 0, faults' = 0,
           Lookup(t) \/ DeviceError(t) \/ StartWrite(t) \/ WriteStep(t),
           ~WriteInPlace(t), ~WriteEntry(t)
    PROVE  Disk!Start(t) \/ Disk!GiveUp(t) \/ UNCHANGED Disk!diskVars
<1>1. /\ Typed /\ Typed' /\ Serial /\ CountsInv /\ PayloadInv /\ ProgressInv /\ MayInv
  BY DEF DiskInv, Smooth, MayFollow
<1>2. View' = View
  BY <1>1, StepUnseen, ViewIs DEF Unseen
<1>3. may' = may
  BY <1>1, <1>2, Observed, MayKept
<1>4. PayloadNow' \in [Writers -> Nat]
  BY <1>1, PayloadAfter
<1>5. \A u \in Writers \ {t} : PayloadNow'[u] = PayloadNow[u]
  BY <1>1, OthersWait DEF PayloadNow
<1>6. Todo(t) \in SUBSET VWord /\ Todo(t)' \in SUBSET VWord
  BY TodoIs DEF TodoAt
<1>7. TodoNow' = [TodoNow EXCEPT ![t] = Todo(t)']
  BY <1>1, OthersWait, TodoPut
<1>8. CASE StartWrite(t)
  <2>1. TodoNow[t] = {}
    BY <1>8 DEF TodoNow, Todo, StartWrite
  <2>2. \E words \in SUBSET VWord : TodoNow' = [TodoNow EXCEPT ![t] = words]
    BY <1>6, <1>7
  <2>3. Disk!Start(t)
    BY <1>2, <1>3, <1>4, <1>5, <2>1, <2>2 DEF Disk!Start, Disk!Renew, TodoNow, PayloadNow
  <2>4. QED
    BY <2>3
<1>9. CASE Leave(t)
  <2>1. pc'[t] = "idle"
    BY <1>1, <1>9, GoSet DEF Leave
  <2>2. Todo(t)' = {}
    BY <2>1, TodoIs DEF TodoAt
  <2>3. TodoNow' = [TodoNow EXCEPT ![t] = {}]
    BY <1>7, <2>2
  <2>4. Disk!GiveUp(t)
    BY <1>2, <1>3, <1>4, <1>5, <2>3 DEF Disk!GiveUp, Disk!Renew, TodoNow, PayloadNow
  <2>5. QED
    BY <2>4
<1>10. CASE ~StartWrite(t) /\ ~Leave(t)
  <2>1. Plods(t)
    BY <1>1, <1>10, StepPlods
  <2>2. Todo(t)' = Todo(t) /\ reg'[t].val = reg[t].val
    BY <2>1, TodoIs DEF Plods
  <2>3. TodoNow' = TodoNow /\ PayloadNow' = PayloadNow
    BY <1>1, <2>2, OthersWait, TodoKept
  <2>4. QED
    BY <1>2, <1>3, <2>3, DiskStuff
<1>11. QED
  BY <1>8, <1>9, <1>10

LEMMA FlushRefines ==
    ASSUME DiskInv, Flush
    PROVE  Disk!Flush
<1>1. View' = View /\ UNCHANGED <<pc, reg>>
  BY DEF Flush, View, memory
<1>2. may' = [y \in VWord |-> {View[y]}]
  BY <1>1 DEF Flush, Settle
<1>3. TodoNow' = TodoNow /\ PayloadNow' = PayloadNow
  <2>1. \A u \in Writers : Todo(u)' = Todo(u)
    BY <1>1, TodoIs
  <2>2. QED
    BY <1>1, <2>1, TodoKept
<1>4. QED
  BY <1>1, <1>2, <1>3 DEF Disk!Flush, TodoNow, PayloadNow

LEMMA CrashRefines ==
    ASSUME DiskInv, DiskInv', MayInv, Crash
    PROVE  Disk!Crash
<1> DEFINE s == Stored
           x == Stored'
<1>1. Typed /\ Typed' /\ PayloadInv'
  BY DEF DiskInv
<1>2. dev' \in Survivors /\ x = Left(dev')
  BY DEF Crash, Stored, Left
<1>3. IsStore(x) /\ PayloadsKept(x) /\ x.img = s.img /\ x.l1 = x.dev.l1
  BY <1>1, StoredNext DEF PayloadInv, Lineage, Crash, Stored
<1>4. Mixes(x.dev, s)
  BY <1>1, <1>2, LeftWithin DEF Left
<1>5. MayCovers(s, may)
  BY DEF MayInv
<1>6. View' = ViewOf(x)
  BY ViewIs
<1>7. View' \in [VWord -> Nat]
  <2>1. x.dev \in Device /\ Targets(x.l1) \in [L1Index -> Offset] /\ x.img.backing \in Backing
    BY <1>3 DEF IsStore, Targets, L1Entry, Image
  <2> HIDE DEF x
  <2>2. ViewOf(x) \in [VWord -> Nat]
    BY <2>1, ViewTyped DEF ViewOf
  <2>3. QED
    BY <1>6, <2>2
<1> HIDE DEF s, x
<1>8. \A y \in VWord : View'[y] \in may[y]
  <2> SUFFICES ASSUME NEW v \in VCluster, NEW w \in Word PROVE View'[<<v, w>>] \in may[<<v, w>>]
    BY DEF VWord
  <2>1. Leaves(s, v, w, ViewOf(x)[<<v, w>>])
    BY <1>3, <1>4, LossLeaves
  <2>2. QED
    BY <1>5, <1>6, <2>1 DEF MayCovers
<1>9. crashes' # crashes
  BY <1>1, TypedParts, WriteAssumption DEF Crash, BoundsTyped
<1>10. may' = [y \in VWord |-> {View'[y]}]
  BY <1>9 DEF Crash, Observe
<1>11. TodoNow' = [u \in Writers |-> {}]
  <2>1. \A u \in Writers : pc'[u] = "idle"
    BY DEF Crash, Idle, Threads
  <2>2. \A u \in Writers : Todo(u)' = {}
    BY <2>1, TodoIs DEF TodoAt
  <2>3. QED
    BY <2>2 DEF TodoNow
<1>12. PayloadNow' \in [Writers -> Nat]
  BY <1>1, PayloadAfter
<1>13. QED
  BY <1>7, <1>8, <1>10, <1>11, <1>12 DEF Disk!Crash, TodoNow, PayloadNow

LEMMA DiskStarts ==
    ASSUME Init, DiskInv
    PROVE  Disk!Init
<1> DEFINE s == Stored
<1>1. IsStore(s) /\ Typed
  BY StoredTyped DEF DiskInv
<1>2. View \in [VWord -> Nat]
  <2>1. s.dev \in Device /\ Targets(s.l1) \in [L1Index -> Offset] /\ s.img.backing \in Backing
    BY <1>1 DEF IsStore, Targets, L1Entry, Image
  <2> HIDE DEF s
  <2>2. ViewOf(s) \in [VWord -> Nat]
    BY <2>1, ViewTyped DEF ViewOf
  <2>3. QED
    BY <2>2, ViewIs DEF s
<1>3. may = [y \in VWord |-> {View[y]}]
  BY DEF Init
<1>4. TodoNow = [u \in Writers |-> {}]
  <2>1. \A u \in Writers : pc[u] = "idle"
    BY DEF Init, Idle, Threads
  <2>2. \A u \in Writers : Todo(u) = {}
    BY <2>1 DEF Todo
  <2>3. QED
    BY <2>2 DEF TodoNow
<1>5. PayloadNow \in [Writers -> Nat]
  BY <1>1, PayloadTyped
<1>6. QED
  BY <1>2, <1>3, <1>4, <1>5 DEF Disk!Init, TodoNow, PayloadNow

LEMMA StepRefines ==
    ASSUME Readers = {}, DiskInv, DiskInv', faults = 0, faults' = 0, [Next]_vars
    PROVE  [Disk!Next]_(Disk!diskVars)
<1>1. CASE UNCHANGED vars
  <2>1. View' = View /\ may' = may /\ UNCHANGED <<pc, reg>>
    BY <1>1 DEF vars, memory, bounds, View
  <2>2. \A u \in Writers : Todo(u)' = Todo(u)
    BY <2>1, TodoIs
  <2>3. QED
    BY <2>1, <2>2, TodoKept, DiskStuff
<1>2. CASE Flush
  <2>1. Disk!Next
    BY <1>2, FlushRefines DEF Disk!Next
  <2>2. QED
    BY <2>1
<1>3. CASE Crash
  <2>1. Disk!Next
    BY <1>3, CrashRefines DEF Disk!Next, DiskInv, MayFollow
  <2>2. QED
    BY <2>1
<1>4. CASE \E t \in Writers : Lookup(t) \/ DeviceError(t) \/ StartWrite(t) \/ WriteStep(t)
  <2>1. PICK t \in Writers : Lookup(t) \/ DeviceError(t) \/ StartWrite(t) \/ WriteStep(t)
    BY <1>4
  <2>2. Disk!Start(t) \/ Disk!Land(t) \/ Disk!GiveUp(t) \/ UNCHANGED Disk!diskVars
    BY <2>1, UnseenRefines, LandRefines
  <2>3. Disk!Next \/ UNCHANGED Disk!diskVars
    BY <2>2 DEF Disk!Next
  <2>4. QED
    BY <2>3
<1>5. QED
  BY <1>1, <1>2, <1>3, <1>4 DEF Next, Threads

(* Whatever the sound image, the writers and the calls, and wherever power *)
(* is lost: as long as the device fails no call, write_at, flush and what  *)
(* they call implement a flat disk.  A write changes its own words to its  *)
(* own value, chunk by chunk, or stops; flush() makes the contents         *)
(* survive; a crash leaves in each word a value it has held since.         *)
THEOREM WritePathIsADisk ==
    ASSUME Readers = {}, \A image \in Images : SoundImage(image)
    PROVE  Spec /\ [](faults = 0) => ImplementsDisk
<1>1. Init => DiskInv /\ Disk!Init
  BY DiskInit, DiskStarts
<1>2. DiskInv /\ [Next]_vars => DiskInv'
  BY DiskNext
<1>3. Spec => []DiskInv
  BY <1>1, <1>2, PTL DEF Spec
<1>4. DiskInv /\ DiskInv' /\ faults = 0 /\ (faults = 0)' /\ [Next]_vars => [Disk!Next]_(Disk!diskVars)
  BY StepRefines
<1>5. QED
  BY <1>1, <1>3, <1>4, PTL DEF Spec, ImplementsDisk, Disk!Spec

(***************************************************************************)
(* Exact counts, while nothing has failed and no power was lost            *)
(***************************************************************************)
(* What the device refers to, and by which entry.                          *)
Refs(s, c) == PathsThrough(s.dev, Targets(s.dev.l1), c)

OnDevice(s, v) == EntryAt(s.dev, Targets(s.dev.l1), v)

(* The reference an entry has and the write path never gives back.         *)
Forgone(e, c) ==
    \/ e.kind = "zero" /\ e.at = c
    \/ e.kind = "straddling" /\ LastOf(e) = c

LeftIn(s, c) ==
    {v \in VCluster : OnDevice(s, v) # Opened(s, v) /\ Forgone(Opened(s, v), c)}

(* The clusters a writer has taken and not published, or replaced and not  *)
(* released.                                                               *)
Spare(step, r) ==
    {c \in Cluster :
        \/ c = r.new /\ (HasNew(step, r) \/ (step = "allocateFlush" /\ r.why = "data"))
        \/ c = r.table /\ (step \in ShadowSteps \/ (step = "allocateFlush" /\ r.why # "data"))
        \/ c = r.l1Entry.at /\ r.why = "copy" /\ step \in {"l1Flush", "release"}
        \/ c = r.old /\ (step \in {"entryFlush", "forgetL2", "forgetData"} \/ LastRelease(step, r))}

Spares == {c \in Cluster : \E t \in Writers : c \in Spare(pc[t], reg[t])}

Exact(s, spare) ==
    \A c \in Cluster :
        Cardinality(Refs(s, c)) + Cardinality(Kept(s, c)) + Cardinality(LeftIn(s, c))
        + (IF c \in spare THEN 1 ELSE 0) = s.dev.rc[c]

CountedOut == faults = 0 /\ crashes = 0 => Exact(Stored, Spares)

(* A set of places counted with and without one of them.                   *)
LEMMA SplitCount ==
    ASSUME NEW B \in SUBSET Place, NEW p \in Place
    PROVE  /\ Cardinality(B \ {p}) \in Nat
           /\ Cardinality(B) = Cardinality(B \ {p}) + (IF p \in B THEN 1 ELSE 0)
<1>1. IsFiniteSet(B) /\ Cardinality(B) \in Nat
  BY Counting
<1>2. CASE p \in B
  <2>1. Cardinality(B \ {p}) = Cardinality(B) - 1
    BY <1>1, <1>2, FS_RemoveElement
  <2>2. Cardinality(B \ {p}) \in Nat
    BY Counting
  <2>3. QED
    BY <1>1, <1>2, <2>1, <2>2
<1>3. CASE p \notin B
  <2>1. B \ {p} = B
    BY <1>3
  <2>2. QED
    BY <1>1, <1>3, <2>1
<1>4. QED
  BY <1>2, <1>3

LEMMA RefsFacts ==
    ASSUME NEW s, NEW c
    PROVE  /\ Refs(s, c) \in SUBSET Place /\ LeftIn(s, c) \in SUBSET Place
           /\ Kept(s, c) \in SUBSET Place
           /\ \A i \in L1Index : <<i>> \in Refs(s, c) <=> s.dev.l1[i].at = c
           /\ \A i \in L1Index : <<i>> \notin LeftIn(s, c)
           /\ \A v \in VCluster : v \in Refs(s, c) <=> Reaches(OnDevice(s, v), c)
           /\ \A v \in VCluster : v \in LeftIn(s, c) <=>
                  OnDevice(s, v) # Opened(s, v) /\ Forgone(Opened(s, v), c)
<1>1. Refs(s, c) \in SUBSET Place /\ Kept(s, c) \in SUBSET Place
  BY KeptInPlace DEF Refs, Kept
<1>2. LeftIn(s, c) \in SUBSET Place /\ \A i \in L1Index : <<i>> \notin LeftIn(s, c)
  BY PlacesApart DEF LeftIn
<1>3. ASSUME NEW i \in L1Index PROVE <<i>> \in Refs(s, c) <=> s.dev.l1[i].at = c
  BY PlacesApart DEF Refs, PathsThrough, Targets
<1>4. ASSUME NEW v \in VCluster PROVE v \in Refs(s, c) <=> Reaches(OnDevice(s, v), c)
  <2>1. \A i \in L1Index : v # <<i>>
    BY PlacesApart
  <2>2. QED
    BY <2>1 DEF Refs, PathsThrough, OnDevice, Reaches
<1>5. QED
  BY <1>1, <1>2, <1>3, <1>4 DEF LeftIn

(* The counts stay exact when what changes in them, at one place, adds up. *)
LEMMA ExactMoves ==
    ASSUME NEW s, NEW x, NEW spare, NEW less, NEW p \in Place, x.img = s.img,
           \A c \in Cluster : s.dev.rc[c] \in Nat /\ x.dev.rc[c] \in Nat,
           \A c \in Cluster : /\ Refs(x, c) \ {p} = Refs(s, c) \ {p}
                              /\ LeftIn(x, c) \ {p} = LeftIn(s, c) \ {p},
           \A c \in Cluster :
               (IF p \in Refs(x, c) THEN 1 ELSE 0) + (IF p \in LeftIn(x, c) THEN 1 ELSE 0)
               + (IF c \in less THEN 1 ELSE 0) + s.dev.rc[c]
             = (IF p \in Refs(s, c) THEN 1 ELSE 0) + (IF p \in LeftIn(s, c) THEN 1 ELSE 0)
               + (IF c \in spare THEN 1 ELSE 0) + x.dev.rc[c],
           Exact(s, spare)
    PROVE  Exact(x, less)
<1> SUFFICES ASSUME NEW c \in Cluster
             PROVE  Cardinality(Refs(x, c)) + Cardinality(Kept(x, c)) + Cardinality(LeftIn(x, c))
                    + (IF c \in less THEN 1 ELSE 0) = x.dev.rc[c]
  BY DEF Exact
<1> DEFINE refs == Cardinality(Refs(s, c) \ {p})
           left == Cardinality(LeftIn(s, c) \ {p})
           kept == Cardinality(Kept(s, c))
<1>1. /\ refs \in Nat
      /\ Cardinality(Refs(s, c)) = refs + (IF p \in Refs(s, c) THEN 1 ELSE 0)
  BY RefsFacts, SplitCount
<1>2. Cardinality(Refs(x, c)) = refs + (IF p \in Refs(x, c) THEN 1 ELSE 0)
  BY RefsFacts, SplitCount
<1>3. /\ left \in Nat
      /\ Cardinality(LeftIn(s, c)) = left + (IF p \in LeftIn(s, c) THEN 1 ELSE 0)
  BY RefsFacts, SplitCount
<1>4. Cardinality(LeftIn(x, c)) = left + (IF p \in LeftIn(x, c) THEN 1 ELSE 0)
  BY RefsFacts, SplitCount
<1>5. kept \in Nat /\ Cardinality(Kept(x, c)) = kept
  BY CostTyped DEF Kept
<1>6. Cardinality(Refs(s, c)) + kept + Cardinality(LeftIn(s, c))
      + (IF c \in spare THEN 1 ELSE 0) = s.dev.rc[c]
  BY DEF Exact
<1> HIDE DEF refs, left, kept
<1>7. QED
  BY <1>1, <1>2, <1>3, <1>4, <1>5, <1>6

(* Nothing the device refers to changes.                                   *)
SameOnDevice(s, x) ==
    /\ x.img = s.img
    /\ \A i \in L1Index : x.dev.l1[i].at = s.dev.l1[i].at
    /\ \A v \in VCluster : OnDevice(x, v) = OnDevice(s, v)

LEMMA RefsSame ==
    ASSUME NEW s, NEW x, SameOnDevice(s, x), NEW c
    PROVE  Refs(x, c) = Refs(s, c) /\ LeftIn(x, c) = LeftIn(s, c)
<1>1. \A v \in VCluster : Opened(x, v) = Opened(s, v)
  BY DEF Opened, SameOnDevice
<1>2. LeftIn(x, c) = LeftIn(s, c)
  BY <1>1 DEF LeftIn, SameOnDevice
<1>3. \A p \in Place : p \in Refs(x, c) <=> p \in Refs(s, c)
  BY RefsFacts DEF SameOnDevice, Place
<1>4. QED
  BY <1>2, <1>3, RefsFacts

LEMMA ExactSame ==
    ASSUME NEW s, NEW x, NEW spare, NEW less, SameOnDevice(s, x),
           \A c \in Cluster : s.dev.rc[c] \in Nat /\ x.dev.rc[c] \in Nat,
           \A c \in Cluster :
               (IF c \in less THEN 1 ELSE 0) + s.dev.rc[c] = (IF c \in spare THEN 1 ELSE 0) + x.dev.rc[c],
           Exact(s, spare)
    PROVE  Exact(x, less)
<1>1. PICK p \in Place : TRUE
  BY Numbers DEF Place, L1Index
<1>2. x.img = s.img /\ \A c \in Cluster : Refs(x, c) = Refs(s, c) /\ LeftIn(x, c) = LeftIn(s, c)
  BY RefsSame DEF SameOnDevice
<1>3. \A c \in Cluster :
               (IF p \in Refs(x, c) THEN 1 ELSE 0) + (IF p \in LeftIn(x, c) THEN 1 ELSE 0)
               + (IF c \in less THEN 1 ELSE 0) + s.dev.rc[c]
             = (IF p \in Refs(s, c) THEN 1 ELSE 0) + (IF p \in LeftIn(s, c) THEN 1 ELSE 0)
               + (IF c \in spare THEN 1 ELSE 0) + x.dev.rc[c]
  BY <1>2
<1>4. QED
  BY <1>2, <1>3, ExactMoves

(* The L1 entry of i comes to name T, whose rows lead where i led before.  *)
LEMMA RootCounts ==
    ASSUME NEW s, NEW x, IsStore(s), IsStore(x), NEW i \in L1Index, NEW T \in Cluster, NEW n,
           NEW spare, NEW less, RootWritten(s, x, i, T),
           \A j \in L2Index : s.dev.table[T][j] = OnDevice(s, <<i, j>>),
           n # T, n # s.dev.l1[i].at,
           \A c \in Cluster : c \in spare <=> c \in {n, T},
           \A c \in Cluster : c \in less <=> c \in {n, s.dev.l1[i].at},
           Exact(s, spare)
    PROVE  Exact(x, less)
<1>1. /\ x.img = s.img /\ x.dev.rc = s.dev.rc /\ x.dev.table = s.dev.table
      /\ x.dev.l1[i].at = T /\ \A k \in L1Index : k # i => x.dev.l1[k] = s.dev.l1[k]
  BY DEF RootWritten, L1EntryFor
<1>2. ASSUME NEW v \in VCluster PROVE OnDevice(x, v) = OnDevice(s, v)
  <2>1. v[1] \in L1Index /\ v[2] \in L2Index /\ v = <<v[1], v[2]>>
    BY DEF VCluster
  <2>2. CASE v[1] = i
    <3>1. OnDevice(x, v) = s.dev.table[T][v[2]]
      BY <1>1, <2>1, <2>2 DEF OnDevice, EntryAt, Targets
    <3>2. s.dev.table[T][v[2]] = OnDevice(s, <<i, v[2]>>)
      BY <2>1
    <3>3. QED
      BY <2>1, <2>2, <3>1, <3>2
  <2>3. CASE v[1] # i
    BY <1>1, <2>1, <2>3 DEF OnDevice, EntryAt, Targets
  <2>4. QED
    BY <2>2, <2>3
<1> DEFINE p == <<i>>
<1>3. p \in Place
  BY PlacesApart
<1>4. ASSUME NEW c \in Cluster
      PROVE  /\ Refs(x, c) \ {p} = Refs(s, c) \ {p}
             /\ LeftIn(x, c) \ {p} = LeftIn(s, c) \ {p}
  <2>1. \A v \in VCluster : Opened(x, v) = Opened(s, v)
    BY <1>1 DEF Opened
  <2>2. LeftIn(x, c) = LeftIn(s, c)
    BY <1>2, <2>1 DEF LeftIn
  <2>3. \A k \in L1Index : k # i => (<<k>> \in Refs(x, c) <=> <<k>> \in Refs(s, c))
    BY <1>1, RefsFacts
  <2>4. \A v \in VCluster : v \in Refs(x, c) <=> v \in Refs(s, c)
    BY <1>2, RefsFacts
  <2>5. \A q \in Place : q # p => (q \in Refs(x, c) <=> q \in Refs(s, c))
    BY <2>3, <2>4 DEF Place
  <2>6. Refs(x, c) \in SUBSET Place /\ Refs(s, c) \in SUBSET Place
    BY RefsFacts
  <2> HIDE DEF p
  <2>7. QED
    BY <2>2, <2>5, <2>6
<1>5. ASSUME NEW c \in Cluster
      PROVE  (IF p \in Refs(x, c) THEN 1 ELSE 0) + (IF p \in LeftIn(x, c) THEN 1 ELSE 0)
             + (IF c \in less THEN 1 ELSE 0) + s.dev.rc[c]
           = (IF p \in Refs(s, c) THEN 1 ELSE 0) + (IF p \in LeftIn(s, c) THEN 1 ELSE 0)
             + (IF c \in spare THEN 1 ELSE 0) + x.dev.rc[c]
  <2>1. /\ p \in Refs(x, c) <=> T = c
        /\ p \in Refs(s, c) <=> s.dev.l1[i].at = c
        /\ p \notin LeftIn(x, c) /\ p \notin LeftIn(s, c)
    BY <1>1, RefsFacts
  <2>2. s.dev.rc[c] \in Nat /\ x.dev.rc[c] = s.dev.rc[c]
    BY <1>1, RcTyped
  <2>3. (c \in spare <=> c \in {n, T}) /\ (c \in less <=> c \in {n, s.dev.l1[i].at})
    OBVIOUS
  <2> HIDE DEF p
  <2>4. QED
    BY <2>1, <2>2, <2>3
<1>6. \A c \in Cluster : s.dev.rc[c] \in Nat /\ x.dev.rc[c] \in Nat
  BY RcTyped
<1> HIDE DEF p
<1>7. QED
  BY <1>1, <1>3, <1>4, <1>5, <1>6, ExactMoves

(* The entry of v is replaced.  What it referred to is to be released, or  *)
(* is among what is never given back; an entry that is not standard is the *)
(* one the image was opened with.                                          *)
LEMMA Replacing ==
    ASSUME NEW e \in L2Entry, NEW was \in L2Entry, NEW b \in BOOLEAN, NEW c \in Cluster,
           e.kind # "standard" => e = was
    PROVE  (IF Reaches(e, c) THEN 1 ELSE 0) + (IF e # was /\ Forgone(was, c) THEN 1 ELSE 0)
           = (IF Forgone(was, c) THEN 1 ELSE 0) + (IF c = ReleaseOf(MapOf(e, b)) THEN 1 ELSE 0)
<1>1. c # None
  BY DEF Cluster, None
<1>2. e.kind \in {"standard", "zero", "compressed", "straddling"} /\ e.at \in Nat
  BY Numbers DEF L2Entry, Offset
<1>3. CASE e.kind = "standard"
  <2>1. Reaches(e, c) <=> c = e.at
    BY <1>3 DEF Reaches, LastOf
  <2>2. c = ReleaseOf(MapOf(e, b)) <=> c = e.at
    BY <1>1, <1>3 DEF ReleaseOf, MapOf
  <2>3. e = was => ~Forgone(was, c)
    BY <1>3 DEF Forgone
  <2>4. QED
    BY <2>1, <2>2, <2>3
<1>4. CASE e.kind = "zero"
  <2>1. Reaches(e, c) <=> c = e.at
    BY <1>4 DEF Reaches, LastOf
  <2>2. c # ReleaseOf(MapOf(e, b))
    BY <1>1, <1>4 DEF ReleaseOf, MapOf
  <2>3. e = was /\ (Forgone(was, c) <=> c = e.at)
    BY <1>4 DEF Forgone
  <2>4. QED
    BY <2>1, <2>2, <2>3
<1>5. CASE e.kind = "compressed"
  <2>1. Reaches(e, c) <=> c = e.at
    BY <1>5 DEF Reaches, LastOf
  <2>2. c = ReleaseOf(MapOf(e, b)) <=> c = e.at
    BY <1>5 DEF ReleaseOf, MapOf
  <2>3. e = was /\ ~Forgone(was, c)
    BY <1>5 DEF Forgone
  <2>4. QED
    BY <2>1, <2>2, <2>3
<1>6. CASE e.kind = "straddling"
  <2>1. Reaches(e, c) <=> c = e.at \/ c = e.at + 1
    BY <1>6 DEF Reaches, LastOf
  <2>2. c = ReleaseOf(MapOf(e, b)) <=> c = e.at
    BY <1>6 DEF ReleaseOf, MapOf
  <2>3. e = was /\ (Forgone(was, c) <=> c = e.at + 1)
    BY <1>6 DEF Forgone, LastOf
  <2>4. e.at # e.at + 1
    BY <1>2
  <2>5. QED
    BY <2>1, <2>2, <2>3, <2>4
<1>7. QED
  BY <1>2, <1>3, <1>4, <1>5, <1>6

LEMMA EntryCounts ==
    ASSUME NEW s, NEW x, IsStore(s), IsStore(x), OnlyStandardMade(s), TablesOnce(s),
           NEW v \in VCluster, NEW T, NEW n \in Cluster, NEW b \in BOOLEAN, NEW old,
           Own(s, v[1], T), EntryPut(s, x, T, v[2], n),
           old = ReleaseOf(MapOf(OnDevice(s, v), b)),
           NEW spare, NEW less,
           \A c \in Cluster : c \in spare <=> c = n,
           \A c \in Cluster : c \in less <=> c = old,
           Exact(s, spare)
    PROVE  Exact(x, less)
<1> DEFINE e == OnDevice(s, v)
           was == Opened(s, v)
           new == L2EntryFor(n)
<1>1. v[1] \in L1Index /\ v[2] \in L2Index /\ v = <<v[1], v[2]>> /\ v \in Place
  BY PlacesApart DEF VCluster
<1>2. /\ x.img = s.img /\ x.dev.l1 = s.dev.l1 /\ x.dev.rc = s.dev.rc
      /\ T \in Cluster /\ s.dev.l1[v[1]].at = T
      /\ x.dev.table[T][v[2]] = new
      /\ \A a \in Cluster : \A k \in L2Index :
             a # T \/ k # v[2] => x.dev.table[a][k] = s.dev.table[a][k]
  BY DEF EntryPut, Own, Roots
<1>3. OnDevice(x, v) = new /\ OnDevice(s, v) = s.dev.table[T][v[2]]
  BY <1>1, <1>2 DEF OnDevice, EntryAt, Targets
<1>4. ASSUME NEW u \in VCluster, u # v PROVE OnDevice(x, u) = OnDevice(s, u)
  <2>1. u[1] \in L1Index /\ u[2] \in L2Index /\ u = <<u[1], u[2]>>
    BY DEF VCluster
  <2>2. CASE s.dev.l1[u[1]].at \notin Cluster
    BY <1>2, <2>1, <2>2 DEF OnDevice, EntryAt, Targets
  <2>3. CASE s.dev.l1[u[1]].at \in Cluster
    <3>1. s.dev.l1[u[1]].at = T => u[1] = v[1]
      BY <1>1, <2>1, OwnOnly DEF Names, Roots
    <3>2. s.dev.l1[u[1]].at # T \/ u[2] # v[2]
      BY <1>1, <1>4, <2>1, <3>1
    <3>3. x.dev.table[s.dev.l1[u[1]].at][u[2]] = s.dev.table[s.dev.l1[u[1]].at][u[2]]
      BY <1>2, <2>1, <2>3, <3>2
    <3>4. QED
      BY <1>2, <2>1, <2>3, <3>3 DEF OnDevice, EntryAt, Targets
  <2>4. QED
    BY <2>2, <2>3
<1>5. ASSUME NEW c \in Cluster
      PROVE  /\ Refs(x, c) \ {v} = Refs(s, c) \ {v}
             /\ LeftIn(x, c) \ {v} = LeftIn(s, c) \ {v}
  <2>1. \A u \in VCluster : Opened(x, u) = Opened(s, u)
    BY <1>2 DEF Opened
  <2>2. LeftIn(x, c) \ {v} = LeftIn(s, c) \ {v}
    BY <1>4, <2>1 DEF LeftIn
  <2>3. ASSUME NEW k \in L1Index PROVE <<k>> \in Refs(x, c) <=> <<k>> \in Refs(s, c)
    <3>1. <<k>> \in Refs(x, c) <=> x.dev.l1[k].at = c
      BY RefsFacts
    <3>2. <<k>> \in Refs(s, c) <=> s.dev.l1[k].at = c
      BY RefsFacts
    <3>3. QED
      BY <1>2, <3>1, <3>2
  <2>4. \A u \in VCluster : u # v => (u \in Refs(x, c) <=> u \in Refs(s, c))
    BY <1>4, RefsFacts
  <2>5. \A q \in Place : q # v => (q \in Refs(x, c) <=> q \in Refs(s, c))
    BY <2>3, <2>4 DEF Place
  <2>6. Refs(x, c) \in SUBSET Place /\ Refs(s, c) \in SUBSET Place
    BY RefsFacts
  <2>7. QED
    BY <2>2, <2>5, <2>6
<1>6. e \in L2Entry /\ was \in L2Entry /\ (e.kind # "standard" => e = was)
  <2>1. s.dev \in Device /\ s.img.dev \in Device
    BY DEF IsStore, Image
  <2>2. e \in L2Entry
    BY <1>1, <1>2, <1>3, <2>1 DEF Device
  <2>3. was \in L2Entry
    <3>1. was = NoEntry \/ \E a \in Cluster : was = s.img.dev.table[a][v[2]]
      BY <1>1 DEF Opened, EntryAt
    <3>2. QED
      BY <1>1, <2>1, <3>1, EntriesTyped DEF Device
  <2>4. Has(s, v, e)
    BY <1>1, <1>2, <1>3 DEF Has, Names, Roots
  <2>5. QED
    BY <2>2, <2>3, <2>4 DEF OnlyStandardMade
<1>7. new.kind = "standard" /\ new.at = n
  BY DEF L2EntryFor, NoEntry
<1> HIDE DEF e, was, new
<1>8. ASSUME NEW c \in Cluster
      PROVE  (IF v \in Refs(x, c) THEN 1 ELSE 0) + (IF v \in LeftIn(x, c) THEN 1 ELSE 0)
             + (IF c \in less THEN 1 ELSE 0) + s.dev.rc[c]
           = (IF v \in Refs(s, c) THEN 1 ELSE 0) + (IF v \in LeftIn(s, c) THEN 1 ELSE 0)
             + (IF c \in spare THEN 1 ELSE 0) + x.dev.rc[c]
  <2>1. v \in Refs(x, c) <=> c = n
    <3>1. v \in Refs(x, c) <=> Reaches(new, c)
      BY <1>3, RefsFacts
    <3>2. QED
      BY <1>7, <3>1 DEF Reaches, LastOf
  <2>2. v \in LeftIn(x, c) <=> Forgone(was, c)
    <3>1. v \in LeftIn(x, c) <=> new # was /\ Forgone(was, c)
      BY <1>2, <1>3, RefsFacts DEF was, Opened
    <3>2. new = was => ~Forgone(was, c)
      BY <1>7 DEF Forgone
    <3>3. QED
      BY <3>1, <3>2
  <2>3. /\ v \in Refs(s, c) <=> Reaches(e, c)
        /\ v \in LeftIn(s, c) <=> e # was /\ Forgone(was, c)
    BY RefsFacts DEF e, was
  <2>4. (IF Reaches(e, c) THEN 1 ELSE 0) + (IF e # was /\ Forgone(was, c) THEN 1 ELSE 0)
        = (IF Forgone(was, c) THEN 1 ELSE 0) + (IF c = old THEN 1 ELSE 0)
    <3>1. (IF Reaches(e, c) THEN 1 ELSE 0) + (IF e # was /\ Forgone(was, c) THEN 1 ELSE 0)
          = (IF Forgone(was, c) THEN 1 ELSE 0) + (IF c = ReleaseOf(MapOf(e, b)) THEN 1 ELSE 0)
      BY <1>6, Replacing
    <3>2. old = ReleaseOf(MapOf(e, b))
      BY DEF e
    <3>3. QED
      BY <3>1, <3>2
  <2>5. s.dev.rc[c] \in Nat /\ x.dev.rc[c] = s.dev.rc[c]
    BY <1>2, RcTyped
  <2>6. (c \in spare <=> c = n) /\ (c \in less <=> c = old)
    OBVIOUS
  <2>7. QED
    BY <2>1, <2>2, <2>3, <2>4, <2>5, <2>6
<1>9. \A c \in Cluster : s.dev.rc[c] \in Nat /\ x.dev.rc[c] \in Nat
  BY RcTyped
<1>10. QED
  BY <1>1, <1>2, <1>5, <1>8, <1>9, ExactMoves

(* What is spare at each step.                                             *)
LEMMA SpareAt ==
    ASSUME NEW r, NEW c \in Cluster
    PROVE  /\ \A step \in Resting \cup {"l2", "plan", "fetch", "inPlace"} : c \notin Spare(step, r)
           /\ c \in Spare("allocate", r) <=> r.why # "data" /\ c = r.new
           /\ c \in Spare("allocateFlush", r) <=>
                  IF r.why = "data" THEN c = r.new ELSE c \in {r.new, r.table}
           /\ \A step \in {"fill", "fillFlush", "repoint", "entry"} :
                  c \in Spare(step, r) <=> c = r.new
           /\ \A step \in ShadowSteps : c \in Spare(step, r) <=> c \in {r.new, r.table}
           /\ c \in Spare("l1Flush", r) <=> c = r.new \/ (r.why = "copy" /\ c = r.l1Entry.at)
           /\ \A step \in {"entryFlush", "forgetL2", "forgetData"} :
                  c \in Spare(step, r) <=> c = r.old
           /\ c \in Spare("release", r) <=>
                  IF r.why = "copy" THEN c \in {r.new, r.l1Entry.at} ELSE c = r.old
           /\ c \in Spare("releaseFlush", r) <=> r.why = "copy" /\ c = r.new
<1>1. ASSUME NEW step \in Resting \cup {"l2", "plan", "fetch", "inPlace"} PROVE c \notin Spare(step, r)
  BY DEF Spare, Resting, HasNew, FilledSteps, ShadowSteps, ForTable, AfterCopy, ReleaseSteps,
         LastRelease
<1>2. /\ c \in Spare("allocate", r) <=> r.why # "data" /\ c = r.new
      /\ c \in Spare("allocateFlush", r) <=>
             IF r.why = "data" THEN c = r.new ELSE c \in {r.new, r.table}
  BY DEF Spare, HasNew, FilledSteps, ShadowSteps, ForTable, AfterCopy, ReleaseSteps, LastRelease
<1>3. ASSUME NEW step \in {"fill", "fillFlush", "repoint", "entry"}
      PROVE  c \in Spare(step, r) <=> c = r.new
  BY DEF Spare, HasNew, FilledSteps, ShadowSteps, ForTable, AfterCopy, ReleaseSteps, LastRelease
<1>4. ASSUME NEW step \in ShadowSteps PROVE c \in Spare(step, r) <=> c \in {r.new, r.table}
  BY DEF Spare, HasNew, FilledSteps, ShadowSteps, ForTable, AfterCopy, ReleaseSteps, LastRelease
<1>5. c \in Spare("l1Flush", r) <=> c = r.new \/ (r.why = "copy" /\ c = r.l1Entry.at)
  BY DEF Spare, HasNew, FilledSteps, ShadowSteps, ForTable, AfterCopy, ReleaseSteps, LastRelease
<1>6. ASSUME NEW step \in {"entryFlush", "forgetL2", "forgetData"}
      PROVE  c \in Spare(step, r) <=> c = r.old
  BY DEF Spare, HasNew, FilledSteps, ShadowSteps, ForTable, AfterCopy, ReleaseSteps, LastRelease
<1>7. /\ c \in Spare("release", r) <=>
             IF r.why = "copy" THEN c \in {r.new, r.l1Entry.at} ELSE c = r.old
      /\ c \in Spare("releaseFlush", r) <=> r.why = "copy" /\ c = r.new
  BY DEF Spare, HasNew, FilledSteps, ShadowSteps, ForTable, AfterCopy, ReleaseSteps, LastRelease
<1>8. QED
  BY <1>1, <1>2, <1>3, <1>4, <1>5, <1>6, <1>7

(* Only the writer past the lock has anything spare, before and after.     *)
LEMMA SparesMove ==
    ASSUME Typed, Serial, NEW t \in Writers, pc[t] \notin {"idle", "lock"},
           Lookup(t) \/ DeviceError(t) \/ WriteStep(t)
    PROVE  /\ \A c \in Cluster : c \in Spares <=> c \in Spare(pc[t], reg[t])
           /\ \A c \in Cluster : c \in Spares' <=> c \in Spare(pc'[t], reg'[t])
<1>1. \A u \in Threads : u # t => pc'[u] = pc[u] /\ reg'[u] = reg[u]
  BY OnlyOne DEF Threads
<1>2. ASSUME NEW u \in Writers, u # t PROVE pc[u] \in Resting /\ pc'[u] \in Resting
  BY <1>1, <1>2 DEF Serial, Resting, Threads
<1>3. ASSUME NEW u \in Writers, u # t, NEW c \in Cluster
      PROVE  c \notin Spare(pc[u], reg[u]) /\ c \notin Spare(pc'[u], reg'[u])
  BY <1>2, <1>3, SpareAt
<1>4. ASSUME NEW c \in Cluster PROVE c \in Spares <=> c \in Spare(pc[t], reg[t])
  BY <1>3 DEF Spares
<1>5. ASSUME NEW c \in Cluster PROVE c \in Spares' <=> c \in Spare(pc'[t], reg'[t])
  <2>1. Spares' = {d \in Cluster : \E u \in Writers : d \in Spare(pc'[u], reg'[u])}
    BY DEF Spares, Spare
  <2>2. QED
    BY <1>3, <2>1
<1>6. QED
  BY <1>4, <1>5

(* Before the lock nothing is spare.                                       *)
LEMMA SparesWait ==
    ASSUME Typed, NEW t \in Writers, StartWrite(t) \/ TakeWriteLock(t)
    PROVE  \A c \in Cluster : c \in Spares' <=> c \in Spares
<1>1. pc[t] \in Resting /\ pc'[t] \in Resting
  BY GoSet DEF StartWrite, TakeWriteLock, Resting
<1>2. \A u \in Threads : u # t => pc'[u] = pc[u] /\ reg'[u] = reg[u]
  BY OnlyOne DEF WriteStep, Threads
<1>3. ASSUME NEW u \in Writers, NEW c \in Cluster
      PROVE  c \in Spare(pc'[u], reg'[u]) <=> c \in Spare(pc[u], reg[u])
  BY <1>1, <1>2, SpareAt DEF Threads
<1>4. Spares' = {d \in Cluster : \E u \in Writers : d \in Spare(pc'[u], reg'[u])}
  BY DEF Spares, Spare
<1>5. QED
  BY <1>3, <1>4 DEF Spares

(* A table is looked for only while there is a free cluster: nothing says  *)
(* so but the size of the device.  When there is none, the call ends and   *)
(* the cluster it took for its data stays counted.                         *)
RoomForTables ==
    \A t \in Writers : pc[t] = "allocate" /\ reg[t].why # "data" =>
        \E c \in Cluster : FreeCluster(c)

(* The steps that leave the tables and the counts of the device alone.     *)
Still(t) ==
    \/ LookupL1(t) \/ LookupL2(t) \/ Undecodable(t) \/ PlanInPlace(t) \/ PlanReallocate(t)
    \/ WriteInPlace(t) \/ NoRoom(t) \/ Flushes(t) \/ Fill(t) \/ Repoint(t) \/ FlushL1(t)
    \/ ForgetL2(t) \/ ForgetData(t) \/ NextChunk(t) \/ EndWrite(t)

LEMMA StillOnDevice ==
    ASSUME Typed, Serial, CountsInv, NEW t \in Writers, Still(t)
    PROVE  /\ SameOnDevice(Stored, Stored')
           /\ Stored'.dev.rc = Stored.dev.rc
<1> DEFINE s == Stored
           x == Stored'
<1>1. x.img = s.img /\ x.dev.l1 = s.dev.l1 /\ x.dev.table = s.dev.table /\ x.dev.rc = s.dev.rc
  <2>1. CASE \/ LookupL1(t) \/ Undecodable(t) \/ PlanInPlace(t) \/ PlanReallocate(t) \/ NoRoom(t)
             \/ Repoint(t) \/ ForgetData(t) \/ NextChunk(t) \/ EndWrite(t)
    BY <2>1, CalmStores DEF Calm
  <2>2. CASE WriteInPlace(t)
    BY <2>2, InPlaceWrites DEF DataWritten
  <2>3. CASE Fill(t)
    BY <2>3, FillWrites DEF DataWritten
  <2>4. CASE Flushes(t)
    BY <2>4, FlushStores DEF Stored
  <2>5. CASE LookupL2(t) \/ ForgetL2(t)
    BY <2>5, CacheChanges DEF Recached
  <2>6. CASE FlushL1(t)
    BY <2>6, RootWrites DEF RootFollowed
  <2>7. QED
    BY <2>1, <2>2, <2>3, <2>4, <2>5, <2>6 DEF Still
<1> HIDE DEF s, x
<1>2. \A v \in VCluster : OnDevice(x, v) = OnDevice(s, v)
  BY <1>1 DEF OnDevice, EntryAt, Targets
<1>3. QED
  BY <1>1, <1>2 DEF SameOnDevice, s, x

LEMMA StillSpares ==
    ASSUME Typed, Serial, CountsInv, RoomForTables, NEW t \in Writers, Still(t),
           faults = 0, faults' = 0, NEW c \in Cluster
    PROVE  c \in Spare(pc'[t], reg'[t]) <=> c \in Spare(pc[t], reg[t])
<1> DEFINE r == reg[t]
<1>0. ~Fault /\ reg[t] \in Local /\ c # None
  BY TypedParts DEF Fault, Cluster, None, Threads
<1>1. CASE \/ LookupL1(t) \/ LookupL2(t) \/ Undecodable(t) \/ PlanInPlace(t) \/ WriteInPlace(t)
           \/ NextChunk(t) \/ EndWrite(t)
  <2>1. /\ pc[t] \in Resting \cup {"l2", "plan", "fetch", "inPlace"}
        /\ pc'[t] \in Resting \cup {"l2", "plan", "fetch", "inPlace"}
    BY <1>0, <1>1, GoSet DEF LookupL1, LookupL2, Undecodable, PlanInPlace, WriteInPlace, WrittenTo,
       NextChunk, EndWrite, Leave, Looked, Resting
  <2>2. QED
    BY <2>1, SpareAt
<1>2. CASE PlanReallocate(t)
  <2>1. pc[t] = "plan" /\ pc'[t] = "allocate" /\ reg'[t].why = "data"
    BY <1>0, <1>2, GoSet DEF PlanReallocate, Local
  <2>2. QED
    BY <2>1, SpareAt
<1>3. CASE NoRoom(t)
  <2>1. pc[t] = "allocate" /\ pc'[t] = "idle" /\ r.why = "data"
    BY <1>3, GoSet DEF NoRoom, Leave, RoomForTables
  <2>2. QED
    BY <2>1, SpareAt DEF Resting
<1>4. CASE Fill(t)
  <2>1. pc[t] = "fill" /\ pc'[t] = "fillFlush" /\ reg'[t] = r
    BY <1>0, <1>4, GoSet DEF Fill, WrittenTo
  <2>2. QED
    BY <2>1, SpareAt
<1>5. CASE Repoint(t)
  <2>1. /\ pc[t] = "repoint" /\ reg'[t].new = r.new
        /\ pc'[t] = "entry" \/ (pc'[t] = "allocate" /\ reg'[t].why # "data")
    BY <1>0, <1>5, GoSet DEF Repoint, WhatTable, Local
  <2>2. QED
    BY <2>1, SpareAt
<1>6. CASE FlushL1(t)
  <2>1. pc[t] = "l1Flush" /\ pc'[t] = (IF r.why = "copy" THEN "release" ELSE "entry") /\ reg'[t] = r
    BY <1>6, GoSet DEF FlushL1
  <2>2. QED
    BY <2>1, SpareAt
<1>7. CASE ForgetL2(t)
  <2>1. pc[t] = "forgetL2" /\ pc'[t] = "forgetData" /\ reg'[t] = r
    BY <1>7, GoSet DEF ForgetL2
  <2>2. QED
    BY <2>1, SpareAt
<1>8. CASE ForgetData(t)
  <2>1. /\ pc[t] = "forgetData" /\ reg'[t].old = r.old /\ reg'[t].why = "release"
        /\ pc'[t] = IF r.old = None THEN "next" ELSE "release"
    BY <1>0, <1>8, GoSet DEF ForgetData, Local
  <2>2. QED
    BY <1>0, <2>1, SpareAt DEF Resting
<1>9. CASE FlushAllocate(t)
  <2>1. /\ pc[t] = "allocateFlush" /\ reg'[t] = r
        /\ Go(t, CASE r.why = "data" -> "fill" [] r.why = "table" -> "zero" [] r.why = "copy" -> "copy")
    BY <1>9, GoSet DEF FlushAllocate, FlushThen
  <2>2. r.why \in {"data", "table", "copy"}
    BY <2>1, Begin DEF LocalsGood, GoodAt
  <2>3. pc'[t] = IF r.why = "data" THEN "fill" ELSE IF r.why = "table" THEN "zero" ELSE "copy"
    BY <2>1, <2>2, GoSet
  <2>4. QED
    BY <2>1, <2>2, <2>3, SpareAt DEF ShadowSteps
<1>10. CASE FlushFill(t) \/ FlushZero(t) \/ FlushCopy(t) \/ FlushEntry(t) \/ FlushRelease(t)
  <2>1. /\ pc[t] \in {"fillFlush", "zeroFlush", "copyFlush", "entryFlush", "releaseFlush"}
        /\ reg'[t] = r
        /\ Go(t, CASE pc[t] = "fillFlush" -> "repoint" [] pc[t] = "zeroFlush" -> "l1Write"
                   [] pc[t] = "copyFlush" -> "l1Write" [] pc[t] = "entryFlush" -> "forgetL2"
                   [] pc[t] = "releaseFlush" -> IF r.why = "copy" THEN "entry" ELSE "next")
    BY <1>10, GoSet DEF FlushFill, FlushZero, FlushCopy, FlushEntry, FlushRelease, FlushThen,
       AfterRelease
  <2>2. pc'[t] = IF pc[t] = "fillFlush" THEN "repoint"
                 ELSE IF pc[t] \in {"zeroFlush", "copyFlush"} THEN "l1Write"
                 ELSE IF pc[t] = "entryFlush" THEN "forgetL2"
                 ELSE IF r.why = "copy" THEN "entry" ELSE "next"
    BY <2>1, GoSet
  <2>3. QED
    BY <2>1, <2>2, SpareAt DEF ShadowSteps, Resting
<1>11. QED
  BY <1>1, <1>2, <1>3, <1>4, <1>5, <1>6, <1>7, <1>8, <1>9, <1>10 DEF Still, Flushes

(* What a step of the writer past the lock starts from.                    *)
Accounted ==
    /\ Typed /\ Serial /\ CountsInv /\ Lineage(Stored) /\ ProgressInv /\ Matched
    /\ faults = 0 /\ Exact(Stored, Spares)

(* The same, with what is spare taken from the one writer there is.        *)
LEMMA OneCounts ==
    ASSUME Accounted, Typed', NEW t \in Writers, pc[t] \notin {"idle", "lock"},
           Lookup(t) \/ DeviceError(t) \/ WriteStep(t)
    PROVE  /\ IsStore(Stored) /\ IsStore(Stored')
           /\ \A c \in Cluster : Stored.dev.rc[c] \in Nat /\ Stored'.dev.rc[c] \in Nat
           /\ Exact(Stored, Spare(pc[t], reg[t]))
           /\ Exact(Stored', Spare(pc'[t], reg'[t])) => Exact(Stored', Spares')
<1>1. IsStore(Stored) /\ IsStore(Stored')
  BY StoredTyped, StoredNext DEF Accounted
<1>2. \A c \in Cluster : Stored.dev.rc[c] \in Nat /\ Stored'.dev.rc[c] \in Nat
  BY <1>1, RcTyped
<1>3. /\ \A c \in Cluster : c \in Spares <=> c \in Spare(pc[t], reg[t])
      /\ \A c \in Cluster : c \in Spares' <=> c \in Spare(pc'[t], reg'[t])
  BY SparesMove DEF Accounted
<1>4. Exact(Stored, Spare(pc[t], reg[t]))
  BY <1>3 DEF Exact, Accounted
<1>5. Exact(Stored', Spare(pc'[t], reg'[t])) => Exact(Stored', Spares')
  BY <1>3 DEF Exact
<1>6. QED
  BY <1>1, <1>2, <1>4, <1>5

LEMMA StillCounts ==
    ASSUME Accounted, Typed', RoomForTables, NEW t \in Writers, pc[t] \notin {"idle", "lock"},
           Lookup(t) \/ DeviceError(t) \/ WriteStep(t), Still(t), faults' = 0
    PROVE  Exact(Stored', Spares')
<1> DEFINE s == Stored
           x == Stored'
           spare == Spare(pc[t], reg[t])
           less == Spare(pc'[t], reg'[t])
<1>1. /\ \A c \in Cluster : s.dev.rc[c] \in Nat /\ x.dev.rc[c] \in Nat
      /\ Exact(s, spare) /\ (Exact(x, less) => Exact(x, Spares'))
  BY OneCounts
<1>2. SameOnDevice(s, x) /\ x.dev.rc = s.dev.rc
  BY StillOnDevice DEF Accounted
<1>3. \A c \in Cluster : c \in less <=> c \in spare
  BY StillSpares DEF Accounted
<1> HIDE DEF s, x, spare, less
<1>4. \A c \in Cluster :
          (IF c \in less THEN 1 ELSE 0) + s.dev.rc[c] = (IF c \in spare THEN 1 ELSE 0) + x.dev.rc[c]
  BY <1>2, <1>3
<1>5. Exact(x, less)
  BY <1>1, <1>2, <1>4, ExactSame
<1>6. QED
  BY <1>1, <1>5 DEF x

LEMMA AllocateCounts ==
    ASSUME Accounted, Typed', NEW t \in Writers, Allocate(t), faults' = 0
    PROVE  Exact(Stored', Spares')
<1> DEFINE s == Stored
           x == Stored'
           r == reg[t]
           spare == Spare(pc[t], reg[t])
           less == Spare(pc'[t], reg'[t])
<1>1. pc[t] = "allocate" /\ WriteStep(t) /\ ~Fault /\ r \in Local
  <2>1. pc[t] = "allocate" /\ WriteStep(t)
    BY DEF Allocate, WriteStep
  <2>2. ~Fault
    BY DEF Accounted, Fault
  <2>3. r \in Local
    BY TypedParts DEF Accounted, Threads
  <2>4. QED
    BY <2>1, <2>2, <2>3
<1>2. /\ \A c \in Cluster : s.dev.rc[c] \in Nat /\ x.dev.rc[c] \in Nat
      /\ IsStore(s) /\ Exact(s, spare) /\ (Exact(x, less) => Exact(x, Spares'))
  BY <1>1, OneCounts
<1>3. PICK n \in Cluster :
        /\ FreeCluster(n)
        /\ dev' = [dev EXCEPT !.rc[n] = 1, !.len = Longer(n)]
        /\ Set(t, IF r.why = "data" THEN [r EXCEPT !.new = n] ELSE [r EXCEPT !.table = n])
        /\ Go(t, "allocateFlush")
  BY <1>1 DEF Allocate
<1>4. /\ x.img = s.img /\ x.dev.l1 = s.dev.l1 /\ x.dev.table = s.dev.table
      /\ s.dev.rc[n] = 0 /\ x.dev.rc = [s.dev.rc EXCEPT ![n] = 1]
  BY <1>2, <1>3 DEF Allocate, Stored, memory, IsStore, Device, FreeCluster
<1>5. /\ pc'[t] = "allocateFlush" /\ reg'[t].why = r.why
      /\ r.why = "data" => reg'[t].new = n
      /\ r.why # "data" => reg'[t].new = r.new /\ reg'[t].table = n
  BY <1>1, <1>3, GoSet DEF Local, Accounted
<1>6. \A c \in Cluster : c \in less <=> c \in spare \/ c = n
  BY <1>1, <1>5, SpareAt
<1> HIDE DEF s, x, spare, less
<1>7. n \notin spare
  <2>1. /\ Cardinality(Refs(s, n)) \in Nat /\ Cardinality(Kept(s, n)) \in Nat
        /\ Cardinality(LeftIn(s, n)) \in Nat
    BY RefsFacts, Counting
  <2>2. Cardinality(Refs(s, n)) + Cardinality(Kept(s, n)) + Cardinality(LeftIn(s, n))
        + (IF n \in spare THEN 1 ELSE 0) = 0
    BY <1>2, <1>4 DEF Exact
  <2>3. QED
    BY <2>1, <2>2
<1>8. SameOnDevice(s, x)
  BY <1>4 DEF SameOnDevice, OnDevice, EntryAt, Targets
<1>9. s.dev.rc \in [Cluster -> Nat]
  BY <1>2 DEF IsStore, Device
<1>10. \A c \in Cluster :
          (IF c \in less THEN 1 ELSE 0) + s.dev.rc[c] = (IF c \in spare THEN 1 ELSE 0) + x.dev.rc[c]
  BY <1>4, <1>6, <1>7, <1>9
<1>11. Exact(x, less)
  BY <1>2, <1>8, <1>10, ExactSame
<1>12. QED
  BY <1>2, <1>11 DEF x

(* A new table is written while nothing names it.                          *)
LEMMA RowCounts ==
    ASSUME Accounted, Typed', NEW t \in Writers, Zero(t) \/ CopyTable(t), faults' = 0
    PROVE  Exact(Stored', Spares')
<1> DEFINE s == Stored
           x == Stored'
           r == reg[t]
           T == reg[t].table
           spare == Spare(pc[t], reg[t])
           less == Spare(pc'[t], reg'[t])
<1>1. pc[t] \in {"zero", "copy"} /\ WriteStep(t) /\ ~Fault
  BY DEF Zero, CopyTable, WriteStep, Accounted, Fault
<1>2. /\ \A c \in Cluster : s.dev.rc[c] \in Nat /\ x.dev.rc[c] \in Nat
      /\ Exact(s, spare) /\ (Exact(x, less) => Exact(x, Spares'))
  BY <1>1, OneCounts
<1>3. PICK row : RowWritten(s, x, T, row)
  BY RowWrites DEF Accounted
<1>4. Taken(s, T)
  BY <1>1, Begin DEF Accounted, Working, ShadowSteps, Unused
<1>5. pc'[t] \in {"zeroFlush", "copyFlush"} /\ reg'[t] = r
  BY <1>1, GoSet DEF Zero, CopyTable, WrittenTo, Accounted
<1>6. \A c \in Cluster : c \in less <=> c \in spare
  BY <1>1, <1>5, SpareAt DEF ShadowSteps
<1> HIDE DEF s, x, spare, less, T
<1>7. \A i \in L1Index : s.dev.l1[i].at # T
  BY <1>4, ActiveFacts DEF Taken, Names, Roots
<1>8. /\ x.img = s.img /\ x.dev.l1 = s.dev.l1 /\ x.dev.rc = s.dev.rc
      /\ \A a \in Cluster : a # T => x.dev.table[a] = s.dev.table[a]
  BY <1>3 DEF RowWritten
<1>9. SameOnDevice(s, x)
  BY <1>7, <1>8 DEF SameOnDevice, OnDevice, EntryAt, Targets, VCluster
<1>10. \A c \in Cluster :
          (IF c \in less THEN 1 ELSE 0) + s.dev.rc[c] = (IF c \in spare THEN 1 ELSE 0) + x.dev.rc[c]
  BY <1>6, <1>8
<1>11. Exact(x, less)
  BY <1>2, <1>9, <1>10, ExactSame
<1>12. QED
  BY <1>2, <1>11 DEF x

LEMMA WriteL1Counts ==
    ASSUME Accounted, Typed', NEW t \in Writers, WriteL1(t), faults' = 0
    PROVE  Exact(Stored', Spares')
<1> DEFINE s == Stored
           x == Stored'
           r == reg[t]
           i == reg[t].at[1]
           T == reg[t].table
           n == reg[t].new
           spare == Spare(pc[t], reg[t])
           less == Spare(pc'[t], reg'[t])
<1>1. pc[t] = "l1Write" /\ WriteStep(t) /\ ~Fault /\ l1 = dev.l1
  BY DEF WriteL1, WriteStep, Accounted, Fault, Matched
<1>2. /\ IsStore(s) /\ IsStore(x)
      /\ Exact(s, spare) /\ (Exact(x, less) => Exact(x, Spares'))
  BY <1>1, OneCounts
<1>3. RootWritten(s, x, i, T)
  BY RootWrites DEF Accounted
<1>4. i \in L1Index /\ Unused(s, T) /\ Unused(s, n) /\ T # n /\ Replaced(s, r)
  BY <1>1, Begin DEF Accounted, Working, HasNew, FilledSteps, ShadowSteps
<1>5. pc'[t] = "l1Flush" /\ reg'[t] = r
  BY <1>1, GoSet DEF WriteL1, Accounted
<1>6. \A j \in L2Index : s.dev.table[T][j] = Now(s, <<i, j>>)
  BY <1>1 DEF Accounted, ProgressInv, Going, RowNow
<1>7. s.l1 = s.dev.l1
  BY <1>1 DEF Stored
<1>8. \A c \in Cluster : c \in spare <=> c \in {n, T}
  BY <1>1, SpareAt DEF ShadowSteps
<1>9. \A c \in Cluster : c \in less <=> c = n \/ (r.why = "copy" /\ c = r.l1Entry.at)
  BY <1>5, SpareAt
<1> HIDE DEF s, x, spare, less, i, T, n
<1>10. r.l1Entry = s.dev.l1[i] /\ (r.why # "copy" => s.dev.l1[i].at = None)
  BY <1>4, <1>7 DEF Replaced, i
<1>11. \A c \in Cluster : c \in less <=> c \in {n, s.dev.l1[i].at}
  BY <1>9, <1>10 DEF Cluster, None
<1>12. n # s.dev.l1[i].at /\ T \in Cluster
  BY <1>4, ActiveFacts DEF Unused, Taken, Names, Roots
<1>13. \A j \in L2Index : s.dev.table[T][j] = OnDevice(s, <<i, j>>)
  BY <1>6, <1>7 DEF Now, OnDevice
<1>14. n # T
  BY <1>4
<1>15. Exact(x, less)
  BY <1>2, <1>3, <1>4, <1>8, <1>11, <1>12, <1>13, <1>14, RootCounts
<1>16. QED
  BY <1>2, <1>15 DEF x

LEMMA WriteEntryCounts ==
    ASSUME Accounted, Typed', NEW t \in Writers, WriteEntry(t), faults' = 0
    PROVE  Exact(Stored', Spares')
<1> DEFINE s == Stored
           x == Stored'
           r == reg[t]
           v == reg[t].at
           T == reg[t].table
           n == reg[t].new
           old == reg[t].old
           spare == Spare(pc[t], reg[t])
           less == Spare(pc'[t], reg'[t])
<1>1. pc[t] = "entry" /\ WriteStep(t) /\ ~Fault
  BY DEF WriteEntry, WriteStep, Accounted, Fault
<1>2. /\ IsStore(s) /\ IsStore(x)
      /\ Exact(s, spare) /\ (Exact(x, less) => Exact(x, Spares'))
  BY <1>1, OneCounts
<1>3. v \in VCluster /\ Own(s, v[1], T) /\ Unused(s, n) /\ TablesOnce(s)
  BY <1>1, Begin DEF Accounted, Working, HasNew, FilledSteps, Sound
<1>4. T \in Cluster /\ n \in Cluster
  BY <1>3 DEF Own, Unused, Taken
<1>5. EntryPut(s, x, T, v[2], n)
  BY <1>4, EntryWrites DEF Accounted
<1>6. pc'[t] = "entryFlush" /\ reg'[t] = r
  BY <1>1, GoSet DEF WriteEntry, Written, WrittenTo, Accounted
<1>7. FindsNow(s, r) /\ old = ReleaseOf(r.map)
  BY <1>1 DEF Accounted, ProgressInv, Going, Seeded, Copying, HasNew, FilledSteps
<1>8. OnlyStandardMade(s)
  BY DEF Accounted, Lineage
<1>9. \A c \in Cluster : c \in spare <=> c = n
  BY <1>1, SpareAt
<1>10. \A c \in Cluster : c \in less <=> c = old
  BY <1>6, SpareAt
<1>11. PICK b \in BOOLEAN : r.map = MapOf(Now(s, v), b)
  BY <1>7 DEF FindsNow
<1> HIDE DEF s, x, spare, less, v, T, n, old
<1>12. s.l1[v[1]] = s.dev.l1[v[1]] /\ v[1] \in L1Index
  BY <1>3 DEF Own, Roots, VCluster
<1>13. Now(s, v) = OnDevice(s, v)
  BY <1>12 DEF Now, OnDevice, EntryAt, Targets
<1>14. old = ReleaseOf(MapOf(OnDevice(s, v), b))
  BY <1>7, <1>11, <1>13
<1>15. Exact(x, less)
  BY <1>2, <1>3, <1>4, <1>5, <1>8, <1>9, <1>10, <1>14, EntryCounts
<1>16. QED
  BY <1>2, <1>15 DEF x

LEMMA ReleaseCounts ==
    ASSUME Accounted, Typed', NEW t \in Writers, WriteRelease(t) \/ ReleaseFails(t), faults' = 0
    PROVE  Exact(Stored', Spares')
<1> DEFINE s == Stored
           x == Stored'
           r == reg[t]
           n == Released(t)
           spare == Spare(pc[t], reg[t])
           less == Spare(pc'[t], reg'[t])
<1>1. WriteStep(t) /\ ~Fault /\ pc[t] = "release"
  BY DEF WriteRelease, ReleaseFails, WriteStep, Accounted, Fault
<1>2. /\ \A c \in Cluster : s.dev.rc[c] \in Nat /\ x.dev.rc[c] \in Nat
      /\ IsStore(s) /\ Exact(s, spare) /\ (Exact(x, less) => Exact(x, Spares'))
  BY <1>1, OneCounts
<1>3. /\ n \in Cluster /\ (r.why = "copy" => r.l1Entry.at # r.new)
      /\ n = IF r.why = "copy" THEN r.l1Entry.at ELSE r.old
  BY <1>1, Begin DEF Accounted, Working, LastRelease, Released
<1>4. n \in spare
  BY <1>1, <1>3, SpareAt
<1>5. s.dev.rc[n] > 0
  <2>1. /\ Cardinality(Refs(s, n)) \in Nat /\ Cardinality(Kept(s, n)) \in Nat
        /\ Cardinality(LeftIn(s, n)) \in Nat
    BY RefsFacts, Counting
  <2>2. Cardinality(Refs(s, n)) + Cardinality(Kept(s, n)) + Cardinality(LeftIn(s, n)) + 1
        = s.dev.rc[n]
    BY <1>2, <1>3, <1>4 DEF Exact
  <2> HIDE DEF s, n
  <2>3. QED
    BY <2>1, <2>2
<1>6. WriteRelease(t)
  BY <1>1, <1>3, <1>5 DEF ReleaseFails, Stored
<1>7. pc'[t] = "releaseFlush" /\ reg'[t] = r
  BY <1>1, <1>6, GoSet DEF WriteRelease, Accounted
<1>8. \A c \in Cluster : c \in less <=> c \in spare /\ c # n
  BY <1>1, <1>3, <1>7, SpareAt
<1>9. /\ x.img = s.img /\ x.dev.l1 = s.dev.l1 /\ x.dev.table = s.dev.table
      /\ x.dev.rc = [s.dev.rc EXCEPT ![n] = @ - 1]
  BY <1>2, <1>6 DEF WriteRelease, Stored, memory, IsStore, Device
<1> HIDE DEF s, x, spare, less, n
<1>10. SameOnDevice(s, x)
  BY <1>9 DEF SameOnDevice, OnDevice, EntryAt, Targets
<1>11. s.dev.rc \in [Cluster -> Nat]
  BY <1>2 DEF IsStore, Device
<1>12. \A c \in Cluster :
          (IF c \in less THEN 1 ELSE 0) + s.dev.rc[c] = (IF c \in spare THEN 1 ELSE 0) + x.dev.rc[c]
  BY <1>3, <1>4, <1>8, <1>9, <1>11
<1>13. Exact(x, less)
  BY <1>2, <1>10, <1>12, ExactSame
<1>14. QED
  BY <1>2, <1>13 DEF x

LEMMA StepCounts ==
    ASSUME Readers = {}, Accounted, Typed', RoomForTables, NEW t \in Writers, faults' = 0,
           Lookup(t) \/ DeviceError(t) \/ StartWrite(t) \/ WriteStep(t)
    PROVE  Exact(Stored', Spares')
<1>1. CASE StartWrite(t) \/ TakeWriteLock(t)
  <2>1. Stored' = Stored
    BY <1>1, CalmStores DEF Calm
  <2>2. \A c \in Cluster : c \in Spares' <=> c \in Spares
    BY <1>1, SparesWait DEF Accounted
  <2>3. Exact(Stored, Spares')
    BY <2>2 DEF Exact, Accounted
  <2>4. QED
    BY <2>1, <2>3
<1>2. CASE ~StartWrite(t) /\ ~TakeWriteLock(t)
  <2>1. Lookup(t) \/ DeviceError(t) \/ WriteStep(t)
    BY <1>2
  <2>2. ~Fault
    BY DEF Fault, Accounted
  <2>3. pc[t] \notin {"idle", "lock"}
    BY <1>2, <2>1 DEF Lookup, LookupL1, LookupL2, Undecodable, DeviceError, WriteSteps, FlushSteps,
       WriteStep, PlanInPlace, PlanReallocate, WriteInPlace, Allocate, NoRoom, FlushAllocate, Fill,
       FlushFill, Repoint, Zero, FlushZero, CopyTable, FlushCopy, WriteL1, FlushL1, WriteEntry,
       FlushEntry, ForgetL2, ForgetData, WriteRelease, FlushRelease, ReleaseFails, ReleaseSteps,
       NextChunk, EndWrite
  <2>4. CASE Still(t)
    BY <2>1, <2>3, <2>4, StillCounts
  <2>5. CASE \/ Allocate(t) \/ Zero(t) \/ CopyTable(t) \/ WriteL1(t) \/ WriteEntry(t)
             \/ WriteRelease(t) \/ ReleaseFails(t)
    BY <2>5, AllocateCounts, RowCounts, WriteL1Counts, WriteEntryCounts, ReleaseCounts
  <2>6. QED
    BY <1>2, <2>1, <2>2, <2>4, <2>5 DEF Lookup, DeviceError, WriteStep, Still, Flushes
<1>3. QED
  BY <1>1, <1>2

LEMMA CountedNext ==
    ASSUME Readers = {}, Typed, Serial, CountsInv, PayloadInv, Smooth, L1Follows, CountedOut,
           RoomForTables, [Next]_vars
    PROVE  CountedOut'
<1>1. CASE UNCHANGED vars
  <2>1. Stored' = Stored /\ UNCHANGED <<pc, reg, faults, crashes>>
    BY <1>1 DEF vars, memory, bounds, Stored
  <2>2. Spares' = Spares
    BY <2>1 DEF Spares
  <2>3. QED
    BY <2>1, <2>2 DEF CountedOut
<1>2. CASE Next /\ faults' = 0 /\ crashes' = 0
  <2>1. Typed' /\ faults = 0 /\ crashes \in Nat
    BY <1>2, NextTyped, NoFaultBefore, WriteAssumption DEF Typed, TypeOK
  <2>2. CASE Crash
    BY <1>2, <2>1, <2>2 DEF Crash
  <2>3. CASE Flush
    <3>1. /\ dev' = dev /\ img' = img /\ UNCHANGED <<pc, reg, faults, crashes>>
      BY <2>3 DEF Flush, bounds
    <3>2. Spares' = Spares
      BY <3>1 DEF Spares
    <3>3. Stored'.dev = Stored.dev /\ Stored'.img = Stored.img
      BY <3>1 DEF Stored
    <3>4. \A c : /\ Refs(Stored', c) = Refs(Stored, c) /\ Kept(Stored', c) = Kept(Stored, c)
                 /\ LeftIn(Stored', c) = LeftIn(Stored, c)
      BY <3>3 DEF Refs, Kept, LeftIn, OnDevice, Opened
    <3>5. QED
      BY <3>1, <3>2, <3>3, <3>4 DEF CountedOut, Exact
  <2>4. CASE \E t \in Writers : Lookup(t) \/ DeviceError(t) \/ StartWrite(t) \/ WriteStep(t)
    <3>1. PICK t \in Writers : Lookup(t) \/ DeviceError(t) \/ StartWrite(t) \/ WriteStep(t)
      BY <2>4
    <3>2. crashes = 0
      BY <1>2, <3>1, Observed
    <3>3. Accounted
      BY <2>1, <3>2 DEF Accounted, PayloadInv, Smooth, L1Follows, CountedOut
    <3>4. Exact(Stored', Spares')
      BY <1>2, <2>1, <3>1, <3>3, StepCounts
    <3>5. QED
      BY <3>4 DEF CountedOut
  <2>5. QED
    BY <1>2, <2>2, <2>3, <2>4 DEF Next, Threads
<1>3. QED
  BY <1>1, <1>2 DEF CountedOut

(* Of an image: no count is higher than its references.                    *)
NoneLost(image) ==
    \A c \in Cluster : References(image.dev, image.snap, c) >= image.dev.rc[c]

LEMMA CountedInit ==
    ASSUME Init, Typed, \A image \in Images : SoundImage(image) /\ NoneLost(image)
    PROVE  CountedOut
<1> DEFINE s == Stored
<1>1. IsStore(s) /\ s.dev = s.img.dev /\ s.img \in Images
  BY StoredTyped DEF Init, Stored
<1> HIDE DEF s
<1>2. \A t \in Writers : pc[t] \in Resting
  BY DEF Init, Idle, Resting, Threads
<1>3. \A c \in Cluster : c \notin Spares
  BY <1>2, SpareAt DEF Spares
<1>4. \A c : LeftIn(s, c) = {}
  BY <1>1 DEF LeftIn, OnDevice, Opened
<1>5. ASSUME NEW c \in Cluster
      PROVE  Cardinality(Refs(s, c)) + Cardinality(Kept(s, c)) + Cardinality(LeftIn(s, c))
             + (IF c \in Spares THEN 1 ELSE 0) = s.dev.rc[c]
  <2>1. Cardinality(LeftIn(s, c)) = 0
    BY <1>4, FS_EmptySet
  <2>2. References(s.dev, s.img.snap, c) = Cardinality(Refs(s, c)) + Cardinality(Kept(s, c))
    BY <1>1 DEF References, Refs, Kept
  <2>3. /\ References(s.dev, s.img.snap, c) <= s.dev.rc[c]
        /\ References(s.dev, s.img.snap, c) >= s.dev.rc[c]
    BY <1>1 DEF SoundImage, NoneLost
  <2>4. /\ Cardinality(Refs(s, c)) \in Nat /\ Cardinality(Kept(s, c)) \in Nat
        /\ s.dev.rc[c] \in Nat
    BY <1>1, RefsFacts, Counting, RcTyped
  <2>5. QED
    BY <1>3, <2>1, <2>2, <2>3, <2>4
<1>6. QED
  BY <1>5 DEF CountedOut, Exact, s

(* However many writers run and whatever they share: with no call in       *)
(* progress, no failed call and no loss of power, write_at has left each   *)
(* count at the number of its references, but for the references of a      *)
(* rewritten zero-flagged entry and of the second cluster of a payload,    *)
(* which plan_write does not hand to decrement_refcount.  The premises are *)
(* that the image had no count too high when it was opened, and that       *)
(* allocate_l2_table and the copy of a table find a free cluster:          *)
(* otherwise the cluster that write_at has filled by then is not released. *)
THEOREM WritersLeakNothing ==
    ASSUME Readers = {}, \A image \in Images : SoundImage(image) /\ NoneLost(image)
    PROVE  Spec /\ []RoomForTables => []NothingLeaks
<1>1. Init => DiskInv /\ CountedOut
  BY DiskInit, CountedInit, InitTyped
<1>2. DiskInv /\ [Next]_vars => DiskInv'
  BY DiskNext
<1>3. DiskInv /\ CountedOut /\ RoomForTables /\ [Next]_vars => CountedOut'
  BY CountedNext DEF DiskInv
<1>4. DiskInv /\ CountedOut => NothingLeaks
  <2> SUFFICES ASSUME DiskInv, CountedOut, \A t \in Threads : pc[t] = "idle",
                      faults = 0, crashes = 0, NEW c \in Cluster
               PROVE  References(dev, img.snap, c) + Cardinality(LeftBehind(c)) = dev.rc[c]
    BY DEF NothingLeaks
  <2> DEFINE s == Stored
  <2>1. IsStore(s) /\ SnapKept(s)
    BY StoredTyped DEF DiskInv, CountsInv, Sound
  <2>2. s.dev = dev /\ s.img = img
    BY DEF Stored
  <2>3. c \notin Spares
    <3>1. \A t \in Writers : pc[t] \in Resting
      BY DEF Resting, Threads
    <3>2. QED
      BY <3>1, SpareAt DEF Spares
  <2>4. Exact(s, Spares)
    BY DEF CountedOut
  <2> HIDE DEF s
  <2>5. LeftBehind(c) = LeftIn(s, c)
    BY <2>2 DEF LeftBehind, LeftIn, OnDevice, Opened, Forgone
  <2>6. PathsThrough(dev, img.snap, c) = Kept(s, c)
    BY <2>1, <2>2, SnapEntries
  <2>7. References(dev, img.snap, c) = Cardinality(Refs(s, c)) + Cardinality(Kept(s, c))
    BY <2>2, <2>6 DEF References, Refs
  <2>8. Cardinality(Refs(s, c)) + Cardinality(Kept(s, c)) + Cardinality(LeftIn(s, c)) + 0 = dev.rc[c]
    BY <2>2, <2>3, <2>4 DEF Exact
  <2>9. /\ Cardinality(Refs(s, c)) \in Nat /\ Cardinality(Kept(s, c)) \in Nat
        /\ Cardinality(LeftIn(s, c)) \in Nat
    BY RefsFacts, Counting
  <2>10. QED
    BY <2>5, <2>7, <2>8, <2>9
<1>5. QED
  BY <1>1, <1>2, <1>3, <1>4, PTL DEF Spec
=============================================================================
