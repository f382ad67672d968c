----------------------------- MODULE LockOrder -----------------------------
(***************************************************************************)
(* The seven mutexes of an open image (write_lock, l1, l2_cache,           *)
(* decompress_cache, image_len, refcount_table, alloc_cursor) and those of *)
(* the images behind it: which of them read_at, cluster_status_at and      *)
(* write_at take, in which order, and what they do while they hold them.   *)
(* A thread is what it has still to do, in program order, and the guards   *)
(* it holds; a call expands into one of the courses its function can take. *)
(* Device calls in a row are one step, and what the data decides is left   *)
(* open.                                                                   *)
(***************************************************************************)
EXTENDS Naturals, SequencesExt

CONSTANTS
    Readers,        \* threads that call read_at and cluster_status_at
    Writers,        \* threads that call write_at
    Depth,          \* images of the chain: 1 is the open one, i + 1 backs i
    MaxChunks       \* into how many clusters a call reaches

ASSUME LockAssumption ==
    /\ Readers \cap Writers = {}
    /\ Depth \in Nat \ {0} /\ MaxChunks \in Nat \ {0}

Threads == Readers \cup Writers

VARIABLES
    todo,           \* what each thread has still to do
    held            \* the mutexes it holds a guard of, the latest last

vars == <<todo, held>>

Init ==
    /\ todo = [t \in Threads |-> <<>>]
    /\ held = [t \in Threads |-> <<>>]

-----------------------------------------------------------------------------
(* What a thread can have to do: lock a mutex; drop the latest guard, its  *)
(* scope at an end; call a function; call the device, and return its       *)
(* error, or ignore it (below decrement_refcount); return an error; match  *)
(* on what a lookup found.                                                 *)
Lock(i, field) == [op |-> "lock", on |-> [image |-> i, field |-> field]]
Drop == [op |-> "drop"]
Call(i, f) == [op |-> "call", image |-> i, f |-> f]
Device == [op |-> "device"]
Tried == [op |-> "tried"]
Fail == [op |-> "fail"]
Found(verdict) == [op |-> "found", verdict |-> verdict]
Match(i, f) == [op |-> "match", image |-> i, f |-> f]

Under(i, field, body) == <<Lock(i, field)>> \o body \o <<Drop>>
Briefly(i, field) == Under(i, field, <<>>)

Times(n, body) == FlattenSeq([k \in 1 .. n |-> body])

(* dev_write raises image_len once the device has the bytes; dev_flush.    *)
Written(i) == <<Device>> \o Briefly(i, "image_len")
Flushed == <<Device>>

-----------------------------------------------------------------------------
(* l2_table_offset: a damaged entry, none, or one to hold against the      *)
(* image's length.                                                         *)
L2TableOffset(i) ==
    {<<Fail>>, <<Found("None")>>,
     Briefly(i, "image_len") \o <<Fail>>,
     Briefly(i, "image_len") \o <<Found("Some")>>}

(* Mutant: the length is read first, and its guard still lives then.       *)
LengthFirst(i) ==
    {Under(i, "image_len", Briefly(i, "l1")) \o <<Fail>>,
     Under(i, "image_len", Briefly(i, "l1"))
        \o <<Call(i, "l2_table_offset"), Match(i, "lookup_cluster")>>}

(* lookup_cluster: the L1 guard is gone before the table is looked at.     *)
LookupCluster(i) ==
    {Briefly(i, "l1") \o <<Fail>>,
     Briefly(i, "l1") \o <<Call(i, "l2_table_offset"), Match(i, "lookup_cluster")>>}

InTable(i, offset) ==
    IF offset = "None" THEN {<<Found("Unallocated")>>}
    ELSE {<<Call(i, "read_l2_entry"), Call(i, "l2_entry")>>}

L2Entry(i) ==
    {<<Fail>>, <<Found("Zero")>>, <<Found("Unallocated")>>,
     Briefly(i, "image_len") \o <<Fail>>}
    \cup {Briefly(i, "image_len") \o <<Found(verdict)>> : verdict \in {"Plain", "Compressed"}}

(* read_l2_entry reads the table, unless it is cached, under the guard.    *)
ReadL2Entry(i) == {Briefly(i, "l2_cache"), Under(i, "l2_cache", <<Device>>)}

(* read_decompressed_slice: a hit, or a payload read and decoded between   *)
(* two short holds of the cache.                                           *)
ReadDecompressedSlice(i) ==
    {Briefly(i, "decompress_cache"),
     Briefly(i, "decompress_cache") \o <<Device, Fail>>,
     Briefly(i, "decompress_cache") \o <<Device>> \o Briefly(i, "decompress_cache")}

(* read_unallocated: zeros, or the backing image's read_at.                *)
ReadUnallocated(i) ==
    {<<>>} \cup {<<Call(b, "read_at")>> : b \in {i + 1} \cap 1 .. Depth}

ReadChunk(i, verdict) ==
    CASE verdict = "Plain" -> {<<Device>>}
      [] verdict = "Compressed" -> {<<Call(i, "read_decompressed_slice")>>}
      [] verdict = "Unallocated" -> {<<Call(i, "read_unallocated")>>}
      [] OTHER -> {<<>>}

(* Mutant: a read waits for the writer.                                    *)
ReadAtAlone(i) ==
    {Under(i, "write_lock", Times(n, <<Call(i, "lookup_cluster"), Match(i, "read_at")>>)) :
        n \in 1 .. MaxChunks}

ReadAt(i) ==
    {Times(n, <<Call(i, "lookup_cluster"), Match(i, "read_at")>>) : n \in 1 .. MaxChunks}

ClusterStatusAt(i) == {<<Call(i, "lookup_cluster"), Match(i, "cluster_status_at")>>}

-----------------------------------------------------------------------------
(* allocate_cluster: refused before any lock, or the table loaded and      *)
(* scanned under both guards.                                              *)
AllocateCluster(i) ==
    {<<Fail>>,
     Under(i, "refcount_table",
           <<Call(i, "load_table")>> \o Under(i, "alloc_cursor", <<Call(i, "scan")>>))}

LoadTable == {<<>>, <<Device>>, <<Fail>>}

(* A free cluster is counted, or a new block written and then published,   *)
(* or there is neither.                                                    *)
Scan(i) ==
    {Written(i) \o Flushed, Written(i) \o Written(i) \o Flushed, <<Device, Fail>>}

(* decrement_refcount, which no caller lets fail; a count that comes to    *)
(* zero moves the cursor.                                                  *)
DecrementRefcount(i) ==
    LET landed == <<Tried>> \o Briefly(i, "image_len") \o <<Tried>>
    IN  {<<>>, <<Tried>>, landed, landed \o Briefly(i, "alloc_cursor")}

(* update_l1_entry: one guard over the write and the flush.                *)
UpdateL1Entry(i) ==
    {Under(i, "l1", <<Fail>>), Under(i, "l1", Written(i) \o Flushed)}

AllocateL2Table(i) ==
    {<<Call(i, "allocate_cluster")>> \o Written(i) \o Flushed
        \o <<Call(i, "update_l1_entry")>>}

(* The rest of update_l2_entry, whichever table takes the entry.           *)
EntryWritten(i) ==
    Written(i) \o Flushed \o Briefly(i, "l2_cache") \o Briefly(i, "decompress_cache")

UpdateL2Entry(i) ==
    {Briefly(i, "l1") \o <<Fail>>,
     Briefly(i, "l1") \o <<Call(i, "l2_table_offset"), Match(i, "update_l2_entry")>>
        \o EntryWritten(i)}

(* There is no table yet; or it is written in place; or it is shared and   *)
(* copied, and its share released.                                         *)
TableFor(i, offset) ==
    IF offset = "None" THEN {<<Call(i, "allocate_l2_table")>>}
    ELSE {<<>>, <<Fail>>,
          <<Device, Call(i, "allocate_cluster")>> \o Written(i) \o Flushed
            \o <<Call(i, "update_l1_entry"), Call(i, "decrement_refcount")>>}

(* plan_write and what it leads to: in place, or a new cluster seeded with *)
(* what is read there, and the old one released.                           *)
Reallocated(i) ==
    <<Call(i, "allocate_cluster")>> \o Written(i) \o Flushed \o <<Call(i, "update_l2_entry")>>

WriteChunk(i, verdict) ==
    CASE verdict = "Plain" ->
            {<<Fail>>, Written(i),
             <<Device>> \o Reallocated(i) \o <<Call(i, "decrement_refcount")>>}
      [] verdict = "Compressed" ->
            {<<Call(i, "read_decompressed_slice")>> \o Reallocated(i)
                \o <<Call(i, "decrement_refcount")>>}
      [] verdict = "Unallocated" -> {<<Call(i, "read_unallocated")>> \o Reallocated(i)}
      [] OTHER -> {Reallocated(i)}

WriteAt(i) ==
    {Under(i, "write_lock", Times(n, <<Call(i, "lookup_cluster"), Match(i, "write_at")>>)) :
        n \in 1 .. MaxChunks}

Function == {"read_at", "cluster_status_at", "write_at", "lookup_cluster", "l2_table_offset",
             "l2_entry", "read_l2_entry", "read_decompressed_slice", "read_unallocated",
             "allocate_cluster", "load_table", "scan", "decrement_refcount",
             "update_l1_entry", "allocate_l2_table", "update_l2_entry"}

Courses ==
    [i \in 1 .. Depth, f \in Function |->
        CASE f = "read_at" -> ReadAt(i)
          [] f = "cluster_status_at" -> ClusterStatusAt(i)
          [] f = "write_at" -> WriteAt(i)
          [] f = "lookup_cluster" -> LookupCluster(i)
          [] f = "l2_table_offset" -> L2TableOffset(i)
          [] f = "l2_entry" -> L2Entry(i)
          [] f = "read_l2_entry" -> ReadL2Entry(i)
          [] f = "read_decompressed_slice" -> ReadDecompressedSlice(i)
          [] f = "read_unallocated" -> ReadUnallocated(i)
          [] f = "allocate_cluster" -> AllocateCluster(i)
          [] f = "load_table" -> LoadTable
          [] f = "scan" -> Scan(i)
          [] f = "decrement_refcount" -> DecrementRefcount(i)
          [] f = "update_l1_entry" -> UpdateL1Entry(i)
          [] f = "allocate_l2_table" -> AllocateL2Table(i)
          [] f = "update_l2_entry" -> UpdateL2Entry(i)]

Arms(i, f, verdict) ==
    CASE f = "lookup_cluster" -> InTable(i, verdict)
      [] f = "read_at" -> ReadChunk(i, verdict)
      [] f = "cluster_status_at" -> {<<>>}
      [] f = "write_at" -> WriteChunk(i, verdict)
      [] f = "update_l2_entry" -> TableFor(i, verdict)

-----------------------------------------------------------------------------
Now(t) == Head(todo[t])
Busy(t) == todo[t] # <<>>
At(t, op) == Busy(t) /\ Now(t).op = op
Holds(t, mutex) == mutex \in Range(held[t])

Continue(t, steps) == todo' = [todo EXCEPT ![t] = steps]

(* An error leaves every scope of the call.                                *)
Unwind(t) == Continue(t, [n \in 1 .. Len(held[t]) |-> Drop]) /\ UNCHANGED held

Begin(t, f) ==
    /\ ~Busy(t)
    /\ \E course \in Courses[1, f] : Continue(t, course)
    /\ UNCHANGED held

Acquire(t) ==
    /\ At(t, "lock")
    /\ \A u \in Threads : ~Holds(u, Now(t).on)
    /\ held' = [held EXCEPT ![t] = Append(@, Now(t).on)]
    /\ Continue(t, Tail(todo[t]))

Release(t) ==
    /\ At(t, "drop")
    /\ held' = [held EXCEPT ![t] = Front(@)]
    /\ Continue(t, Tail(todo[t]))

Enter(t) ==
    /\ At(t, "call")
    /\ \E course \in Courses[Now(t).image, Now(t).f] :
        Continue(t, course \o Tail(todo[t]))
    /\ UNCHANGED held

Decide(t) ==
    /\ At(t, "found")
    /\ LET match == todo[t][2] IN
       \E arm \in Arms(match.image, match.f, Now(t).verdict) :
           Continue(t, arm \o Tail(Tail(todo[t])))
    /\ UNCHANGED held

DeviceAnswers(t) ==
    /\ At(t, "device") \/ At(t, "tried")
    /\ Continue(t, Tail(todo[t]))
    /\ UNCHANGED held

DeviceFails(t) == At(t, "device") /\ Unwind(t)

Fails(t) == At(t, "fail") /\ Unwind(t)

Step(t) ==
    \/ Acquire(t) \/ Release(t) \/ Enter(t) \/ Decide(t)
    \/ DeviceAnswers(t) \/ DeviceFails(t) \/ Fails(t)

BeginSome ==
    \/ \E r \in Readers : Begin(r, "read_at") \/ Begin(r, "cluster_status_at")
    \/ \E w \in Writers : Begin(w, "write_at")

Next == BeginSome \/ \E t \in Threads : Step(t)

Spec == Init /\ [][Next]_vars

(* Threads are scheduled and device calls return; a mutex that stays free  *)
(* is taken, but one that is taken again and again may pass a waiter over. *)
(* A writer must go on only while it holds a mutex that readers use; it    *)
(* may stop for good anywhere else in its call.                            *)
Shared == [image : 1 .. Depth, field : {"l1", "l2_cache", "decompress_cache", "image_len"}]

FairSpec ==
    /\ Spec
    /\ \A r \in Readers : WF_vars(Step(r))
    /\ \A w \in Writers : WF_vars(Step(w) /\ Range(held[w]) \cap Shared # {})
-----------------------------------------------------------------------------
WaitsFor(t, u) == At(t, "lock") /\ Holds(u, Now(t).on)

(* No threads wait for each other in a circle, and none for itself: of any *)
(* that are waiting, one waits for a mutex held outside of them.           *)
NoWaitCycle ==
    \A some \in SUBSET Threads \ {{}} :
        \E t \in some : \A u \in some : ~WaitsFor(t, u)

Quiet == <>[][~BeginSome]_vars

(* If at some time no new calls begin, every read returns, even while a    *)
(* writer is stopped in the middle of an allocation or a copy: what        *)
(* readers need is held only briefly.  And if writers go on, every write   *)
(* returns.                                                                *)
CallsReturn ==
    Quiet =>
        /\ \A r \in Readers : Busy(r) ~> ~Busy(r)
        /\ (\A w \in Writers : WF_vars(Step(w))) =>
               \A w \in Writers : Busy(w) ~> ~Busy(w)
=============================================================================
