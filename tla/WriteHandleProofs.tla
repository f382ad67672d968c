-------------------------- MODULE WriteHandleProofs --------------------------
(***************************************************************************)
(* What a handle keeps in memory says the truth of the device, for every   *)
(* image, set of threads and number of calls, failures and crashes: its    *)
(* copy of the L1 table, the length it checks offsets against, and the     *)
(* caches a lookup goes through.                                           *)
(***************************************************************************)
EXTENDS WritePathProofs

(***************************************************************************)
(* The L1 table in memory                                                  *)
(***************************************************************************)
(* The entry a writer has put on the device and not yet in memory is the   *)
(* only difference, and its writer holds the L1 lock.                      *)
Matched ==
    /\ l1Lock = Nobody => l1 = dev.l1
    /\ \A t \in Writers :
        /\ pc[t] = "l1Flush" <=> l1Lock = t
        /\ pc[t] = "l1Flush" =>
            dev.l1 = [l1 EXCEPT ![reg[t].at[1]] = L1EntryFor(reg[t].table)]

(* A step away from the L1 table: no part of Matched sees it.              *)
AwayFromL1(t) ==
    /\ t \in Writers => pc[t] # "l1Flush" /\ pc'[t] # "l1Flush"
    /\ UNCHANGED <<l1, l1Lock>> /\ dev'.l1 = dev.l1

LEMMA AwayMatched ==
    ASSUME Typed, Matched, NEW t \in Threads, AwayFromL1(t),
           \A u \in Threads : u # t => pc'[u] = pc[u] /\ reg'[u] = reg[u]
    PROVE  Matched'
<1>1. l1Lock' = Nobody => l1' = dev'.l1
  BY DEF Matched, AwayFromL1
<1>2. ASSUME NEW u \in Writers
      PROVE  /\ pc'[u] = "l1Flush" <=> l1Lock' = u
             /\ pc'[u] = "l1Flush" =>
                 dev'.l1 = [l1' EXCEPT ![reg'[u].at[1]] = L1EntryFor(reg'[u].table)]
  <2>1. CASE u = t
    BY <2>1 DEF Matched, AwayFromL1
  <2>2. CASE u # t
    BY <2>2, TypedParts DEF Matched, AwayFromL1
  <2>3. QED
    BY <2>1, <2>2
<1>3. QED
  BY <1>1, <1>2 DEF Matched

(* Without a failure, a call only ends where it does not hold the lock.    *)
LEMMA LeaveAway ==
    ASSUME Typed, Matched, NEW t \in Threads, Leave(t), pc[t] # "l1Flush",
           UNCHANGED l1, dev'.l1 = dev.l1
    PROVE  AwayFromL1(t)
<1>1. pc'[t] = "idle" /\ l1Lock' = IF l1Lock = t THEN Nobody ELSE l1Lock
  BY TypedParts DEF Leave, Go, ReleaseLocks
<1>2. l1Lock # t
  BY TypedParts, WriteAssumption DEF Matched, LocksTyped, Threads
<1>3. QED
  BY <1>1, <1>2 DEF AwayFromL1

LEMMA StepsAway ==
    ASSUME Typed, Matched, NEW t \in Threads, UNCHANGED faults, faults \in Nat,
           \/ Lookup(t) \/ DeviceError(t) \/ StartRead(t) \/ ReadStep(t)
           \/ t \in Writers /\ (StartWrite(t) \/ WriteStep(t)),
           ~WriteL1(t), ~FlushL1(t)
    PROVE  AwayFromL1(t)
<1>1. ~Fault
  BY DEF Fault
<1>2. \A step \in Steps : Go(t, step) => pc'[t] = step
  BY TypedParts DEF Go
<1>3. dev \in Device
  BY TypedParts DEF StoreTyped
<1>4. ASSUME NEW step \in Steps \ {"l1Flush"}, Go(t, step), pc[t] # "l1Flush",
             UNCHANGED <<l1, l1Lock>>, dev'.l1 = dev.l1
      PROVE  AwayFromL1(t)
  BY <1>2, <1>4 DEF AwayFromL1
<1>5. ASSUME NEW step \in Steps \ {"l1Flush"}, NEW c, WrittenTo(t, c, step), pc[t] # "l1Flush",
             UNCHANGED l1, dev'.l1 = dev.l1
      PROVE  AwayFromL1(t)
  BY <1>1, <1>4, <1>5 DEF WrittenTo, locks
<1>6. ASSUME NEW step \in Steps \ {"l1Flush"}, FlushThen(t, step), pc[t] # "l1Flush"
      PROVE  AwayFromL1(t)
  BY <1>4, <1>6 DEF FlushThen, locks, memory
<1>7. CASE Lookup(t) \/ DeviceError(t)
  <2>1. Looked(t) \in Steps \ {"l1Flush"}
    BY StepNames DEF Looked
  <2>2. CASE LookupL1(t)
    BY <1>4, <2>1, <2>2, LeaveAway, StepNames DEF LookupL1, locks, memory
  <2>3. CASE LookupL2(t)
    BY <1>4, <2>1, <2>3, LeaveAway, StepNames DEF LookupL2, locks
  <2>4. CASE Undecodable(t)
    BY <2>4, LeaveAway DEF Undecodable, memory
  <2>5. QED
    BY <1>1, <1>7, <2>2, <2>3, <2>4 DEF Lookup, DeviceError
<1>8. CASE StartRead(t) \/ ReadStep(t)
  <2>1. CASE EndRead(t)
    BY <2>1, LeaveAway DEF EndRead, memory
  <2>2. CASE StartRead(t) \/ Fetch(t) \/ Store(t)
    BY <1>4, <2>2, StepNames DEF StartRead, Fetch, Store, locks, memory
  <2>3. QED
    BY <1>8, <2>1, <2>2 DEF ReadStep
<1>9. CASE t \in Writers /\ (StartWrite(t) \/ WriteStep(t))
  <2>1. CASE StartWrite(t) \/ TakeWriteLock(t) \/ PlanInPlace(t) \/ PlanReallocate(t)
             \/ Repoint(t) \/ ForgetL2(t) \/ ForgetData(t) \/ NextChunk(t)
    BY <1>4, <2>1, StepNames
      DEF StartWrite, TakeWriteLock, PlanInPlace, PlanReallocate, Repoint, ForgetL2, ForgetData,
          NextChunk, locks, memory
  <2>2. CASE NoRoom(t) \/ EndWrite(t)
    BY <2>2, LeaveAway DEF NoRoom, EndWrite, memory
  <2>3. CASE WriteInPlace(t) \/ Fill(t) \/ Zero(t) \/ CopyTable(t) \/ WriteEntry(t)
    <3>1. dev'.l1 = dev.l1 /\ UNCHANGED l1 /\ pc[t] # "l1Flush"
      BY <1>3, <2>3 DEF WriteInPlace, Fill, Zero, CopyTable, WriteEntry, Device, memory
    <3>2. PICK step \in Steps \ {"l1Flush"} : \E c : WrittenTo(t, c, step)
      BY <2>3, StepNames DEF WriteInPlace, Fill, Zero, CopyTable, WriteEntry, Written
    <3>3. QED
      BY <1>5, <3>1, <3>2
  <2>4. CASE Allocate(t)
    <3>1. /\ Go(t, "allocateFlush") /\ UNCHANGED locks
          /\ dev'.l1 = dev.l1 /\ UNCHANGED l1 /\ pc[t] # "l1Flush"
      BY <1>1, <1>3, <2>4 DEF Allocate, Device, memory
    <3>2. QED
      BY <1>4, <3>1, StepNames DEF locks
  <2>5. CASE FlushAllocate(t)
    <3>1. reg[t].why \in {"data", "table", "copy"}
      BY <2>5, TypedParts DEF FlushAllocate, LocalsGood, GoodAt, TableSteps
    <3>2. QED
      BY <1>6, <2>5, <3>1, StepNames DEF FlushAllocate
  <2>6. CASE FlushFill(t) \/ FlushZero(t) \/ FlushCopy(t) \/ FlushEntry(t) \/ FlushRelease(t)
    BY <1>6, <2>6, StepNames
      DEF FlushFill, FlushZero, FlushCopy, FlushEntry, FlushRelease, AfterRelease
  <2>7. CASE WriteRelease(t) \/ ReleaseFails(t)
    <3>1. /\ dev'.l1 = dev.l1 /\ UNCHANGED <<l1, l1Lock>> /\ pc[t] # "l1Flush"
          /\ Go(t, "releaseFlush") \/ Go(t, AfterRelease(t))
      BY <1>3, <2>7 DEF WriteRelease, ReleaseFails, ReleaseSteps, Device, memory, locks
    <3>2. QED
      BY <1>4, <3>1, StepNames DEF AfterRelease
  <2>8. QED
    BY <1>9, <2>1, <2>2, <2>3, <2>4, <2>5, <2>6, <2>7 DEF WriteStep
<1>10. QED
  BY <1>7, <1>8, <1>9

LEMMA WriteL1Matched ==
    ASSUME Typed, Matched, NEW t \in Writers, WriteL1(t), UNCHANGED faults, faults \in Nat
    PROVE  Matched'
<1>1. t \in Threads /\ t # Nobody /\ pc[t] = "l1Write" /\ l1Lock = Nobody
  BY TypedParts, WriteAssumption DEF WriteL1, Threads
<1>2. Go(t, "l1Flush") /\ l1Lock' = t /\ UNCHANGED <<l1, reg>>
  BY DEF WriteL1, Fault, memory
<1>3. /\ pc'[t] = "l1Flush" /\ \A u \in Threads : u # t => pc'[u] = pc[u]
  BY <1>1, <1>2, TypedParts DEF Go
<1>4. dev'.l1 = [dev.l1 EXCEPT ![reg[t].at[1]] = L1EntryFor(reg[t].table)] /\ l1 = dev.l1
  BY <1>1, TypedParts DEF WriteL1, StoreTyped, Device, Matched
<1>5. \A u \in Writers : u # t => pc[u] # "l1Flush" /\ u \in Threads
  BY <1>1, TypedParts, WriteAssumption DEF Matched, Threads
<1>6. QED
  BY <1>1, <1>2, <1>3, <1>4, <1>5 DEF Matched

LEMMA FlushL1Matched ==
    ASSUME Typed, Matched, NEW t \in Writers, FlushL1(t)
    PROVE  Matched'
<1>1. t \in Threads /\ pc[t] = "l1Flush" /\ l1Lock = t /\ l1Lock' = Nobody
  BY TypedParts DEF FlushL1, Matched
<1>2. l1' = dev.l1 /\ dev' = dev
  BY <1>1 DEF FlushL1, Matched
<1>3. pc'[t] # "l1Flush" /\ \A u \in Threads : u # t => pc'[u] = pc[u]
  BY <1>1, TypedParts DEF FlushL1, Go
<1>4. \A u \in Writers : pc'[u] # "l1Flush" /\ u # Nobody
  BY <1>1, <1>3, TypedParts, WriteAssumption DEF Matched, Threads
<1>5. QED
  BY <1>1, <1>2, <1>4 DEF Matched

(* Without a failure so far; a crash opens the image again.                *)
L1Follows == faults = 0 => Matched

LEMMA L1FollowsNext == Typed /\ L1Follows /\ [Next]_vars => L1Follows'
<1> SUFFICES ASSUME Typed, L1Follows, [Next]_vars, faults' = 0 PROVE Matched'
  BY DEF L1Follows
<1>1. faults \in Nat
  BY TypedParts, WriteAssumption DEF BoundsTyped
<1>2. CASE \E t \in Threads : \/ Lookup(t) \/ DeviceError(t)
                              \/ t \in Writers /\ (StartWrite(t) \/ WriteStep(t))
                              \/ t \in Readers /\ (StartRead(t) \/ ReadStep(t))
  <2>1. PICK t \in Threads : \/ Lookup(t) \/ DeviceError(t)
                             \/ t \in Writers /\ (StartWrite(t) \/ WriteStep(t))
                             \/ t \in Readers /\ (StartRead(t) \/ ReadStep(t))
    BY <1>2
  <2>2. faults' = faults \/ faults' = faults + 1
    <3>1. Fault \/ UNCHANGED faults => faults' = faults \/ faults' = faults + 1
      BY DEF Fault
    <3>2. Fault \/ UNCHANGED faults
      BY <2>1 DEF Lookup, LookupL1, LookupL2, Undecodable, DeviceError, StartWrite, WriteStep,
        StartRead, ReadStep, Fetch, Store, EndRead, TakeWriteLock, PlanInPlace, PlanReallocate,
        WriteInPlace, Allocate, NoRoom, FlushAllocate, Fill, FlushFill, Repoint, Zero, FlushZero,
        CopyTable, FlushCopy, WriteL1, FlushL1, WriteEntry, FlushEntry, ForgetL2, ForgetData,
        WriteRelease, FlushRelease, ReleaseFails, NextChunk, EndWrite, WrittenTo, Written,
        FlushThen, bounds
    <3>3. QED
      BY <3>1, <3>2
  <2>3. UNCHANGED faults /\ Matched
    BY <1>1, <2>2 DEF L1Follows
  <2>4. CASE WriteL1(t) \/ FlushL1(t)
    <3>1. t \in Writers \/ pc[t] \in {"l1Write", "l1Flush"}
      BY <2>4 DEF WriteL1, FlushL1
    <3>2. CASE t \in Writers
      BY <1>1, <2>3, <2>4, <3>2, WriteL1Matched, FlushL1Matched
    <3>3. CASE t \notin Writers
      <4>1. AwayFromL1(t)
        <5>1. Lookup(t) \/ DeviceError(t) \/ StartRead(t) \/ ReadStep(t)
          BY <2>1, <3>3
        <5>2. pc[t] \in {"l1Write", "l1Flush"}
          BY <3>1, <3>3
        <5>3. ~Fault
          BY <1>1, <2>3 DEF Fault
        <5>4. QED
          BY <5>1, <5>2, <5>3 DEF Lookup, LookupL1, LookupL2, Undecodable, DeviceError,
            StartRead, ReadStep, Fetch, Store, EndRead
      <4>2. \A u \in Threads : u # t => pc'[u] = pc[u] /\ reg'[u] = reg[u]
        BY <2>1, OnlyOne
      <4>3. QED
        BY <2>3, <4>1, <4>2, AwayMatched
    <3>4. QED
      BY <3>2, <3>3
  <2>5. CASE ~WriteL1(t) /\ ~FlushL1(t)
    <3>1. AwayFromL1(t)
      BY <1>1, <2>1, <2>3, <2>5, StepsAway
    <3>2. \A u \in Threads : u # t => pc'[u] = pc[u] /\ reg'[u] = reg[u]
      BY <2>1, OnlyOne
    <3>3. QED
      BY <2>3, <3>1, <3>2, AwayMatched
  <2>6. QED
    BY <2>4, <2>5
<1>3. CASE Flush \/ UNCHANGED vars
  BY <1>3 DEF Flush, L1Follows, Matched, vars, memory, locks, bounds
<1>4. CASE Crash
  <2>1. /\ l1Lock' = Nobody /\ l1' = dev'.l1 /\ pc' = Idle
    BY <1>4 DEF Crash
  <2>2. \A u \in Writers : pc'[u] # "l1Flush" /\ u # Nobody
    BY <2>1, TypedParts, WriteAssumption DEF Idle, Threads
  <2>3. QED
    BY <2>1, <2>2 DEF Matched
<1>5. QED
  BY <1>2, <1>3, <1>4, TypedParts DEF Next

(* Until a device call fails, whenever the L1 lock is free the L1 table in *)
(* memory is the device's, whatever writers, readers and crashes there     *)
(* are: update_l1_entry keeps the lock from the write until memory has     *)
(* followed.  (After a failed flush it need not be: see L1FlushFails.)     *)
THEOREM L1AlwaysMatches == Spec => [](faults = 0 => L1MatchesDevice)
<1>1. Init => L1Follows
  <2>1. Init /\ Typed => Matched
    BY TypedParts, WriteAssumption DEF Init, Matched, Idle, Threads
  <2>2. QED
    BY <2>1, InitTyped DEF L1Follows
<1>2. L1Follows => (faults = 0 => L1MatchesDevice)
  BY DEF L1Follows, Matched, L1MatchesDevice
<1>3. QED
  BY <1>1, <1>2, AlwaysTyped, L1FollowsNext, PTL DEF Spec

(***************************************************************************)
(* How far the image reaches                                               *)
(***************************************************************************)
(* The offset lies in the image, and would after a crash.                  *)
Reached(a) == a <= imageLen /\ a <= durable.len

(* The writer has filled the cluster it will point an entry at.            *)
Carries(step, why) ==
    \/ step \in {"fillFlush", "repoint", "zero", "zeroFlush", "copy", "copyFlush",
                 "l1Write", "l1Flush", "entry"}
    \/ step \in {"allocate", "allocateFlush"} /\ why # "data"
    \/ step \in ReleaseSteps /\ why = "copy"

(* What an allocation has made of the image's length when it is used.      *)
ReachesAt(step, locals) ==
    /\ step = "allocateFlush" =>
        (IF locals.why = "data" THEN locals.new ELSE locals.table) <= dev.len
    /\ step = "fill" => locals.new <= durable.len
    /\ step \in {"zero", "copy"} => locals.table <= durable.len
    /\ step \in {"zeroFlush", "copyFlush", "l1Write", "l1Flush"} => Reached(locals.table)
    /\ Carries(step, locals.why) => Reached(locals.new)

(* Past its lookup a writer's L1 entry lies in the image.                  *)
Follows(step, locals) == step \notin Early => l1[locals.at[1]].at <= imageLen

Sized ==
    /\ imageLen <= dev.len /\ durable.len <= dev.len
    /\ \A t \in Threads : reg[t].l1Entry.at <= dev.len
    /\ \A t \in Writers : ReachesAt(pc[t], reg[t]) /\ Follows(pc[t], reg[t])

LengthsNat == imageLen \in Nat /\ dev.len \in Nat /\ durable.len \in Nat

LEMMA LengthsTyped == Typed => LengthsNat
  BY TypedParts, Numbers DEF StoreTyped, Device, LengthsNat

LEMMA LengthsNext == Typed' => LengthsNat'
<1>1. QED
  BY LengthsTyped, PTL

Longest == imageLen <= imageLen' /\ dev.len <= dev'.len /\ durable.len <= durable'.len

LEMMA ReachedGrows ==
    ASSUME LengthsNat, LengthsNat', Longest, NEW a \in Offset, Reached(a)
    PROVE  Reached(a)'
  BY Numbers DEF LengthsNat, Longest, Reached, Offset

LEMMA ReachesGrows ==
    ASSUME LengthsNat, LengthsNat', Longest, NEW step, NEW locals \in Local, ReachesAt(step, locals)
    PROVE  ReachesAt(step, locals)'
<1>1. locals.new \in Offset /\ locals.table \in Offset
  BY DEF Local
<1>2. \A a \in Offset : a \in Nat /\ (Reached(a) => Reached(a)')
  BY ReachedGrows, Numbers DEF Offset
<1>3. QED
  BY <1>1, <1>2 DEF ReachesAt, LengthsNat, Longest

(* A step of t keeps the lengths in order if what t uses is.               *)
LEMMA SizedStep ==
    ASSUME Typed, Typed', Serial, Sized, NEW t \in Threads, Longest,
           \A u \in Threads : u # t => pc'[u] = pc[u] /\ reg'[u] = reg[u],
           imageLen' <= dev'.len, durable'.len <= dev'.len,
           UNCHANGED l1 \/ writeLock = t,
           reg'[t].l1Entry.at <= dev'.len,
           t \in Writers => ReachesAt(pc[t], reg[t])' /\ Follows(pc[t], reg[t])'
    PROVE  Sized'
<1>1. LengthsNat /\ LengthsNat'
  BY LengthsTyped, LengthsNext
<1>2. ASSUME NEW u \in Threads PROVE reg'[u].l1Entry.at <= dev'.len
  <2>1. CASE u = t
    BY <2>1
  <2>2. CASE u # t
    <3>1. reg[u].l1Entry.at <= dev.len /\ reg[u].l1Entry.at \in Nat
      BY TypedParts, Numbers DEF Sized, Local, L1Entry, Offset
    <3>2. QED
      BY <1>1, <2>2, <3>1 DEF LengthsNat, Longest
  <2>3. QED
    BY <2>1, <2>2
<1>3. ASSUME NEW u \in Writers PROVE ReachesAt(pc[u], reg[u])' /\ Follows(pc[u], reg[u])'
  <2>1. CASE u = t
    BY <2>1
  <2>2. CASE u # t
    <3>1. pc'[u] = pc[u] /\ reg'[u] = reg[u] /\ reg[u] \in Local /\ u \in Threads /\ u # Nobody
      BY <2>2, TypedParts, WriteAssumption
    <3>2. ReachesAt(pc[u], reg[u])'
      BY <1>1, <3>1, ReachesGrows DEF Sized
    <3>3. Follows(pc[u], reg[u])'
      <4>1. CASE pc[u] \in Early
        BY <3>1, <4>1 DEF Follows
      <4>2. CASE pc[u] \notin Early
        <5>1. UNCHANGED l1
          BY <2>2, <4>2, <3>1 DEF Serial, Early
        <5>2. l1[reg[u].at[1]].at <= imageLen /\ l1[reg[u].at[1]].at \in Nat
          BY <3>1, <4>2 DEF Sized, Follows, Serial, Early
        <5>3. QED
          BY <1>1, <3>1, <5>1, <5>2 DEF Follows, LengthsNat, Longest
      <4>3. QED
        BY <4>1, <4>2
    <3>4. QED
      BY <3>1, <3>2, <3>3 DEF ReachesAt, Follows, Reached
  <2>3. QED
    BY <2>1, <2>2
<1>4. QED
  BY <1>1, <1>2, <1>3 DEF Sized

(* Nothing is asked of an idle thread.                                     *)
LEMMA LeaveSized ==
    ASSUME Typed, Typed', Serial, Sized, NEW t \in Threads, Leave(t), Longest,
           \A u \in Threads : u # t => pc'[u] = pc[u] /\ reg'[u] = reg[u],
           imageLen' <= dev'.len, durable'.len <= dev'.len, UNCHANGED l1
    PROVE  Sized'
<1>1. pc'[t] = "idle" /\ reg'[t] = Blank /\ Blank.l1Entry.at = 0
  BY TypedParts DEF Leave, Go, Set, Blank, NoL1Entry, None
<1>2. LengthsNat'
  BY LengthsNext
<1>3. ReachesAt("idle", Blank)' /\ Follows("idle", Blank)'
  BY DEF ReachesAt, Follows, Early, Carries, ReleaseSteps
<1>4. reg'[t].l1Entry.at <= dev'.len
  BY <1>1, <1>2 DEF LengthsNat
<1>5. QED
  BY <1>1, <1>3, <1>4, SizedStep DEF ReachesAt, Follows, Reached

(* A thread moves and changes its locals, and nothing else that counts.    *)
LEMMA QuietSized ==
    ASSUME Typed, Typed', Serial, Sized, NEW t \in Threads, NEW step \in Steps, Go(t, step),
           \A u \in Threads : u # t => pc'[u] = pc[u] /\ reg'[u] = reg[u],
           UNCHANGED <<l1, imageLen>>, dev'.len = dev.len, durable'.len = durable.len,
           reg'[t].at = reg[t].at \/ step \in Early, pc[t] \notin Early \/ step \in Early,
           reg'[t].l1Entry.at <= dev.len,
           t \in Writers => ReachesAt(step, reg'[t])
    PROVE  Sized'
<1>1. pc'[t] = step /\ LengthsNat
  BY TypedParts, LengthsTyped DEF Go
<1>2. Longest
  BY <1>1 DEF Longest, LengthsNat
<1>3. t \in Writers => ReachesAt(pc[t], reg[t])' /\ Follows(pc[t], reg[t])'
  BY <1>1 DEF ReachesAt, Reached, Follows, Sized
<1>4. QED
  BY <1>2, <1>3, SizedStep DEF Sized

LEMMA FlushedSized ==
    ASSUME Typed, Typed', Serial, Sized, NEW t \in Writers, NEW step \in Steps, FlushThen(t, step),
           \A u \in Threads : u # t => pc'[u] = pc[u] /\ reg'[u] = reg[u],
           pc[t] \notin Early, ReachesAt(step, reg[t])'
    PROVE  Sized'
<1>1. /\ pc'[t] = step /\ UNCHANGED <<dev, l1, imageLen, reg>> /\ durable' = dev
      /\ LengthsNat /\ t \in Threads
  BY TypedParts, LengthsTyped DEF FlushThen, Go, memory
<1>2. Longest /\ imageLen' <= dev'.len /\ durable'.len <= dev'.len
  BY <1>1 DEF Longest, LengthsNat, Sized
<1>3. Follows(pc[t], reg[t])'
  BY <1>1 DEF Follows, Sized
<1>4. ReachesAt(pc[t], reg[t])'
  BY <1>1 DEF ReachesAt, Reached
<1>5. reg'[t].l1Entry.at <= dev'.len
  BY <1>1 DEF Sized
<1>6. QED
  BY <1>1, <1>2, <1>3, <1>4, <1>5, SizedStep

LEMMA WrittenSized ==
    ASSUME Typed, Typed', Serial, Sized, NEW t \in Writers, NEW step \in Steps,
           NEW c \in 0 .. Clusters, WrittenTo(t, c, step), c <= dev.len,
           \A u \in Threads : u # t => pc'[u] = pc[u] /\ reg'[u] = reg[u],
           UNCHANGED l1, dev'.len = dev.len, durable'.len = durable.len,
           pc[t] \notin Early, Reach(c) => ReachesAt(step, reg[t])'
    PROVE  Sized'
<1>1. LengthsNat /\ LengthsNat' /\ t \in Threads /\ c \in Nat
  BY TypedParts, LengthsTyped, LengthsNext, Numbers
<1>2. CASE Go(t, step) /\ Reach(c) /\ UNCHANGED <<reg, locks, faults>>
  <2>1. Longest /\ imageLen' <= dev'.len /\ durable'.len <= dev'.len
    BY <1>1, <1>2 DEF Longest, LengthsNat, Sized, Reach
  <2>2. pc'[t] = step /\ reg'[t] = reg[t]
    BY <1>1, <1>2, TypedParts DEF Go
  <2>3. reg'[t].l1Entry.at <= dev'.len
    BY <1>1, <2>2 DEF Sized
  <2>4. ReachesAt(pc[t], reg[t])'
    BY <1>2, <2>2 DEF ReachesAt, Reached
  <2>5. l1[reg[t].at[1]].at <= imageLen /\ l1[reg[t].at[1]].at \in Nat
    BY DEF Sized, Follows, Serial, Early
  <2>6. Follows(pc[t], reg[t])'
    BY <1>1, <2>1, <2>2, <2>5 DEF Follows, Longest, LengthsNat
  <2>7. QED
    BY <1>1, <2>1, <2>3, <2>4, <2>6, SizedStep
<1>3. CASE Leave(t) /\ UNCHANGED imageLen
  <2>1. Longest /\ imageLen' <= dev'.len /\ durable'.len <= dev'.len
    BY <1>1, <1>3 DEF Longest, LengthsNat, Sized
  <2>2. QED
    BY <1>1, <1>3, <2>1, LeaveSized
<1>4. QED
  BY <1>2, <1>3 DEF WrittenTo

(***************************************************************************)
(* The lengths at every step                                               *)
(***************************************************************************)
LEMMA LookupSized ==
    ASSUME Typed, Typed', Serial, Sized, NEW t \in Threads, Lookup(t) \/ DeviceError(t)
    PROVE  Sized'
<1>1. \A u \in Threads : u # t => pc'[u] = pc[u] /\ reg'[u] = reg[u]
  BY OnlyOne
<1>2. /\ LengthsNat /\ reg[t] \in Local /\ Looked(t) \in Steps
      /\ \A locals : Set(t, locals) => reg'[t] = locals
  BY TypedParts, LengthsTyped, StepNames DEF Set, Looked
<1>3. UNCHANGED <<dev, durable, l1, imageLen>>
  BY DEF Lookup, LookupL1, LookupL2, Undecodable, DeviceError, memory
<1>4. Longest /\ imageLen' <= dev'.len /\ durable'.len <= dev'.len
  BY <1>2, <1>3 DEF Longest, LengthsNat, Sized
<1>5. CASE Leave(t)
  BY <1>1, <1>3, <1>4, <1>5, LeaveSized
<1>6. CASE LookupL1(t) /\ ~Leave(t)
  <2> DEFINE entry == l1[reg[t].at[1]]
             locals == [reg[t] EXCEPT !.l1Entry = entry, !.map = Unallocated]
             step == IF entry.at = None THEN Looked(t) ELSE "l2"
  <2>1. Inside(entry.at) /\ reg'[t] = locals /\ Go(t, step)
    BY <1>2, <1>6 DEF LookupL1
  <2>2. locals.at = reg[t].at /\ locals.l1Entry = entry /\ step \in Steps
    BY <1>2, StepNames DEF Local
  <2>3. pc'[t] = step /\ step \in {"plan", "fetch", "l2"}
    BY <2>1, <2>2, TypedParts DEF Go, Looked
  <2>4. entry \in L1Entry /\ entry.at \in Nat
    BY <1>2, TypedParts, Numbers DEF Local, VCluster, StoreTyped, L1Entry, Offset
  <2> HIDE DEF entry, locals, step
  <2>5. entry.at <= imageLen /\ entry.at <= dev.len
    BY <1>2, <2>1, <2>4 DEF Inside, LengthsNat, Sized
  <2>6. ReachesAt(pc[t], reg[t])' /\ Follows(pc[t], reg[t])'
    <3>1. ReachesAt(pc[t], reg[t])'
      BY <2>3 DEF ReachesAt, Carries, ReleaseSteps
    <3>2. Follows(pc[t], reg[t])'
      BY <1>3, <2>1, <2>2, <2>5 DEF Follows, entry
    <3>3. QED
      BY <3>1, <3>2
  <2>7. QED
    BY <1>1, <1>3, <1>4, <2>1, <2>2, <2>5, <2>6, SizedStep
<1>7. CASE LookupL2(t) /\ ~Leave(t)
  <2>1. PICK map : Set(t, [reg[t] EXCEPT !.map = map]) /\ Go(t, Looked(t))
    BY <1>7 DEF LookupL2
  <2>2. reg'[t].at = reg[t].at /\ reg'[t].l1Entry = reg[t].l1Entry
    BY <1>2, <2>1 DEF Local
  <2>3. ReachesAt(Looked(t), reg'[t])
    BY DEF ReachesAt, Carries, ReleaseSteps, Looked
  <2>4. pc[t] \notin Early
    BY <1>7 DEF LookupL2, Early
  <2>5. QED
    BY <1>1, <1>2, <1>3, <2>1, <2>2, <2>3, <2>4, QuietSized DEF Sized
<1>8. QED
  BY <1>5, <1>6, <1>7 DEF Lookup, Undecodable, DeviceError

LEMMA ReadSized ==
    ASSUME Typed, Typed', Serial, Sized, NEW t \in Readers, StartRead(t) \/ ReadStep(t)
    PROVE  Sized'
<1>1. t \in Threads /\ t \notin Writers
  BY TypedParts, WriteAssumption
<1>2. \A u \in Threads : u # t => pc'[u] = pc[u] /\ reg'[u] = reg[u]
  BY <1>1, OnlyOne
<1>3. /\ LengthsNat /\ reg[t] \in Local
      /\ \A locals : Set(t, locals) => reg'[t] = locals
  BY <1>1, TypedParts, LengthsTyped DEF Set
<1>4. UNCHANGED <<dev, durable, l1, imageLen>>
  BY DEF StartRead, ReadStep, Fetch, Store, EndRead, memory
<1>5. Longest /\ imageLen' <= dev'.len /\ durable'.len <= dev'.len
  BY <1>3, <1>4 DEF Longest, LengthsNat, Sized
<1>6. CASE StartRead(t)
  <2>1. reg'[t].l1Entry = NoL1Entry
    BY <1>3, <1>6, BlankTyped DEF StartRead, Local, Blank
  <2>2. reg'[t].l1Entry.at <= dev'.len
    BY <1>3, <1>4, <2>1 DEF NoL1Entry, None, LengthsNat
  <2>3. QED
    BY <1>1, <1>2, <1>4, <1>5, <2>2, SizedStep
<1>7. CASE Fetch(t) \/ Store(t)
  <2>1. reg'[t].l1Entry = reg[t].l1Entry
    BY <1>3, <1>7 DEF Fetch, Store, Local
  <2>2. reg'[t].l1Entry.at <= dev'.len
    BY <1>1, <1>4, <2>1 DEF Sized
  <2>3. QED
    BY <1>1, <1>2, <1>4, <1>5, <2>2, SizedStep
<1>8. CASE EndRead(t)
  BY <1>1, <1>2, <1>4, <1>5, <1>8, LeaveSized DEF EndRead
<1>9. QED
  BY <1>6, <1>7, <1>8 DEF ReadStep

(* The steps after which nothing is asked of the lengths.                  *)
LEMMA NothingAsked ==
    ASSUME NEW step, NEW locals,
           \/ step \in {"lock", "l1", "inPlace", "next", "entryFlush", "forgetL2", "forgetData"}
           \/ step = "allocate" /\ locals.why = "data"
           \/ step \in ReleaseSteps /\ locals.why # "copy"
    PROVE  ReachesAt(step, locals)
  BY DEF ReachesAt, Carries, ReleaseSteps

LEMMA QuietWriteSized ==
    ASSUME Typed, Typed', Serial, Sized, NEW t \in Writers,
           \/ StartWrite(t) \/ TakeWriteLock(t) \/ PlanInPlace(t) \/ PlanReallocate(t)
           \/ ForgetL2(t) \/ ForgetData(t) \/ NextChunk(t)
    PROVE  Sized'
<1>1. /\ t \in Threads /\ reg[t] \in Local /\ LengthsNat
      /\ \A locals : Set(t, locals) => reg'[t] = locals
  BY TypedParts, LengthsTyped DEF Set
<1>2. \A u \in Threads : u # t => pc'[u] = pc[u] /\ reg'[u] = reg[u]
  BY <1>1, OnlyOne DEF WriteStep
<1>3. UNCHANGED <<dev, durable, l1, imageLen>> /\ reg[t].l1Entry.at <= dev.len
  BY <1>1 DEF StartWrite, TakeWriteLock, PlanInPlace, PlanReallocate, ForgetL2, ForgetData,
              NextChunk, memory, Sized
<1>4. CASE StartWrite(t)
  <2>1. reg'[t].l1Entry = NoL1Entry
    BY <1>1, <1>4, BlankTyped DEF StartWrite, Local, Blank
  <2>2. reg'[t].l1Entry.at <= dev.len
    BY <1>1, <2>1 DEF NoL1Entry, None, LengthsNat
  <2>3. QED
    BY <1>1, <1>2, <1>3, <1>4, <2>2, NothingAsked, StepNames, QuietSized DEF StartWrite, Early
<1>5. CASE TakeWriteLock(t) \/ NextChunk(t)
  <2>1. reg'[t].l1Entry = reg[t].l1Entry /\ Go(t, "l1")
    BY <1>1, <1>5 DEF TakeWriteLock, NextChunk, Local
  <2>2. QED
    BY <1>1, <1>2, <1>3, <2>1, NothingAsked, StepNames, QuietSized DEF Early
<1>6. CASE PlanInPlace(t) \/ ForgetL2(t)
  <2>1. PICK step \in {"inPlace", "forgetData"} : Go(t, step)
    BY <1>6 DEF PlanInPlace, ForgetL2
  <2>2. reg'[t] = reg[t] /\ pc[t] \notin Early
    BY <1>6 DEF PlanInPlace, ForgetL2, Early
  <2>3. QED
    BY <1>1, <1>2, <1>3, <2>1, <2>2, NothingAsked, StepNames, QuietSized
<1>7. CASE PlanReallocate(t)
  <2>1. PICK full, old : Set(t, [reg[t] EXCEPT !.full = full, !.old = old, !.why = "data"])
    BY <1>7 DEF PlanReallocate
  <2>2. /\ reg'[t].at = reg[t].at /\ reg'[t].l1Entry = reg[t].l1Entry /\ reg'[t].why = "data"
        /\ Go(t, "allocate") /\ pc[t] \notin Early
    BY <1>1, <1>7, <2>1 DEF PlanReallocate, Local, Early
  <2>3. QED
    BY <1>1, <1>2, <1>3, <2>2, NothingAsked, StepNames, QuietSized
<1>8. CASE ForgetData(t)
  <2>1. /\ reg'[t].at = reg[t].at /\ reg'[t].l1Entry = reg[t].l1Entry /\ reg'[t].why = "release"
        /\ pc[t] \notin Early
    BY <1>1, <1>8 DEF ForgetData, Local, Early
  <2>2. PICK step \in {"next", "release"} : Go(t, step)
    BY <1>8 DEF ForgetData
  <2>3. QED
    BY <1>1, <1>2, <1>3, <2>1, <2>2, NothingAsked, StepNames, QuietSized DEF ReleaseSteps
<1>9. QED
  BY <1>4, <1>5, <1>6, <1>7, <1>8

LEMMA RepointSized ==
    ASSUME Typed, Typed', Serial, Sized, NEW t \in Writers, Repoint(t)
    PROVE  Sized'
<1>1. /\ t \in Threads /\ reg[t] \in Local /\ LengthsNat
      /\ \A locals : Set(t, locals) => reg'[t] = locals
  BY TypedParts, LengthsTyped DEF Set
<1>2. \A u \in Threads : u # t => pc'[u] = pc[u] /\ reg'[u] = reg[u]
  BY <1>1, OnlyOne DEF WriteStep
<1>3. UNCHANGED <<dev, durable, l1, imageLen>> /\ reg[t].l1Entry.at <= dev.len /\ pc[t] \notin Early
  BY <1>1 DEF Repoint, memory, Sized, Early
<1>4. Reached(reg[t].new)
  BY DEF Repoint, Sized, ReachesAt, Carries
<1> DEFINE entry == l1[reg[t].at[1]]
<1>5. entry.at <= dev.len
  <2>1. entry.at <= imageLen /\ entry.at \in Nat
    BY <1>3 DEF Sized, Follows, Serial, Early
  <2>2. QED
    BY <1>1, <2>1 DEF Sized, LengthsNat
<1> HIDE DEF entry
<1>6. CASE Set(t, [reg[t] EXCEPT !.table = entry.at]) /\ Go(t, "entry")
  <2>1. /\ reg'[t].at = reg[t].at /\ reg'[t].l1Entry = reg[t].l1Entry
        /\ reg'[t].new = reg[t].new
    BY <1>1, <1>6 DEF Local
  <2>2. ReachesAt("entry", reg'[t])
    BY <1>4, <2>1 DEF ReachesAt
  <2>3. QED
    BY <1>1, <1>2, <1>3, <1>6, <2>1, <2>2, StepNames, QuietSized
<1>7. ASSUME NEW why, Set(t, [reg[t] EXCEPT !.why = why, !.l1Entry = entry]), Go(t, "allocate")
      PROVE  Sized'
  <2>1. /\ reg'[t].at = reg[t].at /\ reg'[t].l1Entry = entry /\ reg'[t].new = reg[t].new
    BY <1>1, <1>7 DEF Local
  <2>2. ReachesAt("allocate", reg'[t])
    BY <1>4, <2>1 DEF ReachesAt
  <2>3. QED
    BY <1>1, <1>2, <1>3, <1>5, <1>7, <2>1, <2>2, StepNames, QuietSized
<1>8. QED
  BY <1>6, <1>7 DEF Repoint, entry

LEMMA AllocateSized ==
    ASSUME Typed, Typed', Serial, Sized, NEW t \in Writers, Allocate(t)
    PROVE  Sized'
<1>1. /\ t \in Threads /\ reg[t] \in Local /\ LengthsNat /\ LengthsNat'
      /\ \A locals : Set(t, locals) => reg'[t] = locals
  BY TypedParts, LengthsTyped, LengthsNext DEF Set
<1>2. \A u \in Threads : u # t => pc'[u] = pc[u] /\ reg'[u] = reg[u]
  BY <1>1, OnlyOne DEF WriteStep
<1>3. UNCHANGED <<durable, l1, imageLen>> /\ pc[t] = "allocate"
  BY DEF Allocate, memory
<1>4. PICK c \in Cluster :
        /\ dev' = [dev EXCEPT !.rc[c] = 1, !.len = Longer(c)]
        /\ \/ /\ Set(t, IF reg[t].why = "data" THEN [reg[t] EXCEPT !.new = c]
                        ELSE [reg[t] EXCEPT !.table = c])
              /\ Go(t, "allocateFlush")
           \/ Leave(t)
  BY DEF Allocate
<1>5. dev'.len = Longer(c) /\ c \in Nat
  BY <1>4, TypedParts, Numbers DEF StoreTyped, Device, Cluster
<1>6. c <= dev'.len /\ dev.len <= dev'.len
  BY <1>1, <1>5 DEF Longer, LengthsNat
<1>7. Longest /\ imageLen' <= dev'.len /\ durable'.len <= dev'.len
  BY <1>1, <1>3, <1>6 DEF Longest, LengthsNat, Sized
<1>8. CASE Leave(t)
  BY <1>1, <1>2, <1>3, <1>7, <1>8, LeaveSized
<1>9. CASE /\ Set(t, IF reg[t].why = "data" THEN [reg[t] EXCEPT !.new = c]
                     ELSE [reg[t] EXCEPT !.table = c])
           /\ Go(t, "allocateFlush")
  <2>1. /\ reg'[t].at = reg[t].at /\ reg'[t].l1Entry = reg[t].l1Entry /\ reg'[t].why = reg[t].why
        /\ IF reg[t].why = "data" THEN reg'[t].new = c
           ELSE reg'[t].table = c /\ reg'[t].new = reg[t].new
        /\ pc'[t] = "allocateFlush"
    BY <1>1, <1>9, TypedParts DEF Local, Go
  <2>2. reg[t].why # "data" => Reached(reg[t].new)
    BY <1>3 DEF Sized, ReachesAt, Carries
  <2>3. ReachesAt(pc[t], reg[t])'
    BY <1>3, <1>6, <2>1, <2>2 DEF ReachesAt, Carries, ReleaseSteps, Reached
  <2>4. Follows(pc[t], reg[t])'
    BY <1>3, <2>1 DEF Sized, Follows, Early
  <2>5. reg'[t].l1Entry.at <= dev'.len
    <3>1. reg[t].l1Entry.at \in Nat /\ reg[t].l1Entry.at <= dev.len
      BY <1>1, Numbers DEF Local, L1Entry, Offset, Sized
    <3>2. QED
      BY <1>1, <1>6, <2>1, <3>1 DEF LengthsNat
  <2>6. QED
    BY <1>1, <1>2, <1>3, <1>7, <2>3, <2>4, <2>5, SizedStep
<1>10. QED
  BY <1>4, <1>8, <1>9

(* A flush: all the device reaches is durable.                             *)
LEMMA FlushesSized ==
    ASSUME Typed, Typed', Serial, Sized, NEW t \in Writers,
           \/ FlushAllocate(t) \/ FlushFill(t) \/ FlushZero(t) \/ FlushCopy(t)
           \/ FlushEntry(t) \/ FlushRelease(t)
    PROVE  Sized'
<1>1. t \in Threads /\ reg[t] \in Local /\ LengthsNat
  BY TypedParts, LengthsTyped
<1>2. \A u \in Threads : u # t => pc'[u] = pc[u] /\ reg'[u] = reg[u]
  BY <1>1, OnlyOne DEF WriteStep
<1>3. ReachesAt(pc[t], reg[t])
  BY DEF Sized
<1>4. durable' = dev /\ UNCHANGED <<dev, imageLen>>
  BY DEF FlushAllocate, FlushFill, FlushZero, FlushCopy, FlushEntry, FlushRelease, FlushThen, memory
<1>5. reg[t].new \in Nat /\ reg[t].table \in Nat
  BY <1>1, Numbers DEF Local, Offset
<1>6. \A a \in Nat : Reached(a) => Reached(a)'
  BY <1>1, <1>4 DEF Reached, Sized, LengthsNat
<1>7. ASSUME NEW step \in Steps, FlushThen(t, step), ReachesAt(step, reg[t])', pc[t] \notin Early
      PROVE  Sized'
  BY <1>2, <1>7, FlushedSized
<1>8. CASE FlushAllocate(t)
  <2>1. reg[t].why \in {"data", "table", "copy"} /\ pc[t] = "allocateFlush"
    BY <1>1, <1>8, TypedParts DEF FlushAllocate, LocalsGood, GoodAt, TableSteps
  <2>2. PICK step \in Steps :
          /\ FlushThen(t, step)
          /\ step = IF reg[t].why = "data" THEN "fill" ELSE IF reg[t].why = "table" THEN "zero"
                    ELSE "copy"
    BY <1>8, <2>1, StepNames DEF FlushAllocate
  <2>3. UNCHANGED reg
    BY <2>2 DEF FlushThen
  <2>4. ReachesAt(step, reg[t])'
    BY <1>3, <1>4, <1>5, <1>6, <2>1, <2>2, <2>3 DEF ReachesAt, Carries, ReleaseSteps
  <2>5. QED
    BY <1>7, <2>1, <2>2, <2>4 DEF Early
<1>9. CASE FlushFill(t)
  <2>1. ReachesAt("repoint", reg[t])'
    BY <1>3, <1>5, <1>6, <1>9 DEF ReachesAt, Carries, FlushFill, FlushThen, ReleaseSteps
  <2>2. QED
    BY <1>7, <1>9, <2>1, StepNames DEF FlushFill, Early
<1>10. CASE FlushZero(t) \/ FlushCopy(t)
  <2>1. FlushThen(t, "l1Write") /\ pc[t] \in {"zeroFlush", "copyFlush"}
    BY <1>10 DEF FlushZero, FlushCopy
  <2>2. Reached(reg[t].table) /\ Reached(reg[t].new)
    BY <1>3, <2>1 DEF ReachesAt, Carries
  <2>3. ReachesAt("l1Write", reg[t])'
    BY <1>5, <1>6, <2>1, <2>2 DEF ReachesAt, FlushThen
  <2>4. QED
    BY <1>7, <2>1, <2>3, StepNames DEF Early
<1>11. CASE FlushEntry(t)
  <2>1. ReachesAt("forgetL2", reg[t])'
    BY DEF ReachesAt, Carries, ReleaseSteps
  <2>2. QED
    BY <1>7, <1>11, <2>1, StepNames DEF FlushEntry, Early
<1>12. CASE FlushRelease(t)
  <2>1. FlushThen(t, AfterRelease(t)) /\ pc[t] = "releaseFlush" /\ UNCHANGED reg
    BY <1>12 DEF FlushRelease, FlushThen
  <2>2. ReachesAt(AfterRelease(t), reg[t])'
    BY <1>3, <1>5, <1>6, <2>1 DEF ReachesAt, Carries, ReleaseSteps, AfterRelease
  <2>3. QED
    BY <1>7, <2>1, <2>2, StepNames DEF AfterRelease, Early
<1>13. QED
  BY <1>8, <1>9, <1>10, <1>11, <1>12

LEMMA WritesSized ==
    ASSUME Typed, Typed', Serial, Sized, NEW t \in Writers,
           WriteInPlace(t) \/ Fill(t) \/ Zero(t) \/ CopyTable(t) \/ WriteEntry(t)
    PROVE  Sized'
<1>1. t \in Threads /\ reg[t] \in Local /\ LengthsNat /\ LengthsNat'
  BY TypedParts, LengthsTyped, LengthsNext
<1>2. \A u \in Threads : u # t => pc'[u] = pc[u] /\ reg'[u] = reg[u]
  BY <1>1, OnlyOne DEF WriteStep
<1>3. ReachesAt(pc[t], reg[t]) /\ GoodAt(pc[t], reg[t], imageLen)
  BY <1>1, TypedParts DEF Sized, LocalsGood
<1>4. reg[t].new \in Offset /\ reg[t].table \in Offset /\ Offset \subseteq Nat
  BY <1>1, Numbers DEF Local, Offset
<1>5. dev \in Device /\ durable \in Device
  BY TypedParts DEF StoreTyped
<1>6. /\ UNCHANGED l1 /\ pc[t] \notin Early /\ dev'.len = dev.len /\ durable'.len = durable.len
  BY <1>5 DEF WriteInPlace, Fill, Zero, CopyTable, WriteEntry, memory, Early, Device
<1>7. ASSUME NEW step \in Steps, NEW c \in 0 .. Clusters, WrittenTo(t, c, step), c <= dev.len,
             ASSUME Reach(c), Longest, UNCHANGED reg PROVE ReachesAt(step, reg[t])'
      PROVE  Sized'
  <2>1. CASE Go(t, step) /\ Reach(c) /\ UNCHANGED <<reg, locks, faults>>
    <3>1. c \in Nat /\ Longest
      BY <1>1, <1>6, <2>1, Numbers DEF Longest, Reach, LengthsNat
    <3>2. QED
      BY <1>2, <1>6, <1>7, <2>1, <3>1, WrittenSized
  <2>2. CASE Leave(t) /\ UNCHANGED imageLen
    <3>1. Longest /\ imageLen' <= dev'.len /\ durable'.len <= dev'.len
      BY <1>1, <1>6, <2>2 DEF Longest, LengthsNat, Sized
    <3>2. QED
      BY <1>1, <1>2, <1>6, <2>2, <3>1, LeaveSized
  <2>3. QED
    BY <1>7, <2>1, <2>2 DEF WrittenTo
<1>8. ASSUME NEW a \in Offset, Reached(a), Longest PROVE Reached(a)'
  BY <1>1, <1>8, ReachedGrows
<1>9. ASSUME NEW a \in Offset, a <= durable.len, Reach(a) PROVE Reached(a)'
  <2>1. a \in Nat /\ imageLen \in Nat /\ durable'.len = durable.len
    BY <1>1, <1>4, <1>6 DEF LengthsNat
  <2>2. a <= imageLen'
    BY <1>9, <2>1 DEF Reach
  <2>3. QED
    BY <1>9, <2>1, <2>2 DEF Reached
<1>10. ASSUME NEW a \in Offset, a <= durable.len PROVE a \in 0 .. Clusters /\ a <= dev.len
  BY <1>1, <1>4, <1>5, <1>10, Numbers DEF LengthsNat, Sized, Device
<1>11. CASE WriteInPlace(t)
  <2>1. WrittenTo(t, reg[t].map.host, "next") /\ reg[t].map.case = "Plain"
    BY <1>3, <1>11 DEF WriteInPlace, GoodAt
  <2>2. /\ reg[t].map \in ClusterMap /\ reg[t].map.host <= imageLen
        /\ reg[t].map.host \in 0 .. Clusters
    <3>1. reg[t].map \in ClusterMap /\ Placed(reg[t].map, imageLen) /\ imageLen \in 0 .. Clusters
      BY <1>1, <1>3, TypedParts DEF Local, GoodAt
    <3>2. reg[t].map.last = reg[t].map.host
      BY <2>1, <3>1, MapFacts
    <3>3. reg[t].map.host \in Cluster
      BY <2>1, <3>1, PlacedInCluster
    <3>4. QED
      BY <2>1, <3>1, <3>2, <3>3, Numbers DEF Placed, Cluster
  <2>3. reg[t].map.host <= dev.len
    BY <1>1, <2>2, Numbers DEF Sized, LengthsNat
  <2>4. ReachesAt("next", reg[t])'
    BY DEF ReachesAt, Carries, ReleaseSteps
  <2>5. QED
    BY <1>7, <2>1, <2>2, <2>3, <2>4, StepNames
<1>12. CASE Fill(t)
  <2>1. pc[t] = "fill" /\ WrittenTo(t, reg[t].new, "fillFlush") /\ reg[t].new <= durable.len
    BY <1>3, <1>12 DEF Fill, ReachesAt
  <2>2. ASSUME Reach(reg[t].new), UNCHANGED reg PROVE ReachesAt("fillFlush", reg[t])'
    BY <1>4, <1>9, <2>1, <2>2 DEF ReachesAt
  <2>3. QED
    BY <1>4, <1>7, <1>10, <2>1, <2>2, StepNames
<1>13. CASE Zero(t) \/ CopyTable(t)
  <2>1. PICK step \in {"zeroFlush", "copyFlush"} : WrittenTo(t, reg[t].table, step)
    BY <1>13 DEF Zero, CopyTable
  <2>2. reg[t].table <= durable.len /\ Reached(reg[t].new)
    BY <1>3, <1>13 DEF Zero, CopyTable, ReachesAt, Carries
  <2>3. ASSUME Reach(reg[t].table), Longest, UNCHANGED reg PROVE ReachesAt(step, reg[t])'
    <3>1. Reached(reg[t].table)' /\ Reached(reg[t].new)'
      BY <1>4, <1>8, <1>9, <2>2, <2>3 DEF Reached
    <3>2. QED
      BY <3>1 DEF ReachesAt
  <2>4. QED
    BY <1>4, <1>7, <1>10, <2>1, <2>2, <2>3, StepNames
<1>14. CASE WriteEntry(t)
  <2>1. WrittenTo(t, 0, "entryFlush")
    BY <1>14 DEF WriteEntry, Written, None
  <2>2. ReachesAt("entryFlush", reg[t])'
    BY DEF ReachesAt, Carries, ReleaseSteps
  <2>3. 0 \in 0 .. Clusters /\ 0 <= dev.len
    BY <1>1, Numbers DEF LengthsNat
  <2>4. QED
    BY <1>7, <2>1, <2>2, <2>3, StepNames
<1>15. QED
  BY <1>11, <1>12, <1>13, <1>14

LEMMA PublishSized ==
    ASSUME Typed, Typed', Serial, Sized, NEW t \in Writers, WriteL1(t) \/ FlushL1(t)
    PROVE  Sized'
<1>1. t \in Threads /\ reg[t] \in Local /\ LengthsNat /\ LengthsNat'
  BY TypedParts, LengthsTyped, LengthsNext
<1>2. \A u \in Threads : u # t => pc'[u] = pc[u] /\ reg'[u] = reg[u]
  BY <1>1, OnlyOne DEF WriteStep
<1>3. ReachesAt(pc[t], reg[t]) /\ reg[t].new \in Nat /\ reg[t].table \in Nat
  BY <1>1, Numbers DEF Sized, Local, Offset
<1>4. CASE WriteL1(t)
  <2>1. UNCHANGED <<l1, imageLen, durable>> /\ dev'.len = dev.len /\ pc[t] = "l1Write"
    BY <1>4, TypedParts DEF WriteL1, StoreTyped, Device, memory
  <2>2. Longest /\ imageLen' <= dev'.len /\ durable'.len <= dev'.len
    BY <1>1, <2>1 DEF Longest, LengthsNat, Sized
  <2>3. CASE Leave(t)
    BY <1>1, <1>2, <2>1, <2>2, <2>3, LeaveSized
  <2>4. CASE Go(t, "l1Flush") /\ UNCHANGED reg
    <3>1. ReachesAt("l1Flush", reg'[t]) /\ reg'[t] = reg[t] /\ pc[t] \notin Early
      BY <1>3, <2>1, <2>4 DEF ReachesAt, Carries, Early
    <3>2. QED
      BY <1>1, <1>2, <2>1, <2>4, <3>1, QuietSized, StepNames DEF Sized
  <2>5. QED
    BY <1>4, <2>3, <2>4 DEF WriteL1
<1>5. CASE FlushL1(t)
  <2>1. /\ UNCHANGED <<imageLen, dev, reg>> /\ durable' = dev /\ pc[t] = "l1Flush"
        /\ pc'[t] \in {"release", "entry"} /\ (pc'[t] = "release" => reg[t].why = "copy")
    BY <1>1, <1>5, TypedParts DEF FlushL1, Go
  <2>2. Longest /\ imageLen' <= dev'.len /\ durable'.len <= dev'.len
    BY <1>1, <2>1 DEF Longest, LengthsNat, Sized
  <2>3. Reached(reg[t].table) /\ Reached(reg[t].new)
    BY <1>3, <2>1 DEF ReachesAt, Carries
  <2>4. ReachesAt(pc[t], reg[t])'
    <3>1. Reached(reg[t].new)'
      BY <1>1, <1>3, <2>1, <2>3 DEF Reached, LengthsNat, Sized
    <3>2. QED
      BY <2>1, <3>1 DEF ReachesAt
  <2>5. Follows(pc[t], reg[t])'
    <3>1. l1'[reg[t].at[1]].at = reg[t].table
      BY <1>1, <1>5, TypedParts DEF FlushL1, StoreTyped, L1EntryFor, Local, VCluster
    <3>2. QED
      BY <2>1, <2>3, <3>1 DEF Follows, Reached
  <2>6. writeLock = t /\ reg'[t].l1Entry.at <= dev'.len
    BY <1>1, <2>1 DEF Serial, Sized
  <2>7. QED
    BY <1>1, <1>2, <2>1, <2>2, <2>4, <2>5, <2>6, SizedStep
<1>6. QED
  BY <1>4, <1>5

LEMMA ReleaseSized ==
    ASSUME Typed, Typed', Serial, Sized, NEW t \in Writers,
           WriteRelease(t) \/ ReleaseFails(t) \/ NoRoom(t) \/ EndWrite(t)
    PROVE  Sized'
<1>1. t \in Threads /\ LengthsNat
  BY TypedParts, LengthsTyped
<1>2. \A u \in Threads : u # t => pc'[u] = pc[u] /\ reg'[u] = reg[u]
  BY <1>1, OnlyOne DEF WriteStep
<1>3. UNCHANGED <<l1, imageLen, durable>> /\ dev'.len = dev.len
  BY TypedParts DEF WriteRelease, ReleaseFails, NoRoom, EndWrite, StoreTyped, Device, memory
<1>4. CASE NoRoom(t) \/ EndWrite(t)
  <2>1. Longest /\ imageLen' <= dev'.len /\ durable'.len <= dev'.len
    BY <1>1, <1>3 DEF Longest, LengthsNat, Sized
  <2>2. QED
    BY <1>1, <1>2, <1>3, <1>4, <2>1, LeaveSized DEF NoRoom, EndWrite
<1>5. CASE WriteRelease(t) \/ ReleaseFails(t)
  <2>1. PICK step \in {"releaseFlush", AfterRelease(t)} : Go(t, step)
    BY <1>5 DEF WriteRelease, ReleaseFails
  <2>2. UNCHANGED reg /\ pc[t] \in ReleaseSteps
    BY <1>5 DEF WriteRelease, ReleaseFails, ReleaseSteps
  <2>3. ReachesAt(pc[t], reg[t])
    BY DEF Sized
  <2>4. ReachesAt(step, reg[t]) /\ step \in Steps /\ pc[t] \notin Early
    BY <2>1, <2>2, <2>3, StepNames DEF ReachesAt, Carries, ReleaseSteps, AfterRelease, Early
  <2>5. QED
    BY <1>1, <1>2, <1>3, <2>1, <2>2, <2>4, QuietSized DEF Sized
<1>6. QED
  BY <1>4, <1>5

LEMMA NextSized == Typed /\ Typed' /\ Serial /\ Sized /\ [Next]_vars => Sized'
<1> SUFFICES ASSUME Typed, Typed', Serial, Sized, [Next]_vars PROVE Sized'
  OBVIOUS
<1>1. CASE \E t \in Threads : Lookup(t) \/ DeviceError(t)
  BY <1>1, LookupSized
<1>2. CASE \E t \in Writers : StartWrite(t) \/ WriteStep(t)
  BY <1>2, QuietWriteSized, RepointSized, AllocateSized, FlushesSized, WritesSized, PublishSized,
     ReleaseSized DEF WriteStep
<1>3. CASE \E t \in Readers : StartRead(t) \/ ReadStep(t)
  BY <1>3, ReadSized
<1>4. CASE Flush
  <2>1. /\ UNCHANGED <<dev, l1, imageLen, pc, reg>> /\ durable' = dev /\ LengthsNat
    BY <1>4, LengthsTyped DEF Flush, memory
  <2>2. Longest /\ LengthsNat' /\ imageLen' <= dev'.len /\ durable'.len <= dev'.len
    BY <2>1, LengthsNext DEF Longest, LengthsNat, Sized
  <2>3. ASSUME NEW u \in Writers PROVE ReachesAt(pc[u], reg[u])'
    <3>1. ReachesAt(pc[u], reg[u]) /\ reg[u].new \in Offset /\ reg[u].table \in Offset
      BY TypedParts DEF Sized, Local
    <3>2. /\ Reached(reg[u].new) => Reached(reg[u].new)'
          /\ Reached(reg[u].table) => Reached(reg[u].table)'
      BY <2>1, <2>2, <3>1, Numbers DEF Reached, LengthsNat, Longest, Offset
    <3>3. /\ reg[u].new <= durable.len => reg[u].new <= durable'.len
          /\ reg[u].table <= durable.len => reg[u].table <= durable'.len
      BY <2>1, <2>2, <3>1, Numbers DEF LengthsNat, Longest, Offset
    <3>4. QED
      BY <2>1, <3>1, <3>2, <3>3 DEF ReachesAt
  <2>4. ASSUME NEW u \in Writers PROVE Follows(pc[u], reg[u])'
    BY <2>1 DEF Sized, Follows
  <2>5. QED
    BY <2>1, <2>2, <2>3, <2>4 DEF Sized
<1>5. CASE Crash
  <2>1. /\ pc' = Idle /\ reg' = NoLocals /\ imageLen' = dev'.len /\ durable' = dev'
        /\ LengthsNat'
    BY <1>5, LengthsNext DEF Crash
  <2>2. \A t \in Threads : pc'[t] = "idle" /\ reg'[t] = Blank
    BY <2>1 DEF Idle, NoLocals
  <2>3. Blank.l1Entry.at = 0
    BY DEF Blank, NoL1Entry, None
  <2>4. \A t \in Writers : ReachesAt(pc[t], reg[t])' /\ Follows(pc[t], reg[t])'
    BY <2>2, TypedParts DEF ReachesAt, Follows, Early, Carries, ReleaseSteps
  <2>5. QED
    BY <2>1, <2>2, <2>3, <2>4 DEF Sized, LengthsNat
<1>6. CASE UNCHANGED vars
  BY <1>6 DEF Sized, ReachesAt, Follows, Reached, vars, memory
<1>7. QED
  BY <1>1, <1>2, <1>3, <1>4, <1>5, <1>6 DEF Next

LEMMA InitSized == Init => Sized
<1> SUFFICES ASSUME Init PROVE Sized
  OBVIOUS
<1>1. Typed /\ imageLen = dev.len /\ durable = dev
  BY InitTyped DEF Init
<1>2. LengthsNat /\ \A t \in Threads : pc[t] = "idle" /\ reg[t] = Blank
  BY <1>1, LengthsTyped DEF Init, Idle, NoLocals
<1>3. Blank.l1Entry.at = 0
  BY DEF Blank, NoL1Entry, None
<1>4. \A t \in Writers : ReachesAt(pc[t], reg[t]) /\ Follows(pc[t], reg[t])
  BY <1>1, <1>2, TypedParts DEF ReachesAt, Follows, Early, Carries, ReleaseSteps
<1>5. QED
  BY <1>1, <1>2, <1>3, <1>4 DEF Sized, LengthsNat

LEMMA AlwaysSized == Spec => []Sized
  BY InitSized, InitTyped, NextTyped, NextSized, AlwaysTyped, PTL DEF Spec

(***************************************************************************)
(* What the tables name                                                    *)
(***************************************************************************)
Published(a) == a \in Cluster => Reached(a)

(* A table that lies in the image, with all it names, and would after a    *)
(* crash.                                                                  *)
Rooted(a) ==
    a \in Cluster =>
        /\ Reached(a)
        /\ \A j \in L2Index : Published(dev.table[a][j].at) /\ Published(durable.table[a][j].at)

(* What a writer has put in the table it is about to publish, and the      *)
(* table it copies.                                                        *)
TableAt(step, locals) ==
    /\ step \in {"zeroFlush", "copyFlush", "l1Write", "l1Flush"} =>
        \A j \in L2Index : Published(dev.table[locals.table][j].at)
    /\ step \in {"l1Write", "l1Flush"} => Rooted(locals.table)
    /\ step \in {"allocate", "allocateFlush", "copy"} /\ locals.why = "copy" =>
        Rooted(locals.l1Entry.at)

Named ==
    /\ \A i \in L1Index : Rooted(l1[i].at) /\ Rooted(dev.l1[i].at) /\ Rooted(durable.l1[i].at)
    /\ \A t \in Writers : TableAt(pc[t], reg[t])

(* A thread's step never takes back what the image reached.                *)
LEMMA StepLonger ==
    ASSUME Typed, Sized, NEW t \in Threads,
           \/ Lookup(t) \/ DeviceError(t) \/ StartRead(t) \/ ReadStep(t)
           \/ StartWrite(t) \/ WriteStep(t)
    PROVE  Longest
<1>1. LengthsNat /\ dev \in Device /\ durable \in Device
  BY LengthsTyped, TypedParts DEF StoreTyped
<1>2. \A c \in Nat : dev.len <= Longer(c) /\ (Reach(c) => imageLen <= imageLen')
  BY <1>1 DEF Longer, Reach, LengthsNat
<1>3. UNCHANGED <<dev, imageLen>> /\ durable' \in {durable, dev} => Longest
  BY <1>1 DEF Longest, LengthsNat, Sized
<1>4. ASSUME NEW c \in Offset, NEW step, WrittenTo(t, c, step), dev'.len = dev.len,
             durable'.len = durable.len
      PROVE  Longest
  <2>1. c \in Nat
    BY Numbers DEF Offset
  <2>2. imageLen <= imageLen'
    BY <1>1, <1>2, <1>4, <2>1 DEF WrittenTo, LengthsNat
  <2>3. QED
    BY <1>1, <1>4, <2>2 DEF Longest, LengthsNat
<1>5. CASE Lookup(t) \/ DeviceError(t) \/ StartRead(t) \/ ReadStep(t) \/ StartWrite(t)
  BY <1>3, <1>5 DEF Lookup, LookupL1, LookupL2, Undecodable, DeviceError, StartRead, ReadStep,
    Fetch, Store, EndRead, StartWrite, memory
<1>6. CASE WriteStep(t)
  <2>1. CASE TakeWriteLock(t) \/ PlanInPlace(t) \/ PlanReallocate(t) \/ NoRoom(t) \/ Repoint(t)
             \/ FlushL1(t) \/ ForgetL2(t) \/ ForgetData(t) \/ ReleaseFails(t) \/ NextChunk(t)
             \/ EndWrite(t)
    BY <1>3, <2>1 DEF TakeWriteLock, PlanInPlace, PlanReallocate, NoRoom, Repoint, FlushL1,
      ForgetL2, ForgetData, ReleaseFails, NextChunk, EndWrite, memory
  <2>2. CASE FlushAllocate(t) \/ FlushFill(t) \/ FlushZero(t) \/ FlushCopy(t) \/ FlushEntry(t)
             \/ FlushRelease(t)
    BY <1>3, <2>2 DEF FlushAllocate, FlushFill, FlushZero, FlushCopy, FlushEntry, FlushRelease,
      FlushThen, memory
  <2>3. CASE WriteInPlace(t) \/ Fill(t) \/ Zero(t) \/ CopyTable(t) \/ WriteEntry(t)
    <3>1. dev'.len = dev.len /\ durable'.len = durable.len
      BY <1>1, <2>3 DEF WriteInPlace, Fill, Zero, CopyTable, WriteEntry, Device
    <3>2. /\ reg[t] \in Local /\ reg[t].new \in Offset /\ reg[t].table \in Offset /\ None \in Offset
          /\ reg[t].map.host \in Offset
      BY TypedParts, Numbers, MapFacts DEF Local
    <3>3. \/ WrittenTo(t, reg[t].map.host, "next") \/ WrittenTo(t, reg[t].new, "fillFlush")
          \/ WrittenTo(t, reg[t].table, "zeroFlush") \/ WrittenTo(t, reg[t].table, "copyFlush")
          \/ WrittenTo(t, None, "entryFlush")
      BY <2>3 DEF WriteInPlace, Fill, Zero, CopyTable, WriteEntry, Written
    <3>4. QED
      BY <1>4, <3>1, <3>2, <3>3
  <2>4. CASE Allocate(t)
    <3>1. PICK c \in Cluster : dev' = [dev EXCEPT !.rc[c] = 1, !.len = Longer(c)]
      BY <2>4 DEF Allocate
    <3>2. dev'.len = Longer(c) /\ c \in Nat
      BY <1>1, <3>1, Numbers DEF Device, Cluster
    <3>3. UNCHANGED <<durable, imageLen>>
      BY <2>4 DEF Allocate, memory
    <3>4. QED
      BY <1>1, <1>2, <3>2, <3>3 DEF Longest, LengthsNat
  <2>5. CASE WriteL1(t) \/ WriteRelease(t)
    <3>1. dev'.len = dev.len /\ UNCHANGED <<durable, imageLen>>
      BY <1>1, <2>5 DEF WriteL1, WriteRelease, Device, memory
    <3>2. QED
      BY <1>1, <3>1 DEF Longest, LengthsNat
  <2>6. QED
    BY <1>6, <2>1, <2>2, <2>3, <2>4, <2>5 DEF WriteStep
<1>7. QED
  BY <1>5, <1>6

(* A step that adds no entry but to clusters the image reaches.            *)
Spreads ==
    /\ LengthsNat /\ LengthsNat' /\ Longest /\ dev \in Device /\ durable \in Device
    /\ \A c \in Cluster : \A j \in L2Index :
        /\ dev'.table[c][j] = dev.table[c][j] \/ Published(dev.table[c][j].at)'
        /\ durable'.table[c][j] = durable.table[c][j] \/ durable'.table[c][j] = dev.table[c][j]

LEMMA PublishedGrows ==
    ASSUME LengthsNat, LengthsNat', Longest, NEW a, Published(a)
    PROVE  Published(a)'
  BY ReachedGrows, Numbers DEF Published

LEMMA RootedGrows ==
    ASSUME Spreads, NEW a
    PROVE  /\ Rooted(a) => Rooted(a)'
           /\ a \in Cluster /\ (\A j \in L2Index : Published(dev.table[a][j].at)) =>
                  \A j \in L2Index : Published(dev.table[a][j].at)'
<1>1. \A b : Published(b) => Published(b)'
  BY PublishedGrows DEF Spreads
<1>2. a \in Cluster => (Reached(a) => Reached(a)')
  BY ReachedGrows, Numbers DEF Spreads
<1>3. ASSUME a \in Cluster, NEW j \in L2Index
      PROVE  /\ Published(dev.table[a][j].at) => Published(dev.table[a][j].at)'
             /\ Published(dev.table[a][j].at) /\ Published(durable.table[a][j].at) =>
                    Published(durable.table[a][j].at)'
  <2>1. /\ dev'.table[a][j] = dev.table[a][j] \/ Published(dev.table[a][j].at)'
        /\ durable'.table[a][j] = durable.table[a][j] \/ durable'.table[a][j] = dev.table[a][j]
    BY <1>3 DEF Spreads
  <2>2. QED
    BY <1>1, <2>1 DEF Published, Reached
<1>4. QED
  BY <1>2, <1>3 DEF Rooted

LEMMA NamedStep ==
    ASSUME Typed, Typed', Named, NEW t \in Threads, Spreads,
           \A u \in Threads : u # t => pc'[u] = pc[u] /\ reg'[u] = reg[u],
           \A i \in L1Index :
               /\ l1'[i].at = l1[i].at \/ l1'[i].at = dev.l1[i].at \/ Rooted(l1[i].at)'
               /\ dev'.l1[i].at = dev.l1[i].at \/ Rooted(dev.l1[i].at)'
               /\ durable'.l1[i].at = durable.l1[i].at \/ durable'.l1[i].at = dev.l1[i].at,
           t \in Writers => TableAt(pc[t], reg[t])'
    PROVE  Named'
<1>1. \A a : Rooted(a) => Rooted(a)'
  BY RootedGrows
<1>2. ASSUME NEW i \in L1Index
      PROVE  Rooted(l1[i].at)' /\ Rooted(dev.l1[i].at)' /\ Rooted(durable.l1[i].at)'
  <2>1. Rooted(l1[i].at) /\ Rooted(dev.l1[i].at) /\ Rooted(durable.l1[i].at)
    BY DEF Named
  <2>2. \A a \in {l1[i].at, dev.l1[i].at, durable.l1[i].at} : Rooted(a)'
    BY <1>1, <2>1
  <2>3. QED
    BY <2>2 DEF Rooted, Reached, Published
<1>3. ASSUME NEW u \in Writers PROVE TableAt(pc[u], reg[u])'
  <2>1. CASE u = t
    BY <2>1
  <2>2. CASE u # t
    <3>1. pc'[u] = pc[u] /\ reg'[u] = reg[u] /\ TableAt(pc[u], reg[u]) /\ LocalsGood(u)
      BY <2>2, TypedParts DEF Named
    <3>2. pc[u] \in {"zeroFlush", "copyFlush", "l1Write", "l1Flush"} => reg[u].table \in Cluster
      BY <3>1 DEF LocalsGood, GoodAt, TableSteps
    <3>3. /\ Rooted(reg[u].table) => Rooted(reg[u].table)'
          /\ Rooted(reg[u].l1Entry.at) => Rooted(reg[u].l1Entry.at)'
      BY <1>1, <3>1 DEF Rooted, Reached, Published
    <3>4. reg[u].table \in Cluster /\ (\A j \in L2Index : Published(dev.table[reg[u].table][j].at))
             => \A j \in L2Index : Published(dev.table[reg[u].table][j].at)'
      BY <3>1, RootedGrows DEF Reached, Published
    <3>5. QED
      BY <3>1, <3>2, <3>3, <3>4 DEF TableAt
  <2>3. QED
    BY <2>1, <2>2
<1>4. QED
  BY <1>2, <1>3 DEF Named

(* A step that writes no table and no L1 entry.                            *)
SameTables ==
    /\ UNCHANGED l1 /\ dev'.l1 = dev.l1 /\ dev'.table = dev.table
    /\ \/ durable' = dev
       \/ durable'.l1 = durable.l1 /\ durable'.table = durable.table

LEMMA SameTablesNamed ==
    ASSUME Typed, Typed', Named, NEW t \in Threads, Longest, SameTables,
           \A u \in Threads : u # t => pc'[u] = pc[u] /\ reg'[u] = reg[u],
           Spreads /\ t \in Writers => TableAt(pc[t], reg[t])'
    PROVE  Named'
<1>1. LengthsNat /\ LengthsNat' /\ dev \in Device /\ durable \in Device
  BY LengthsTyped, LengthsNext, TypedParts DEF StoreTyped
<1>2. Spreads
  BY <1>1 DEF Spreads, SameTables
<1>3. QED
  BY <1>2, NamedStep DEF SameTables

LEMMA TablesStay ==
    ASSUME Typed, NEW t \in Threads,
           \/ Lookup(t) \/ DeviceError(t) \/ StartRead(t) \/ ReadStep(t)
           \/ StartWrite(t) \/ WriteStep(t),
           ~Zero(t), ~CopyTable(t), ~WriteL1(t), ~FlushL1(t), ~WriteEntry(t)
    PROVE  SameTables
<1>1. dev \in Device /\ durable \in Device
  BY TypedParts DEF StoreTyped
<1>2. CASE Lookup(t) \/ DeviceError(t) \/ StartRead(t) \/ ReadStep(t) \/ StartWrite(t)
  BY <1>2 DEF Lookup, LookupL1, LookupL2, Undecodable, DeviceError, StartRead, ReadStep,
    Fetch, Store, EndRead, StartWrite, memory, SameTables
<1>3. CASE WriteStep(t)
  <2>1. CASE TakeWriteLock(t) \/ PlanInPlace(t) \/ PlanReallocate(t) \/ NoRoom(t) \/ Repoint(t)
             \/ ForgetL2(t) \/ ForgetData(t) \/ ReleaseFails(t) \/ NextChunk(t) \/ EndWrite(t)
    BY <2>1 DEF TakeWriteLock, PlanInPlace, PlanReallocate, NoRoom, Repoint, ForgetL2, ForgetData,
      ReleaseFails, NextChunk, EndWrite, memory, SameTables
  <2>2. CASE FlushAllocate(t) \/ FlushFill(t) \/ FlushZero(t) \/ FlushCopy(t) \/ FlushEntry(t)
             \/ FlushRelease(t)
    BY <2>2 DEF FlushAllocate, FlushFill, FlushZero, FlushCopy, FlushEntry, FlushRelease,
      FlushThen, memory, SameTables
  <2>3. CASE WriteInPlace(t) \/ Fill(t)
    BY <1>1, <2>3 DEF WriteInPlace, Fill, Device, SameTables
  <2>4. CASE Allocate(t) \/ WriteRelease(t)
    <3>1. PICK d : /\ dev' = d /\ d.l1 = dev.l1 /\ d.table = dev.table
                   /\ UNCHANGED <<durable, l1>>
      BY <1>1, <2>4 DEF Allocate, WriteRelease, Device, memory
    <3>2. QED
      BY <3>1 DEF SameTables
  <2>5. QED
    BY <1>3, <2>1, <2>2, <2>3, <2>4 DEF WriteStep
<1>4. QED
  BY <1>2, <1>3

(* The step a writer that writes no table goes to asks no more than the    *)
(* step it comes from.                                                     *)
LEMMA QuietTableAt ==
    ASSUME Typed, Typed', Sized, Named, Spreads, SameTables, NEW t \in Writers,
           Lookup(t) \/ DeviceError(t) \/ StartWrite(t) \/ WriteStep(t),
           ~Zero(t), ~CopyTable(t), ~WriteL1(t), ~FlushL1(t), ~WriteEntry(t)
    PROVE  TableAt(pc[t], reg[t])'
<1>1. /\ t \in Threads /\ reg[t] \in Local
      /\ \A step : Go(t, step) => pc'[t] = step
      /\ \A locals : Set(t, locals) => reg'[t] = locals
  BY TypedParts DEF Go, Set
<1>2. ASSUME pc'[t] \notin {"zeroFlush", "copyFlush", "l1Write", "l1Flush"},
             pc'[t] \notin {"allocate", "allocateFlush", "copy"} \/ reg'[t].why # "copy"
      PROVE  TableAt(pc[t], reg[t])'
  BY <1>2 DEF TableAt
<1>3. Leave(t) => TableAt(pc[t], reg[t])'
  BY <1>1, <1>2 DEF Leave
<1>4. \A c, step : WrittenTo(t, c, step) => pc'[t] \in {"idle", step}
  BY <1>1 DEF WrittenTo, Leave
<1>5. ASSUME Rooted(reg[t].l1Entry.at), reg'[t].l1Entry = reg[t].l1Entry,
             pc'[t] \in {"allocate", "allocateFlush", "copy"}
      PROVE  TableAt(pc[t], reg[t])'
  <2>1. Rooted(reg[t].l1Entry.at)'
    BY <1>5, RootedGrows DEF Rooted, Reached, Published
  <2>2. QED
    BY <1>5, <2>1 DEF TableAt
<1>6. CASE Lookup(t) \/ DeviceError(t) \/ StartWrite(t)
  <2>1. Leave(t) \/ pc'[t] \in {"lock", "plan", "l2"}
    BY <1>1, <1>6 DEF Lookup, LookupL1, LookupL2, Undecodable, DeviceError, StartWrite, Looked
  <2>2. QED
    BY <1>2, <1>3, <2>1
<1>7. CASE WriteStep(t)
  <2>1. CASE \/ TakeWriteLock(t) \/ PlanInPlace(t) \/ NoRoom(t) \/ ForgetL2(t) \/ ForgetData(t)
             \/ WriteRelease(t) \/ ReleaseFails(t) \/ NextChunk(t) \/ EndWrite(t)
    <3>1. \/ Leave(t)
          \/ pc'[t] \in {"l1", "inPlace", "forgetData", "release", "releaseFlush", "entry", "next"}
      BY <1>1, <2>1 DEF TakeWriteLock, PlanInPlace, NoRoom, ForgetL2, ForgetData, WriteRelease,
        ReleaseFails, NextChunk, EndWrite, AfterRelease
    <3>2. QED
      BY <1>2, <1>3, <3>1
  <2>2. CASE PlanReallocate(t)
    <3>1. PICK full, old : Set(t, [reg[t] EXCEPT !.full = full, !.old = old, !.why = "data"])
      BY <2>2 DEF PlanReallocate
    <3>2. reg'[t].why = "data" /\ pc'[t] = "allocate"
      BY <1>1, <2>2, <3>1 DEF PlanReallocate, Local
    <3>3. QED
      BY <1>2, <3>2
  <2>3. CASE WriteInPlace(t) \/ Fill(t)
    <3>1. pc'[t] \in {"idle", "next", "fillFlush"}
      BY <1>4, <2>3 DEF WriteInPlace, Fill
    <3>2. QED
      BY <1>2, <3>1
  <2>4. CASE Allocate(t)
    <3>1. CASE Leave(t)
      BY <1>3, <3>1
    <3>2. CASE ~Leave(t)
      <4>1. PICK c : Set(t, IF reg[t].why = "data" THEN [reg[t] EXCEPT !.new = c]
                            ELSE [reg[t] EXCEPT !.table = c])
        BY <2>4, <3>2 DEF Allocate
      <4>2. /\ reg'[t].l1Entry = reg[t].l1Entry /\ reg'[t].why = reg[t].why
            /\ pc'[t] = "allocateFlush" /\ pc[t] = "allocate"
        BY <1>1, <2>4, <3>2, <4>1 DEF Allocate, Local
      <4>3. reg[t].why = "copy" => Rooted(reg[t].l1Entry.at)
        BY <4>2 DEF Named, TableAt
      <4>4. QED
        BY <1>2, <1>5, <4>2, <4>3
    <3>3. QED
      BY <3>1, <3>2
  <2>5. CASE FlushAllocate(t)
    <3>1. /\ reg[t].why \in {"data", "table", "copy"} /\ pc[t] = "allocateFlush" /\ UNCHANGED reg
      BY <1>1, <2>5, TypedParts DEF FlushAllocate, FlushThen, LocalsGood, GoodAt, TableSteps
    <3>2. pc'[t] \in {"fill", "zero", "copy"}
      BY <1>1, <2>5, <3>1 DEF FlushAllocate, FlushThen
    <3>3. reg[t].why = "copy" => Rooted(reg[t].l1Entry.at)
      BY <3>1 DEF Named, TableAt
    <3>4. CASE pc'[t] = "copy" /\ reg[t].why = "copy"
      BY <1>5, <3>1, <3>3, <3>4
    <3>5. QED
      BY <1>2, <3>1, <3>2, <3>4
  <2>6. CASE FlushFill(t) \/ FlushEntry(t) \/ FlushRelease(t)
    <3>1. pc'[t] \in {"repoint", "forgetL2", "entry", "next"}
      BY <1>1, <2>6 DEF FlushFill, FlushEntry, FlushRelease, FlushThen, AfterRelease
    <3>2. QED
      BY <1>2, <3>1
  <2>7. CASE FlushZero(t) \/ FlushCopy(t)
    <3>1. /\ pc[t] \in {"zeroFlush", "copyFlush"} /\ pc'[t] = "l1Write" /\ UNCHANGED <<dev, reg>>
          /\ durable' = dev
      BY <1>1, <2>7 DEF FlushZero, FlushCopy, FlushThen
    <3>2. Reached(reg[t].table) /\ \A j \in L2Index : Published(dev.table[reg[t].table][j].at)
      BY <3>1 DEF Named, TableAt, Sized, ReachesAt
    <3>3. reg[t].table \in Cluster
      BY <1>1, <3>1, TypedParts DEF LocalsGood, GoodAt, TableSteps
    <3>4. Reached(reg[t].table)'
      BY <3>1, <3>2, <3>3, ReachedGrows, Numbers DEF Spreads, Reached
    <3>5. \A j \in L2Index : Published(dev.table[reg[t].table][j].at)'
      BY <3>1, <3>2, <3>3, RootedGrows DEF Published, Reached
    <3>6. \A j \in L2Index : Published(durable.table[reg[t].table][j].at)'
      BY <3>1, <3>5 DEF Published, Reached
    <3>7. QED
      BY <3>1, <3>4, <3>5, <3>6 DEF TableAt, Rooted
  <2>8. CASE Repoint(t)
    <3> DEFINE entry == l1[reg[t].at[1]]
    <3>1. reg[t].at[1] \in L1Index
      BY <1>1 DEF Local, VCluster
    <3>2. Rooted(entry.at) /\ UNCHANGED <<l1, dev, durable>>
      BY <2>8, <3>1 DEF Named, Repoint, memory
    <3> HIDE DEF entry
    <3>3. CASE Set(t, [reg[t] EXCEPT !.table = entry.at]) /\ Go(t, "entry")
      BY <1>1, <1>2, <3>3
    <3>4. ASSUME NEW why, Set(t, [reg[t] EXCEPT !.why = why, !.l1Entry = entry]),
                 Go(t, "allocate")
          PROVE  TableAt(pc[t], reg[t])'
      <4>1. reg'[t].l1Entry = entry /\ pc'[t] = "allocate"
        BY <1>1, <3>4 DEF Local
      <4>2. \A a : Rooted(a) => Rooted(a)'
        BY RootedGrows
      <4>3. Rooted(reg[t].l1Entry.at)'
        BY <3>2, <4>1, <4>2 DEF Rooted, Reached, Published
      <4>4. QED
        BY <4>1, <4>3 DEF TableAt
    <3>5. QED
      BY <2>8, <3>3, <3>4 DEF Repoint, entry
  <2>9. QED
    BY <1>7, <2>1, <2>2, <2>3, <2>4, <2>5, <2>6, <2>7, <2>8 DEF WriteStep
<1>8. QED
  BY <1>6, <1>7

(***************************************************************************)
(* The five steps that write a table or an L1 entry                        *)
(***************************************************************************)
LEMMA TableWritesNamed ==
    ASSUME Typed, Typed', Sized, Named, NEW t \in Writers,
           Zero(t) \/ CopyTable(t) \/ WriteEntry(t)
    PROVE  Named'
<1>1. /\ t \in Threads /\ reg[t] \in Local /\ dev \in Device /\ durable \in Device
      /\ LengthsNat /\ LengthsNat' /\ ReachesAt(pc[t], reg[t]) /\ LocalsGood(t)
  BY TypedParts, LengthsTyped, LengthsNext DEF StoreTyped, Sized
<1>2. /\ \A u \in Threads : u # t => pc'[u] = pc[u] /\ reg'[u] = reg[u]
      /\ Longest
  BY <1>1, OnlyOne, StepLonger DEF WriteStep
<1>3. UNCHANGED <<l1, durable>> /\ dev'.l1 = dev.l1
  BY <1>1 DEF Zero, CopyTable, WriteEntry, Device, memory
<1>4. \A b : Published(b) => Published(b)'
  BY <1>1, <1>2, PublishedGrows
<1>5. ASSUME Spreads, TableAt(pc[t], reg[t])' PROVE Named'
  BY <1>1, <1>2, <1>3, <1>5, NamedStep
<1>6. \A c, step : WrittenTo(t, c, step) =>
          /\ pc'[t] \in {"idle", step}
          /\ pc'[t] # "idle" => UNCHANGED reg
  BY <1>1, TypedParts DEF WrittenTo, Leave, Go
<1>7. CASE Zero(t) \/ CopyTable(t)
  <2>0. PICK T : T = reg[t].table
    OBVIOUS
  <2>1. T \in Cluster /\ pc[t] \in {"zero", "copy"}
    BY <1>1, <1>7, <2>0 DEF Zero, CopyTable, LocalsGood, GoodAt, TableSteps
  <2>2. PICK row \in [L2Index -> L2Entry] :
          /\ dev' = [dev EXCEPT !.table[T] = row]
          /\ \A j \in L2Index : Published(row[j].at)
    <3>1. CASE Zero(t)
      <4>1. EmptyTable \in [L2Index -> L2Entry] /\ \A j \in L2Index : EmptyTable[j].at = None
        BY EntriesTyped DEF EmptyTable, NoEntry
      <4>2. QED
        BY <2>0, <3>1, <4>1, Numbers DEF Zero, Published
    <3>2. CASE CopyTable(t)
      <4>1. reg[t].l1Entry.at \in Cluster /\ Rooted(reg[t].l1Entry.at)
        <5>1. pc[t] = "copy" /\ reg[t].why = "copy"
          BY <1>1, <3>2 DEF CopyTable, LocalsGood, GoodAt, TableSteps
        <5>2. QED
          BY <1>1, <5>1 DEF LocalsGood, GoodAt, TableSteps, Named, TableAt
      <4>2. dev.table[reg[t].l1Entry.at] \in [L2Index -> L2Entry]
        BY <1>1, <4>1 DEF Device
      <4>3. QED
        BY <2>0, <3>2, <4>1, <4>2 DEF CopyTable, TableCopy, Rooted
    <3>3. QED
      BY <1>7, <3>1, <3>2
  <2>3. \A c \in Cluster : dev'.table[c] = IF c = T THEN row ELSE dev.table[c]
    BY <1>1, <2>1, <2>2 DEF Device
  <2>4. \A c \in Cluster : \A j \in L2Index :
          dev'.table[c][j] = dev.table[c][j] \/ Published(dev.table[c][j].at)'
    <3>1. \A j \in L2Index : Published(row[j].at)'
      BY <1>4, <2>2
    <3>2. QED
      BY <2>3, <3>1 DEF Published, Reached
  <2>5. Spreads
    BY <1>1, <1>2, <1>3, <2>4 DEF Spreads
  <2>6. TableAt(pc[t], reg[t])'
    <3>1. PICK step \in {"zeroFlush", "copyFlush"} : WrittenTo(t, T, step)
      BY <1>7, <2>0 DEF Zero, CopyTable
    <3>2. pc'[t] \in {"idle", step} /\ (pc'[t] # "idle" => reg'[t].table = T)
      BY <1>6, <2>0, <3>1
    <3>3. \A j \in L2Index : Published(dev.table[T][j].at)'
      BY <1>4, <2>1, <2>2, <2>3 DEF Published, Reached
    <3>4. QED
      BY <3>2, <3>3 DEF TableAt, Published, Reached
  <2>7. QED
    BY <1>5, <2>5, <2>6
<1>8. CASE WriteEntry(t)
  <2>1. /\ dev' = [dev EXCEPT !.table[reg[t].table][reg[t].at[2]] = L2EntryFor(reg[t].new)]
        /\ WrittenTo(t, None, "entryFlush") /\ pc[t] = "entry"
    BY <1>8 DEF WriteEntry, Written
  <2>2. PICK e \in {L2EntryFor(reg[t].new)} : Published(e.at)
    BY <1>1, <2>1 DEF ReachesAt, Carries, Published, L2EntryFor, NoEntry
  <2>3. ASSUME NEW c \in Cluster, NEW j \in L2Index
        PROVE  dev'.table[c][j] = dev.table[c][j] \/ Published(dev.table[c][j].at)'
    <3>1. dev'.table[c][j] \in {dev.table[c][j], e}
      BY <1>1, <2>1, <2>2, <2>3 DEF Device
    <3>2. Published(e.at)'
      BY <1>4, <2>2
    <3>3. QED
      BY <3>1, <3>2 DEF Published, Reached
  <2>4. Spreads
    BY <1>1, <1>2, <1>3, <2>3 DEF Spreads
  <2>5. TableAt(pc[t], reg[t])'
    BY <1>6, <2>1 DEF TableAt
  <2>6. QED
    BY <1>5, <2>4, <2>5
<1>9. QED
  BY <1>7, <1>8

LEMMA PublishNamed ==
    ASSUME Typed, Typed', Sized, Named, NEW t \in Writers, WriteL1(t) \/ FlushL1(t)
    PROVE  Named'
<1>1. /\ t \in Threads /\ reg[t] \in Local /\ dev \in Device /\ durable \in Device
      /\ LengthsNat /\ LengthsNat' /\ l1 \in [L1Index -> L1Entry]
  BY TypedParts, LengthsTyped, LengthsNext DEF StoreTyped
<1>2. /\ \A u \in Threads : u # t => pc'[u] = pc[u] /\ reg'[u] = reg[u]
      /\ Longest
  BY <1>1, OnlyOne, StepLonger DEF WriteStep
<1>3. PICK T \in Cluster : T = reg[t].table /\ Rooted(T)
  <2>1. pc[t] \in {"l1Write", "l1Flush"}
    BY DEF WriteL1, FlushL1
  <2>2. reg[t].table \in Cluster /\ Rooted(reg[t].table)
    BY <1>1, <2>1, TypedParts DEF Named, TableAt, LocalsGood, GoodAt, TableSteps
  <2>3. QED
    BY <2>2
<1>4. dev'.table = dev.table /\ (durable' = dev \/ durable' = durable)
  BY <1>1 DEF WriteL1, FlushL1, Device
<1>5. Spreads
  BY <1>1, <1>2, <1>4 DEF Spreads
<1>6. Rooted(T)'
  BY <1>3, <1>5, RootedGrows
<1>7. L1EntryFor(T).at = T
  BY DEF L1EntryFor
<1>8. CASE WriteL1(t)
  <2>1. /\ UNCHANGED <<l1, durable>> /\ dev'.l1 = [dev.l1 EXCEPT ![reg[t].at[1]] = L1EntryFor(T)]
        /\ pc[t] = "l1Write"
    BY <1>1, <1>3, <1>8 DEF WriteL1, Device, memory
  <2>2. \A i \in L1Index : dev'.l1[i].at = dev.l1[i].at \/ Rooted(dev.l1[i].at)'
    <3>1. \A i \in L1Index : dev'.l1[i].at \in {dev.l1[i].at, T}
      BY <1>1, <1>7, <2>1 DEF Device
    <3>2. QED
      BY <1>6, <3>1 DEF Rooted, Reached, Published
  <2>3. TableAt(pc[t], reg[t])'
    <3>1. CASE Leave(t)
      BY <1>1, <3>1, TypedParts DEF Leave, Go, TableAt
    <3>2. CASE Go(t, "l1Flush") /\ UNCHANGED reg
      <4>1. pc'[t] = "l1Flush" /\ reg'[t].table = T
        BY <1>1, <1>3, <3>2, TypedParts DEF Go
      <4>2. QED
        BY <1>3, <1>6, <4>1 DEF TableAt, Rooted, Reached, Published
    <3>3. QED
      BY <1>8, <3>1, <3>2 DEF WriteL1
  <2>4. QED
    BY <1>1, <1>2, <1>5, <2>1, <2>2, <2>3, NamedStep
<1>9. CASE FlushL1(t)
  <2>1. /\ UNCHANGED dev /\ durable' = dev /\ l1' = [l1 EXCEPT ![reg[t].at[1]] = L1EntryFor(T)]
        /\ pc'[t] \in {"release", "entry"}
    BY <1>1, <1>3, <1>9, TypedParts DEF FlushL1, Go
  <2>2. \A i \in L1Index : l1'[i].at = l1[i].at \/ Rooted(l1[i].at)'
    <3>1. \A i \in L1Index : l1'[i].at \in {l1[i].at, T}
      BY <1>1, <1>7, <2>1
    <3>2. QED
      BY <1>6, <3>1 DEF Rooted, Reached, Published
  <2>3. TableAt(pc[t], reg[t])'
    BY <2>1 DEF TableAt
  <2>4. QED
    BY <1>1, <1>2, <1>5, <2>1, <2>2, <2>3, NamedStep
<1>10. QED
  BY <1>8, <1>9

LEMMA InitNamed == (\A image \in Images : InsideImage(image)) /\ Init => Named
<1> SUFFICES ASSUME \A image \in Images : InsideImage(image), Init PROVE Named
  OBVIOUS
<1>1. /\ img \in Images /\ dev = img.dev /\ durable = img.dev /\ l1 = dev.l1 /\ imageLen = dev.len
      /\ \A t \in Threads : pc[t] = "idle"
  BY DEF Init, Idle
<1>2. ASSUME NEW i \in L1Index, dev.l1[i].at \in Cluster PROVE Rooted(dev.l1[i].at)
  <2>1. 0 \in L2Index
    BY Numbers DEF VCluster
  <2>2. dev.l1[i].at <= dev.len
    <3>1. <<i, 0>> \in VCluster
      BY <2>1 DEF VCluster
    <3>2. QED
      BY <1>1, <1>2, <3>1 DEF InsideImage
  <2>3. ASSUME NEW j \in L2Index, dev.table[dev.l1[i].at][j].at \in Cluster
        PROVE  dev.table[dev.l1[i].at][j].at <= dev.len
    <3>1. <<i, j>> \in VCluster
      BY DEF VCluster
    <3>2. EntryAt(dev, Targets(dev.l1), <<i, j>>) = dev.table[dev.l1[i].at][j]
      BY <1>2 DEF EntryAt, Targets
    <3>3. QED
      BY <1>1, <2>3, <3>1, <3>2 DEF InsideImage
  <2>4. QED
    BY <1>1, <2>2, <2>3 DEF Rooted, Published, Reached
<1>3. \A i \in L1Index : Rooted(dev.l1[i].at)
  BY <1>2 DEF Rooted
<1>4. \A t \in Writers : TableAt(pc[t], reg[t])
  BY <1>1 DEF TableAt, Threads
<1>5. QED
  BY <1>1, <1>3, <1>4 DEF Named

LEMMA CrashNamed ==
    ASSUME Typed, Typed', Sized, Named, Crash
    PROVE  Named'
<1>1. /\ dev' \in Survivors /\ durable' = dev' /\ l1' = dev'.l1 /\ imageLen' = dev'.len
      /\ pc' = Idle /\ LengthsNat /\ LengthsNat'
  BY LengthsTyped, LengthsNext DEF Crash
<1>2. PICK d \in Survivors : d = dev'
  BY <1>1
<1>3. /\ \A i \in L1Index : d.l1[i] \in {durable.l1[i], dev.l1[i]}
      /\ \A c \in Cluster : \A j \in L2Index : d.table[c][j] \in {durable.table[c][j], dev.table[c][j]}
      /\ d.len \in {durable.len, dev.len}
  BY TypedParts, SurvivorFacts DEF StoreTyped
<1>4. ASSUME NEW a, Published(a), a \in Cluster PROVE a <= d.len
  BY <1>1, <1>3, <1>4, Numbers DEF Published, Reached, LengthsNat, Sized, Cluster
<1>5. ASSUME NEW a \in Cluster, Rooted(a)
      PROVE  a <= d.len /\ \A j \in L2Index : d.table[a][j].at \in Cluster => d.table[a][j].at <= d.len
  <2>1. Published(a)
    BY <1>5 DEF Rooted, Published
  <2>2. \A j \in L2Index : Published(d.table[a][j].at)
    BY <1>3, <1>5 DEF Rooted
  <2>3. QED
    BY <1>4, <1>5, <2>1, <2>2
<1>6. \A i \in L1Index : Rooted(d.l1[i].at)
  BY <1>3 DEF Named
<1>7. \A i \in L1Index : Rooted(dev.l1[i].at)'
  BY <1>1, <1>2, <1>5, <1>6 DEF Rooted, Published, Reached
<1>8. \A t \in Writers : TableAt(pc[t], reg[t])'
  BY <1>1 DEF TableAt, Idle, Threads
<1>9. QED
  BY <1>1, <1>7, <1>8 DEF Named, Rooted, Published, Reached

LEMMA NextNamed == Typed /\ Typed' /\ Sized /\ Named /\ [Next]_vars => Named'
<1> SUFFICES ASSUME Typed, Typed', Sized, Named, [Next]_vars PROVE Named'
  OBVIOUS
<1>1. LengthsNat /\ LengthsNat'
  BY LengthsTyped, LengthsNext
<1>2. CASE \E t \in Threads : \/ Lookup(t) \/ DeviceError(t)
                              \/ t \in Writers /\ (StartWrite(t) \/ WriteStep(t))
                              \/ t \in Readers /\ (StartRead(t) \/ ReadStep(t))
  <2>1. PICK t \in Threads : \/ Lookup(t) \/ DeviceError(t)
                             \/ t \in Writers /\ (StartWrite(t) \/ WriteStep(t))
                             \/ t \in Readers /\ (StartRead(t) \/ ReadStep(t))
    BY <1>2
  <2>2. /\ \A u \in Threads : u # t => pc'[u] = pc[u] /\ reg'[u] = reg[u]
        /\ Longest
    BY <2>1, OnlyOne, StepLonger
  <2>3. CASE /\ t \in Writers
             /\ Zero(t) \/ CopyTable(t) \/ WriteEntry(t) \/ WriteL1(t) \/ FlushL1(t)
    BY <2>3, TableWritesNamed, PublishNamed
  <2>4. CASE t \notin Writers \/ ~(Zero(t) \/ CopyTable(t) \/ WriteEntry(t) \/ WriteL1(t) \/ FlushL1(t))
    <3>1. SameTables
      <4>1. CASE t \notin Writers
        <5>1. Lookup(t) \/ DeviceError(t) \/ StartRead(t) \/ ReadStep(t)
          BY <2>1, <4>1
        <5>2. QED
          BY <5>1 DEF Lookup, LookupL1, LookupL2, Undecodable, DeviceError, StartRead, ReadStep,
            Fetch, Store, EndRead, memory, SameTables
      <4>2. CASE t \in Writers
        BY <2>1, <2>4, <4>2, TablesStay
      <4>3. QED
        BY <4>1, <4>2
    <3>2. Spreads /\ t \in Writers => TableAt(pc[t], reg[t])'
      <4>1. t \in Writers => t \notin Readers
        BY WriteAssumption
      <4>2. QED
        BY <2>1, <2>4, <3>1, <4>1, QuietTableAt
    <3>3. QED
      BY <2>2, <3>1, <3>2, SameTablesNamed
  <2>5. QED
    BY <2>3, <2>4
<1>3. CASE Flush
  <2>1. UNCHANGED <<dev, l1, imageLen, pc, reg>> /\ durable' = dev
    BY <1>3 DEF Flush, memory
  <2>2. Longest /\ dev \in Device /\ durable \in Device
    BY <1>1, <2>1, TypedParts DEF Longest, LengthsNat, Sized, StoreTyped
  <2>3. Spreads
    BY <1>1, <2>1, <2>2 DEF Spreads
  <2>4. \A a : Rooted(a) => Rooted(a)'
    BY <2>3, RootedGrows
  <2>5. \A i \in L1Index : Rooted(l1[i].at)' /\ Rooted(dev.l1[i].at)' /\ Rooted(durable.l1[i].at)'
    BY <2>1, <2>4 DEF Named, Rooted, Reached, Published
  <2>6. ASSUME NEW t \in Writers PROVE TableAt(pc[t], reg[t])'
    <3>1. TableAt(pc[t], reg[t]) /\ LocalsGood(t)
      BY TypedParts DEF Named
    <3>2. pc[t] \in {"zeroFlush", "copyFlush", "l1Write", "l1Flush"} => reg[t].table \in Cluster
      BY <3>1 DEF LocalsGood, GoodAt, TableSteps
    <3>3. /\ Rooted(reg[t].table) => Rooted(reg[t].table)'
          /\ Rooted(reg[t].l1Entry.at) => Rooted(reg[t].l1Entry.at)'
      BY <2>1, <2>4 DEF Rooted, Reached, Published
    <3>4. reg[t].table \in Cluster /\ (\A j \in L2Index : Published(dev.table[reg[t].table][j].at))
             => \A j \in L2Index : Published(dev.table[reg[t].table][j].at)'
      BY <2>1, <2>3, RootedGrows DEF Reached, Published
    <3>5. QED
      BY <2>1, <3>1, <3>2, <3>3, <3>4 DEF TableAt
  <2>7. QED
    BY <2>5, <2>6 DEF Named
<1>4. CASE Crash
  BY <1>4, CrashNamed
<1>5. CASE UNCHANGED vars
  <2>1. UNCHANGED <<img, dev, durable, l1, imageLen, pc, reg>>
    BY <1>5 DEF vars, memory
  <2>2. \A a : Rooted(a) <=> Rooted(a)'
    BY <2>1 DEF Rooted, Reached, Published
  <2>3. \A a : Published(a) <=> Published(a)'
    BY <2>1 DEF Published, Reached
  <2>4. ASSUME NEW t \in Writers, TableAt(pc[t], reg[t]) PROVE TableAt(pc[t], reg[t])'
    <3>1. pc'[t] = pc[t] /\ reg'[t] = reg[t] /\ dev' = dev
      BY <2>1
    <3>2. QED
      BY <2>2, <2>3, <2>4, <3>1 DEF TableAt
  <2>5. QED
    BY <2>1, <2>2, <2>4 DEF Named
<1>6. QED
  BY <1>2, <1>3, <1>4, <1>5, TypedParts DEF Next

(* Whatever writers, readers, failures and crashes there are, `image_len`  *)
(* as an open took it and dev_write and flushes moved it on never refuses  *)
(* a table or cluster this handle published, if it refuses none at first.  *)
THEOREM NeverOutside ==
    ASSUME \A image \in Images : InsideImage(image)
    PROVE  Spec => []PublishedIsInside
<1>1. Named /\ Typed => PublishedIsInside
  <2> SUFFICES ASSUME Named, Typed, NEW v \in VCluster
               PROVE  /\ l1[v[1]].at \in Cluster => Inside(l1[v[1]].at)
                      /\ LET at == EntryAt(dev, Targets(l1), v).at IN at \in Cluster => Inside(at)
    BY DEF PublishedIsInside
  <2>1. v[1] \in L1Index /\ v[2] \in L2Index
    BY DEF VCluster
  <2>2. Rooted(l1[v[1]].at)
    BY <2>1 DEF Named
  <2>3. CASE l1[v[1]].at \in Cluster
    <3>1. EntryAt(dev, Targets(l1), v) = dev.table[l1[v[1]].at][v[2]]
      BY <2>1, <2>3 DEF EntryAt, Targets
    <3>2. QED
      BY <2>1, <2>2, <2>3, <3>1 DEF Rooted, Published, Reached, Inside
  <2>4. CASE l1[v[1]].at \notin Cluster
    BY <2>1, <2>4, Numbers DEF EntryAt, Targets, NoEntry
  <2>5. QED
    BY <2>3, <2>4
<1>2. Init => Named
  BY InitNamed
<1>3. QED
  BY <1>1, <1>2, NextNamed, AlwaysTyped, AlwaysSized, PTL DEF Spec

(* However damaged the tables and whatever else runs: an offset a thread   *)
(* took from them lies inside the device by the time it is followed, for   *)
(* checked_host_offset has compared it with `image_len`, which never       *)
(* exceeds the device's length.                                            *)
THEOREM OffsetsStayInside == Spec => []OffsetsAreChecked
<1>1. Typed /\ Sized => OffsetsAreChecked
  <2> SUFFICES ASSUME Typed, Sized, NEW t \in Threads
               PROVE  /\ reg[t].l1Entry.at <= dev.len
                      /\ reg[t].map.case = "Zero" \/ reg[t].map.last <= dev.len
    BY DEF OffsetsAreChecked
  <2>1. /\ LengthsNat /\ reg[t].map \in ClusterMap /\ Placed(reg[t].map, imageLen)
    BY LengthsTyped, TypedParts DEF Local, LocalsGood, GoodAt
  <2>2. reg[t].map.last \in Nat
    BY <2>1, MapFacts, Numbers DEF Offset
  <2>3. QED
    BY <2>1, <2>2 DEF Sized, Placed, LengthsNat
<1>2. QED
  BY <1>1, AlwaysTyped, AlwaysSized, PTL

(***************************************************************************)
(* What a lookup that starts now finds                                     *)
(***************************************************************************)
(* What it goes by, as one value: L2 tables, data, L1 in memory, L2 cache. *)
Sight == [table |-> dev.table, data |-> dev.data, l1 |-> l1, cache |-> l2Cache]

EntrySeen(s, v) ==
    IF s.l1[v[1]].at = None THEN NoEntry
    ELSE IF s.cache # <<>> /\ s.cache[1] = v[1] THEN s.cache[2][v[2]]
    ELSE s.table[s.l1[v[1]].at][v[2]]

(* A cluster's words have the call's where the call covers them.           *)
Holds(words, r) == \A w \in Chunk(r.range, r.at) : words[w] = r.val

(* The table of the chunk is the one memory names; its entry points at the *)
(* new cluster; the cache has been emptied since.                          *)
Linked(step) == step \in {"entry", "entryFlush", "forgetL2", "forgetData"} \cup ReleaseSteps

Pointed(step, why) ==
    \/ step \in {"entryFlush", "forgetL2", "forgetData"}
    \/ step \in ReleaseSteps /\ why # "copy"

Emptied(step, why) == step = "forgetData" \/ (step \in ReleaseSteps /\ why # "copy")

Filling(step, why) == step = "fill" \/ (step \in {"allocate", "allocateFlush"} /\ why = "data")

ChunkShows(s, r) ==
    LET e == EntrySeen(s, r.at)
    IN  e.kind = "standard" /\ e.at \in Cluster /\ Holds(s.data[e.at], r)

(* The way of a chunk, from the lookup to where a lookup finds it.         *)
Shows(s, step, r) ==
    LET i == r.at[1]
        j == r.at[2]
    IN
    /\ step = "l2" => r.l1Entry = s.l1[i]
    /\ step \in {"plan", "inPlace"} /\ r.map.case = "Plain" =>
        /\ s.l1[i].at # None /\ s.cache # <<>> /\ s.cache[1] = i
        /\ s.cache[2][j].kind = "standard" /\ s.cache[2][j].at = r.map.host
    /\ Filling(step, r.why) => Holds(r.full, r)
    /\ Carries(step, r.why) \/ Pointed(step, r.why) => r.new \in Cluster /\ Holds(s.data[r.new], r)
    /\ Linked(step) => r.table \in Cluster /\ s.l1[i].at = r.table
    /\ Pointed(step, r.why) => s.table[r.table][j] = L2EntryFor(r.new)
    /\ Emptied(step, r.why) => s.cache = <<>>
    /\ step = "next" => ChunkShows(s, r)

WritesShow == \A t \in Writers : Shows(Sight, pc[t], reg[t])

ShowsOn(t) == Shows(Sight', pc'[t], reg'[t])

LEMMA EarlyShows ==
    ASSUME NEW s, NEW step \in Early, NEW r
    PROVE  Shows(s, step, r)
  BY DEF Early, Shows, Filling, Carries, Pointed, Linked, Emptied, ReleaseSteps

LEMMA Moves ==
    ASSUME Typed, NEW t \in Writers
    PROVE  /\ \A step : Go(t, step) => pc'[t] = step
           /\ \A locals : Set(t, locals) => reg'[t] = locals
           /\ UNCHANGED reg => reg'[t] = reg[t]
           /\ Leave(t) => ShowsOn(t)
<1>1. /\ \A step : Go(t, step) => pc'[t] = step
      /\ \A locals : Set(t, locals) => reg'[t] = locals
  BY TypedParts DEF Go, Set
<1>2. Leave(t) => pc'[t] \in Early
  BY <1>1 DEF Leave, Early
<1>3. QED
  BY <1>1, <1>2, EarlyShows DEF ShowsOn

(* A writer at work knows its locals, its step and its chunk.              *)
LEMMA AtWork ==
    ASSUME Typed, WritesShow, NEW t \in Writers
    PROVE  /\ Shows(Sight, pc[t], reg[t])
           /\ t \in Threads /\ reg[t] \in Local /\ LocalsGood(t)
           /\ reg[t].at[1] \in L1Index /\ reg[t].at[2] \in L2Index
           /\ reg[t].map \in ClusterMap
           /\ dev \in Device /\ l1 \in [L1Index -> L1Entry] /\ imageLen \in 0 .. Clusters
           /\ Chunk(reg[t].range, reg[t].at) \subseteq Word
<1>1. /\ t \in Threads /\ reg[t] \in Local /\ LocalsGood(t)
      /\ dev \in Device /\ l1 \in [L1Index -> L1Entry] /\ imageLen \in 0 .. Clusters
  BY TypedParts DEF StoreTyped
<1>2. reg[t].at \in VCluster /\ reg[t].map \in ClusterMap
  BY <1>1 DEF Local
<1>3. Chunk(reg[t].range, reg[t].at) \subseteq Word
  BY DEF Chunk
<1>4. QED
  BY <1>1, <1>2, <1>3 DEF WritesShow, VCluster

(* A lookup goes by the table in memory and fills the cache it then uses.  *)
LEMMA LookupShows ==
    ASSUME Typed, WritesShow, NEW t \in Writers, Lookup(t) \/ DeviceError(t)
    PROVE  ShowsOn(t)
<1> DEFINE r == reg[t]
           i == reg[t].at[1]
           j == reg[t].at[2]
<1>1. /\ Shows(Sight, pc[t], r) /\ r \in Local /\ LocalsGood(t) /\ i \in L1Index /\ j \in L2Index
      /\ Looked(t) = "plan"
  BY AtWork DEF Looked
<1>2. CASE LookupL1(t)
  <2>1. CASE Leave(t)
    BY <2>1, Moves
  <2>2. CASE /\ Set(t, [r EXCEPT !.l1Entry = l1[i], !.map = Unallocated])
             /\ Go(t, IF l1[i].at = None THEN Looked(t) ELSE "l2")
    <3>1. reg'[t].at = r.at /\ reg'[t].l1Entry = l1[i] /\ reg'[t].map = Unallocated
      <4>1. reg'[t] = [r EXCEPT !.l1Entry = l1[i], !.map = Unallocated]
        BY <2>2, Moves
      <4>2. QED
        BY <1>1, <4>1 DEF Local
    <3>2. pc'[t] \in {"plan", "l2"}
      BY <1>1, <2>2, Moves
    <3>3. Unallocated.case = "Unallocated"
      BY DEF Unallocated, MapOf, NoEntry, None
    <3>4. Sight'.l1 = l1
      BY <1>2 DEF LookupL1, Sight, memory
    <3>5. QED
      BY <3>1, <3>2, <3>3, <3>4
        DEF ShowsOn, Shows, Filling, Carries, Pointed, Linked, Emptied, ReleaseSteps
  <2>3. QED
    BY <1>2, <2>1, <2>2 DEF LookupL1
<1>3. CASE LookupL2(t)
  <2> DEFINE cache == Cached(i, r.l1Entry.at)
             map == MapOf(cache[2][j], r.l1Entry.copied)
  <2>1. pc[t] = "l2" /\ r.l1Entry = l1[i] /\ l1[i].at # None
    <3>1. pc[t] = "l2"
      BY <1>3 DEF LookupL2
    <3>2. r.l1Entry = l1[i]
      BY <1>1, <3>1 DEF Shows, Sight
    <3>3. r.l1Entry.at \in Cluster
      BY <1>1, <3>1 DEF LocalsGood, GoodAt
    <3>4. QED
      BY <3>1, <3>2, <3>3, Numbers
  <2>2. cache # <<>> /\ cache[1] = i
    BY DEF Cached
  <2>3. map.case = "Plain" => cache[2][j].kind = "standard" /\ cache[2][j].at = map.host
    <3>1. cache \in L1Index \X [L2Index -> L2Entry]
      <4>1. r.l1Entry.at \in Cluster
        BY <1>1, <2>1 DEF LocalsGood, GoodAt
      <4>2. QED
        BY <1>1, <4>1, CachedTyped
    <3>2. cache[2][j] \in L2Entry
      BY <1>1, <3>1
    <3>3. QED
      BY <3>2 DEF MapOf, L2Entry
  <2>4. l2Cache' = cache /\ UNCHANGED l1
    BY <1>3 DEF LookupL2
  <2>5. CASE Leave(t)
    BY <2>5, Moves
  <2>6. CASE Set(t, [r EXCEPT !.map = map]) /\ Go(t, Looked(t))
    <3>1. reg'[t].at = r.at /\ reg'[t].map = map /\ pc'[t] = "plan"
      BY <1>1, <2>6, Moves DEF Local
    <3>2. Sight'.l1 = l1 /\ Sight'.cache = cache
      BY <2>4 DEF Sight
    <3> HIDE DEF cache, map
    <3>3. QED
      BY <2>1, <2>2, <2>3, <3>1, <3>2
        DEF ShowsOn, Shows, Filling, Carries, Pointed, Linked, Emptied, ReleaseSteps
  <2>7. QED
    BY <1>3, <2>5, <2>6 DEF LookupL2
<1>4. CASE Undecodable(t) \/ DeviceError(t)
  BY <1>4, Moves DEF Undecodable, DeviceError
<1>5. QED
  BY <1>2, <1>3, <1>4 DEF Lookup

(* From the plan to the new cluster.                                       *)
LEMMA PlanShows ==
    ASSUME Typed, WritesShow, NEW t \in Writers,
           PlanInPlace(t) \/ PlanReallocate(t) \/ Allocate(t) \/ NoRoom(t) \/ FlushAllocate(t)
    PROVE  ShowsOn(t)
<1> DEFINE r == reg[t]
<1>1. /\ Shows(Sight, pc[t], r) /\ r \in Local /\ LocalsGood(t) /\ dev \in Device
      /\ Chunk(r.range, r.at) \subseteq Word
  BY AtWork
<1>2. CASE PlanInPlace(t)
  <2>1. pc[t] = "plan" /\ pc'[t] = "inPlace" /\ reg'[t] = r /\ Sight' = Sight
    BY <1>2, Moves DEF PlanInPlace, Sight, memory
  <2>2. QED
    BY <1>1, <2>1
      DEF ShowsOn, Shows, Filling, Carries, Pointed, Linked, Emptied, ReleaseSteps
<1>3. CASE PlanReallocate(t)
  <2>1. PICK words, old :
            /\ Set(t, [r EXCEPT !.full = words, !.old = old, !.why = "data"])
            /\ \A w \in Chunk(r.range, r.at) : words[w] = r.val
    <3> DEFINE words == Spliced(Seed(r.at, r.map), r.range, r.at, r.val)
               old == ReleaseOf(r.map)
    <3>1. \A w \in Chunk(r.range, r.at) : words[w] = r.val
      BY <1>1 DEF Spliced
    <3>2. Set(t, [r EXCEPT !.full = words, !.old = old, !.why = "data"])
      BY <1>3 DEF PlanReallocate
    <3> HIDE DEF words, old
    <3>3. QED
      BY <3>1, <3>2
  <2>2. /\ reg'[t].at = r.at /\ reg'[t].range = r.range /\ reg'[t].val = r.val
        /\ reg'[t].full = words /\ reg'[t].why = "data"
    <3>1. reg'[t] = [r EXCEPT !.full = words, !.old = old, !.why = "data"]
      BY <2>1, Moves
    <3>2. QED
      BY <1>1, <3>1 DEF Local
  <2>3. pc'[t] = "allocate"
    BY <1>3, Moves DEF PlanReallocate
  <2>4. Holds(reg'[t].full, reg'[t])
    BY <2>1, <2>2 DEF Holds
  <2>5. QED
    BY <2>2, <2>3, <2>4
      DEF ShowsOn, Shows, Filling, Carries, Pointed, Linked, Emptied, ReleaseSteps
<1>4. CASE Allocate(t)
  <2>1. Sight' = Sight /\ pc[t] = "allocate"
    BY <1>1, <1>4 DEF Allocate, Sight, Device, memory
  <2>2. CASE Leave(t)
    BY <2>2, Moves
  <2>3. ASSUME NEW c,
               Set(t, IF r.why = "data" THEN [r EXCEPT !.new = c] ELSE [r EXCEPT !.table = c]),
               Go(t, "allocateFlush")
        PROVE  ShowsOn(t)
    <3>1. /\ reg'[t].at = r.at /\ reg'[t].range = r.range /\ reg'[t].val = r.val
          /\ reg'[t].full = r.full /\ reg'[t].why = r.why /\ pc'[t] = "allocateFlush"
          /\ r.why # "data" => reg'[t].new = r.new
      BY <1>1, <2>3, Moves DEF Local
    <3>2. QED
      BY <1>1, <2>1, <3>1
        DEF ShowsOn, Shows, Filling, Carries, Pointed, Linked, Emptied, ReleaseSteps, Holds
  <2>4. QED
    BY <1>4, <2>2, <2>3 DEF Allocate
<1>5. CASE NoRoom(t)
  BY <1>5, Moves DEF NoRoom
<1>6. CASE FlushAllocate(t)
  <2>1. pc[t] = "allocateFlush" /\ r.why \in {"data", "table", "copy"}
    BY <1>1, <1>6 DEF FlushAllocate, LocalsGood, GoodAt
  <2>2. /\ pc'[t] = IF r.why = "data" THEN "fill" ELSE IF r.why = "table" THEN "zero" ELSE "copy"
        /\ reg'[t] = r /\ Sight' = Sight
    BY <1>6, <2>1, Moves DEF FlushAllocate, FlushThen, Sight, memory
  <2>3. QED
    BY <1>1, <2>1, <2>2
      DEF ShowsOn, Shows, Filling, Carries, Pointed, Linked, Emptied, ReleaseSteps
<1>7. QED
  BY <1>2, <1>3, <1>4, <1>5, <1>6

(* The words land, in place or in the new cluster.                         *)
LEMMA WordsShow ==
    ASSUME Typed, WritesShow, NEW t \in Writers, WriteInPlace(t) \/ Fill(t)
    PROVE  ShowsOn(t)
<1> DEFINE r == reg[t]
           i == reg[t].at[1]
           j == reg[t].at[2]
<1>1. /\ Shows(Sight, pc[t], r) /\ r \in Local /\ LocalsGood(t) /\ dev \in Device
      /\ Chunk(r.range, r.at) \subseteq Word
      /\ r.map \in ClusterMap /\ imageLen \in 0 .. Clusters
  BY AtWork
<1>2. CASE WriteInPlace(t)
  <2>1. pc[t] = "inPlace" /\ r.map.case = "Plain"
    BY <1>1, <1>2 DEF WriteInPlace, LocalsGood, GoodAt
  <2>2. r.map.host \in Cluster
    BY <1>1, <2>1, PlacedInCluster DEF LocalsGood, GoodAt
  <2>3. Holds(dev'.data[r.map.host], r)
    <3>1. dev' = [dev EXCEPT !.data[r.map.host] = Spliced(@, r.range, r.at, r.val)]
      BY <1>2 DEF WriteInPlace
    <3>2. dev'.data[r.map.host] = Spliced(dev.data[r.map.host], r.range, r.at, r.val)
      BY <1>1, <2>2, <3>1 DEF Device
    <3>3. QED
      BY <1>1, <3>2 DEF Holds, Spliced
  <2>4. UNCHANGED <<l1, l2Cache>>
    BY <1>2 DEF WriteInPlace
  <2>5. ChunkShows(Sight', r)
    <3>1. Sight'.l1 = Sight.l1 /\ Sight'.cache = Sight.cache /\ Sight'.data = dev'.data
      BY <2>4 DEF Sight
    <3>2. /\ Sight.l1[i].at # None /\ Sight.cache # <<>> /\ Sight.cache[1] = i
          /\ Sight.cache[2][j].kind = "standard" /\ Sight.cache[2][j].at = r.map.host
      BY <1>1, <2>1 DEF Shows
    <3>3. EntrySeen(Sight', r.at) = Sight.cache[2][j]
      BY <3>1, <3>2 DEF EntrySeen
    <3>4. QED
      BY <2>2, <2>3, <3>1, <3>2, <3>3 DEF ChunkShows
  <2>6. CASE Leave(t)
    BY <2>6, Moves
  <2>7. CASE Go(t, "next") /\ UNCHANGED reg
    <3>1. pc'[t] = "next" /\ reg'[t] = r
      BY <2>7, Moves
    <3>2. QED
      BY <2>5, <3>1
        DEF ShowsOn, Shows, Filling, Carries, Pointed, Linked, Emptied, ReleaseSteps
  <2>8. QED
    BY <1>2, <2>6, <2>7 DEF WriteInPlace, WrittenTo
<1>3. CASE Fill(t)
  <2>1. pc[t] = "fill" /\ r.new \in Cluster
    BY <1>1, <1>3 DEF Fill, LocalsGood, GoodAt
  <2>2. dev'.data[r.new] = r.full
    BY <1>1, <1>3, <2>1 DEF Fill, Device
  <2>3. Holds(r.full, r)
    BY <1>1, <2>1 DEF Shows, Filling
  <2>4. Sight'.data = dev'.data
    BY DEF Sight
  <2>5. CASE Leave(t)
    BY <2>5, Moves
  <2>6. CASE Go(t, "fillFlush") /\ UNCHANGED reg
    <3>1. pc'[t] = "fillFlush" /\ reg'[t] = r
      BY <2>6, Moves
    <3>2. QED
      BY <2>1, <2>2, <2>3, <2>4, <3>1
        DEF ShowsOn, Shows, Filling, Carries, Pointed, Linked, Emptied, ReleaseSteps
  <2>7. QED
    BY <1>3, <2>5, <2>6 DEF Fill, WrittenTo
<1>4. QED
  BY <1>2, <1>3

(* The new cluster on its way into the table: no word of it changes.       *)
LEMMA CarryShows ==
    ASSUME Typed, Serial, WritesShow, NEW t \in Writers,
           \/ FlushFill(t) \/ Repoint(t) \/ Zero(t) \/ FlushZero(t) \/ CopyTable(t) \/ FlushCopy(t)
           \/ WriteL1(t) \/ FlushL1(t)
    PROVE  ShowsOn(t)
<1> DEFINE r == reg[t]
           i == reg[t].at[1]
<1>1. /\ Shows(Sight, pc[t], r) /\ r \in Local /\ LocalsGood(t) /\ dev \in Device /\ i \in L1Index
      /\ l1 \in [L1Index -> L1Entry]
  BY AtWork
<1>2. Carries(pc[t], r.why)
  BY DEF Carries, FlushFill, Repoint, Zero, FlushZero, CopyTable, FlushCopy, WriteL1, FlushL1
<1>3. r.new \in Cluster /\ Holds(Sight.data[r.new], r)
  BY <1>1, <1>2 DEF Shows
<1>4. ASSUME NEW step \in {"repoint", "zeroFlush", "copyFlush", "l1Write", "l1Flush"},
             pc'[t] = step, reg'[t] = r, Sight'.data = Sight.data
      PROVE  ShowsOn(t)
  BY <1>3, <1>4
    DEF ShowsOn, Shows, Filling, Carries, Pointed, Linked, Emptied, ReleaseSteps
<1>5. CASE FlushFill(t) \/ FlushZero(t) \/ FlushCopy(t)
  <2>1. UNCHANGED dev /\ reg'[t] = r /\ pc'[t] \in {"repoint", "l1Write"}
    BY <1>5, Moves DEF FlushFill, FlushZero, FlushCopy, FlushThen
  <2>2. QED
    BY <1>4, <2>1 DEF Sight
<1>6. CASE Zero(t) \/ CopyTable(t)
  <2>1. dev'.data = dev.data
    BY <1>1, <1>6 DEF Zero, CopyTable, Device
  <2>2. CASE Leave(t)
    BY <2>2, Moves
  <2>3. CASE (Go(t, "zeroFlush") \/ Go(t, "copyFlush")) /\ UNCHANGED reg
    BY <1>4, <2>1, <2>3, Moves DEF Sight
  <2>4. QED
    BY <1>6, <2>2, <2>3 DEF Zero, CopyTable, WrittenTo
<1>7. CASE WriteL1(t)
  <2>1. dev'.data = dev.data
    BY <1>1, <1>7 DEF WriteL1, Device
  <2>2. CASE Leave(t)
    BY <2>2, Moves
  <2>3. CASE Go(t, "l1Flush") /\ UNCHANGED reg
    BY <1>4, <2>1, <2>3, Moves DEF Sight
  <2>4. QED
    BY <1>7, <2>2, <2>3 DEF WriteL1
<1>8. CASE Repoint(t)
  <2> DEFINE entry == l1[i]
  <2>1. pc[t] = "repoint" /\ Sight' = Sight
    BY <1>8 DEF Repoint, Sight, memory
  <2>2. CASE /\ WhatTable(entry) = "own" /\ Set(t, [r EXCEPT !.table = entry.at])
             /\ Go(t, "entry")
    <3>1. entry.at # None
      BY <2>2 DEF WhatTable
    <3>2. entry.at \in Cluster
      BY <1>1, <2>1, <3>1, Numbers DEF Serial, Cluster, None
    <3>3. /\ reg'[t].at = r.at /\ reg'[t].range = r.range /\ reg'[t].val = r.val
          /\ reg'[t].new = r.new /\ reg'[t].table = l1[i].at /\ pc'[t] = "entry"
      BY <1>1, <2>2, Moves DEF Local
    <3>4. QED
      BY <1>3, <2>1, <3>2, <3>3
        DEF ShowsOn, Shows, Filling, Carries, Pointed, Linked, Emptied, ReleaseSteps, Holds, Sight
  <2>3. ASSUME NEW why, why # "data", Set(t, [r EXCEPT !.why = why, !.l1Entry = entry]),
               Go(t, "allocate")
        PROVE  ShowsOn(t)
    <3>1. /\ reg'[t].at = r.at /\ reg'[t].range = r.range /\ reg'[t].val = r.val
          /\ reg'[t].new = r.new /\ reg'[t].why = why /\ pc'[t] = "allocate"
      BY <1>1, <2>3, Moves DEF Local
    <3>2. QED
      BY <1>3, <2>1, <2>3, <3>1
        DEF ShowsOn, Shows, Filling, Carries, Pointed, Linked, Emptied, ReleaseSteps, Holds
  <2>4. WhatTable(entry) # "data"
    BY DEF WhatTable
  <2>5. QED
    BY <1>8, <2>2, <2>3, <2>4 DEF Repoint
<1>9. CASE FlushL1(t)
  <2>1. pc[t] = "l1Flush" /\ r.table \in Cluster
    BY <1>1, <1>9 DEF FlushL1, LocalsGood, GoodAt, TableSteps
  <2>2. /\ pc'[t] = IF r.why = "copy" THEN "release" ELSE "entry"
        /\ reg'[t] = r /\ UNCHANGED dev /\ l1'[i] = L1EntryFor(r.table)
    BY <1>1, <1>9, Moves DEF FlushL1
  <2>3. l1'[i].at = r.table /\ Sight'.l1 = l1' /\ Sight'.data = Sight.data
    BY <2>2 DEF L1EntryFor, Sight
  <2>4. QED
    BY <1>3, <2>1, <2>2, <2>3
      DEF ShowsOn, Shows, Filling, Carries, Pointed, Linked, Emptied, ReleaseSteps
<1>10. QED
  BY <1>5, <1>6, <1>7, <1>8, <1>9

(* With the cache empty, a lookup goes to the table, and finds the entry.  *)
LEMMA EmptiedShows ==
    ASSUME NEW s, NEW r, NEW step, Shows(s, step, r), Emptied(step, r.why)
    PROVE  ChunkShows(s, r)
<1>1. /\ Pointed(step, r.why) /\ Linked(step)
  BY DEF Emptied, Pointed, Linked
<1>2. /\ r.new \in Cluster /\ Holds(s.data[r.new], r) /\ s.cache = <<>>
      /\ r.table \in Cluster /\ s.l1[r.at[1]].at = r.table
      /\ s.table[r.table][r.at[2]] = L2EntryFor(r.new)
  BY <1>1 DEF Shows
<1>3. EntrySeen(s, r.at) = L2EntryFor(r.new)
  BY <1>2, Numbers DEF EntrySeen
<1>4. L2EntryFor(r.new).kind = "standard" /\ L2EntryFor(r.new).at = r.new
  BY DEF L2EntryFor, NoEntry
<1>5. QED
  BY <1>2, <1>3, <1>4 DEF ChunkShows

(* The entry, the caches and the release.                                  *)
LEMMA PublishShows ==
    ASSUME Typed, WritesShow, NEW t \in Writers,
           \/ WriteEntry(t) \/ FlushEntry(t) \/ ForgetL2(t) \/ ForgetData(t)
           \/ WriteRelease(t) \/ FlushRelease(t) \/ ReleaseFails(t)
    PROVE  ShowsOn(t)
<1> DEFINE r == reg[t]
           i == reg[t].at[1]
           j == reg[t].at[2]
<1>1. /\ Shows(Sight, pc[t], r) /\ r \in Local /\ dev \in Device /\ j \in L2Index
  BY AtWork
<1>2. /\ r.new \in Cluster /\ Holds(Sight.data[r.new], r)
      /\ r.table \in Cluster /\ Sight.l1[i].at = r.table
  <2>1. (Carries(pc[t], r.why) \/ Pointed(pc[t], r.why)) /\ Linked(pc[t])
    BY DEF Carries, Pointed, Linked, WriteEntry, FlushEntry, ForgetL2, ForgetData, WriteRelease,
           FlushRelease, ReleaseFails, ReleaseSteps
  <2>2. QED
    BY <1>1, <2>1 DEF Shows
<1>3. CASE WriteEntry(t)
  <2>1. /\ dev'.data = dev.data /\ dev'.table[r.table][j] = L2EntryFor(r.new) /\ UNCHANGED l1
    BY <1>1, <1>2, <1>3 DEF WriteEntry, Device, memory
  <2>2. /\ Sight'.data = Sight.data /\ Sight'.table[r.table][j] = L2EntryFor(r.new)
        /\ Sight'.l1 = Sight.l1
    BY <2>1 DEF Sight
  <2>3. CASE Leave(t)
    BY <2>3, Moves
  <2>4. CASE Go(t, "entryFlush") /\ UNCHANGED reg
    <3>1. pc'[t] = "entryFlush" /\ reg'[t] = r
      BY <2>4, Moves
    <3>2. QED
      BY <1>2, <2>2, <3>1
        DEF ShowsOn, Shows, Filling, Carries, Pointed, Linked, Emptied, ReleaseSteps
  <2>5. QED
    BY <1>3, <2>3, <2>4 DEF WriteEntry, Written, WrittenTo
<1>4. CASE FlushEntry(t)
  <2>1. pc[t] = "entryFlush" /\ pc'[t] = "forgetL2" /\ reg'[t] = r /\ Sight' = Sight
    BY <1>4, Moves DEF FlushEntry, FlushThen, Sight, memory
  <2>2. QED
    BY <1>1, <1>2, <2>1
      DEF ShowsOn, Shows, Filling, Carries, Pointed, Linked, Emptied, ReleaseSteps
<1>5. CASE ForgetL2(t)
  <2>1. pc[t] = "forgetL2" /\ pc'[t] = "forgetData" /\ reg'[t] = r
    BY <1>5, Moves DEF ForgetL2
  <2>2. /\ Sight'.data = Sight.data /\ Sight'.table = Sight.table /\ Sight'.l1 = Sight.l1
        /\ Sight'.cache = <<>>
    BY <1>5 DEF ForgetL2, AfterEntry, Sight
  <2>3. Sight.table[r.table][j] = L2EntryFor(r.new)
    BY <1>1, <2>1 DEF Shows, Pointed
  <2>4. QED
    BY <1>2, <2>1, <2>2, <2>3
      DEF ShowsOn, Shows, Filling, Carries, Pointed, Linked, Emptied, ReleaseSteps
<1>6. CASE ForgetData(t)
  <2>1. /\ pc[t] = "forgetData" /\ pc'[t] = IF r.old = None THEN "next" ELSE "release"
        /\ Sight' = Sight
    BY <1>6, Moves DEF ForgetData, Sight
  <2>2. /\ reg'[t].at = r.at /\ reg'[t].range = r.range /\ reg'[t].val = r.val
        /\ reg'[t].new = r.new /\ reg'[t].table = r.table /\ reg'[t].why = "release"
    BY <1>1, <1>6, Moves DEF ForgetData, Local
  <2>3. ChunkShows(Sight, r)
    BY <1>1, <2>1, EmptiedShows DEF Emptied
  <2>4. CASE r.old = None
    BY <2>1, <2>2, <2>3, <2>4
      DEF ShowsOn, Shows, Filling, Carries, Pointed, Linked, Emptied, ReleaseSteps, ChunkShows, Holds
  <2>5. CASE r.old # None
    <3>1. Sight.cache = <<>> /\ Sight.table[r.table][j] = L2EntryFor(r.new)
      BY <1>1, <2>1 DEF Shows, Pointed, Emptied
    <3>2. QED
      BY <1>2, <2>1, <2>2, <2>5, <3>1
        DEF ShowsOn, Shows, Filling, Carries, Pointed, Linked, Emptied, ReleaseSteps, Holds
  <2>6. QED
    BY <2>4, <2>5
<1>7. CASE WriteRelease(t) \/ FlushRelease(t) \/ ReleaseFails(t)
  <2>1. /\ pc[t] \in ReleaseSteps /\ reg'[t] = r
        /\ pc'[t] \in {"releaseFlush", IF r.why = "copy" THEN "entry" ELSE "next"}
    BY <1>7, Moves
      DEF WriteRelease, FlushRelease, FlushThen, ReleaseFails, ReleaseSteps, AfterRelease
  <2>2. Sight' = Sight
    BY <1>1, <1>7
      DEF WriteRelease, FlushRelease, FlushThen, ReleaseFails, Sight, Device, memory
  <2>3. r.why # "copy" => ChunkShows(Sight, r)
    BY <1>1, <2>1, EmptiedShows DEF Emptied
  <2>4. r.why # "copy" => Sight.cache = <<>> /\ Sight.table[r.table][j] = L2EntryFor(r.new)
    BY <1>1, <2>1 DEF Shows, Pointed, Emptied
  <2>5. QED
    BY <1>2, <2>1, <2>2, <2>3, <2>4
      DEF ShowsOn, Shows, Filling, Carries, Pointed, Linked, Emptied, ReleaseSteps
<1>8. QED
  BY <1>3, <1>4, <1>5, <1>6, <1>7

(* While a writer works, the others wait for the lock.                     *)
LEMMA WriterShows ==
    ASSUME Typed, Serial, WritesShow, NEW t \in Writers,
           Lookup(t) \/ DeviceError(t) \/ WriteStep(t)
    PROVE  WritesShow'
<1>1. t \in Threads /\ \A u \in Threads : u # t => pc'[u] = pc[u] /\ reg'[u] = reg[u]
  BY OnlyOne, TypedParts
<1>2. CASE TakeWriteLock(t)
  <2>1. pc'[t] \in Early /\ Sight' = Sight
    BY <1>2, Moves DEF TakeWriteLock, Early, Sight, memory
  <2>2. ASSUME NEW u \in Writers PROVE Shows(Sight', pc'[u], reg'[u])
    BY <1>1, <2>1, EarlyShows, TypedParts DEF WritesShow
  <2>3. QED
    BY <2>2 DEF WritesShow
<1>3. CASE ~TakeWriteLock(t)
  <2>1. pc[t] \notin {"idle", "lock"}
    BY <1>3 DEF Lookup, LookupL1, LookupL2, Undecodable, DeviceError, WriteSteps, FlushSteps,
                WriteStep, PlanInPlace, PlanReallocate, WriteInPlace, Allocate, NoRoom,
                FlushAllocate, Fill, FlushFill, Repoint, Zero, FlushZero, CopyTable, FlushCopy,
                WriteL1, FlushL1, WriteEntry, FlushEntry, ForgetL2, ForgetData, WriteRelease,
                FlushRelease, ReleaseFails, ReleaseSteps, NextChunk, EndWrite
  <2>2. ASSUME NEW u \in Writers, u # t PROVE Shows(Sight', pc'[u], reg'[u])
    <3>1. pc[u] \in Early
      BY <2>1, <2>2 DEF Serial, Early
    <3>2. QED
      BY <1>1, <2>2, <3>1, EarlyShows, TypedParts
  <2>3. CASE NextChunk(t) \/ EndWrite(t)
    <3>1. NextChunk(t) => pc'[t] \in Early
      BY Moves DEF NextChunk, Early
    <3>2. ShowsOn(t)
      BY <2>3, <3>1, EarlyShows, Moves DEF ShowsOn, EndWrite
    <3>3. QED
      BY <2>2, <3>2 DEF WritesShow, ShowsOn
  <2>4. CASE ~NextChunk(t) /\ ~EndWrite(t)
    <3>1. ShowsOn(t)
      BY <1>3, <2>4, LookupShows, PlanShows, WordsShow, CarryShows, PublishShows DEF WriteStep
    <3>2. QED
      BY <2>2, <3>1 DEF WritesShow, ShowsOn
  <2>5. QED
    BY <2>3, <2>4
<1>4. QED
  BY <1>2, <1>3

LEMMA WritesShowNext ==
    ASSUME Readers = {}, Typed, Serial, WritesShow, [Next]_vars
    PROVE  WritesShow'
<1>1. CASE \E t \in Threads : Lookup(t) \/ DeviceError(t)
  BY <1>1, WriterShows DEF Threads
<1>2. CASE \E t \in Writers : WriteStep(t)
  BY <1>2, WriterShows
<1>3. CASE \E t \in Writers : StartWrite(t)
  <2>1. PICK t \in Writers : StartWrite(t)
    BY <1>3
  <2>2. pc'[t] \in Early /\ Sight' = Sight
    BY <2>1, Moves DEF StartWrite, Early, Sight, memory
  <2>3. \A u \in Threads : u # t => pc'[u] = pc[u] /\ reg'[u] = reg[u]
    BY <2>1, OnlyOne, TypedParts
  <2>4. ASSUME NEW u \in Writers PROVE Shows(Sight', pc'[u], reg'[u])
    BY <2>2, <2>3, EarlyShows, TypedParts DEF WritesShow
  <2>5. QED
    BY <2>4 DEF WritesShow
<1>4. CASE Flush \/ UNCHANGED vars
  BY <1>4 DEF Flush, WritesShow, Sight, vars, memory
<1>5. CASE Crash
  <2>1. \A t \in Writers : pc'[t] \in Early
    BY <1>5, TypedParts DEF Crash, Idle, Early
  <2>2. QED
    BY <2>1, EarlyShows DEF WritesShow
<1>6. QED
  BY <1>1, <1>2, <1>3, <1>4, <1>5 DEF Next

(* When a writer without readers beside it is done with a chunk of         *)
(* write_at, whatever failed before and however often power was lost, a    *)
(* lookup that starts then finds the new words through the caches.  (A     *)
(* reader can put a superseded table back into the L2 cache.)              *)
THEOREM WritesAreVisible ==
    ASSUME Readers = {}
    PROVE  Spec => []WriteIsVisible
<1>1. Init => WritesShow
  <2>1. Init /\ Typed => \A t \in Writers : pc[t] \in Early
    BY TypedParts DEF Init, Idle, Early
  <2>2. QED
    BY <2>1, InitTyped, EarlyShows DEF WritesShow
<1>2. Typed /\ WritesShow => WriteIsVisible
  <2> SUFFICES ASSUME Typed, WritesShow, NEW t \in Writers, pc[t] = "next",
                      NEW w \in Chunk(reg[t].range, reg[t].at)
               PROVE  Visible(reg[t].at)[w] = reg[t].val
    BY DEF WriteIsVisible
  <2> DEFINE v == reg[t].at
             e == EntrySeen(Sight, v)
  <2>1. e.kind = "standard" /\ e.at \in Cluster /\ dev.data[e.at][w] = reg[t].val
    <3>1. ChunkShows(Sight, reg[t])
      BY AtWork DEF Shows
    <3>2. QED
      BY <3>1 DEF ChunkShows, Holds, Sight
  <2>2. e = IF l1[v[1]].at = None THEN NoEntry ELSE Cached(v[1], l1[v[1]].at)[2][v[2]]
    BY DEF EntrySeen, Sight, Cached
  <2>3. MapOf(e, FALSE).case = "Plain" /\ MapOf(e, FALSE).host = e.at
    BY <2>1, Numbers DEF MapOf
  <2>4. Visible(v) = ClusterWords(dev.data, img.backing, v, MapOf(e, FALSE))
    BY <2>2, <2>3 DEF Visible
  <2>5. QED
    BY <2>1, <2>3, <2>4 DEF ClusterWords
<1>3. Typed /\ Serial /\ WritesShow /\ [Next]_vars => WritesShow'
  BY WritesShowNext
<1>4. QED
  BY <1>1, <1>2, <1>3, AlwaysTyped, PTL DEF Spec
=============================================================================
