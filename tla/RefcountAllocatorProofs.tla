----------------------- MODULE RefcountAllocatorProofs -----------------------
(***************************************************************************)
(* RefcountAllocator for every table size, block size, image, and number   *)
(* of failures and crashes: it stays well typed, and no order of steps,    *)
(* failures and crashes leaves a reference or a refcount block uncounted.  *)
(***************************************************************************)
EXTENDS RefcountAllocator, TLAPS

(* The numbers the model is built on.                                      *)
LEMMA Numbers ==
    /\ 0 \in Slot /\ 0 \in Entry /\ 1 \in Entry
    /\ Header \in Cluster /\ NoBlock \in Cluster /\ Header \in Position
  BY GeometryAssumption
    DEF Slot, Entry, Cluster, Header, NoBlock, Position

LEMMA PairIsCluster ==
    ASSUME NEW s \in Slot, NEW e \in Entry
    PROVE  <<s, e>> \in Cluster
  BY DEF Cluster

LEMMA ClusterIsPair ==
    ASSUME NEW c \in Cluster
    PROVE  c[1] \in Slot /\ c[2] \in Entry /\ c = <<c[1], c[2]>>
  BY DEF Cluster

(* The cursor moves from a cluster to a position.                          *)
LEMMA AfterIsPosition ==
    ASSUME NEW c \in Cluster
    PROVE  c \in Position /\ After(c) \in Position
  BY GeometryAssumption DEF Cluster, Slot, Entry, Position, After

(* Every image is well formed, so the initial state is well typed.         *)
LEMMA InitTyped == Init => TypeOK
<1> SUFFICES ASSUME Init PROVE TypeOK
  OBVIOUS
<1>1. PICK im \in Images :
        /\ rt = im.rt /\ block = im.block /\ len = im.len
        /\ rtD = im.rt /\ blockD = im.block /\ lenD = im.len
        /\ held = im.held
  BY DEF Init
<1>2. WellFormed(im)
  BY ImagesAssumption
<1>3. /\ rt \in [Slot -> Cluster] /\ rtD \in [Slot -> Cluster]
      /\ block \in [Cluster -> [Entry -> Nat]]
      /\ blockD \in [Cluster -> [Entry -> Nat]]
      /\ held \in [Cluster -> Nat]
      /\ len \in Position /\ lenD \in Position
  BY <1>1, <1>2 DEF WellFormed
<1>4. faults \in 0 .. MaxFaults /\ crashes \in 0 .. MaxCrashes
  BY GeometryAssumption DEF Init
<1>5. resident \in [Slot -> Cluster] /\ cursor \in Position /\ target \in Cluster
  BY Numbers DEF Init
<1>6. QED
  BY <1>3, <1>4, <1>5 DEF Init, TypeOK, Steps

LEMMA StepTyped == TypeOK /\ [Next]_vars => TypeOK'
<1> SUFFICES ASSUME TypeOK, [Next]_vars PROVE TypeOK'
  OBVIOUS
<1>0. /\ target[1] \in Slot /\ target[2] \in Entry
      /\ target \in Position /\ After(target) \in Position
      /\ BlockOf(target) \in Cluster
  BY ClusterIsPair, AfterIsPosition, PairIsCluster, Numbers DEF TypeOK, BlockOf
<1>f. Fault => faults' \in 0 .. MaxFaults
  BY GeometryAssumption DEF Fault, TypeOK
<1>c. CountIn(rt, block, target) > 0 =>
        block[rt[target[1]]][target[2]] - 1 \in Nat
  BY <1>0 DEF CountIn, TypeOK
<1>1. CASE BeginAllocate
  BY <1>1 DEF TypeOK, BeginAllocate, Go, Steps, device, durable
<1>2. CASE FoundFree
  <2>1. PICK c \in Cluster : GrowFor(c) /\ target' = c
    BY <1>2 DEF FoundFree
  <2>2. len' \in Position
    BY <2>1, AfterIsPosition DEF GrowFor, TypeOK
  <2>3. QED
    BY <1>2, <2>1, <2>2 DEF TypeOK, FoundFree, Steps, durable, memory
<1>3. CASE FoundAbsent
  <2>1. PICK s \in Slot : GrowFor(CallerIn(s)) /\ target' = CallerIn(s)
    BY <1>3 DEF FoundAbsent
  <2>2. CallerIn(s) \in Cluster
    BY PairIsCluster, Numbers DEF CallerIn
  <2>3. len' \in Position
    BY <2>1, <2>2, AfterIsPosition DEF GrowFor, TypeOK
  <2>4. QED
    BY <1>3, <2>1, <2>2, <2>3 DEF TypeOK, FoundAbsent, Steps, durable, memory
<1>4. CASE Refuse
  BY <1>4 DEF TypeOK, Refuse, Go, Steps, device, durable, memory
<1>5. CASE WriteCount
  BY <1>5, <1>f DEF TypeOK, WriteCount, WrittenThen, Go, Fail, Steps, durable, memory
<1>6. CASE FlushCount
  BY <1>6, <1>0 DEF TypeOK, FlushCount, Return, Flushed, Go, Steps, device
<1>7. CASE WriteBlock
  <2>1. NewBlock \in [Entry -> Nat]
    BY DEF NewBlock
  <2>2. QED
    BY <1>7, <1>0, <1>f, <2>1
      DEF TypeOK, WriteBlock, WrittenThen, Go, Fail, Steps, durable, memory
<1>8. CASE FlushBlock
  BY <1>8 DEF TypeOK, FlushBlock, Flushed, Go, Steps, device, memory
<1>9. CASE Publish
  BY <1>9, <1>0, <1>f DEF TypeOK, Publish, Go, Fail, Steps, durable
<1>10. CASE FlushPublish
  BY <1>10, <1>0 DEF TypeOK, FlushPublish, Return, Flushed, Go, Steps, device
<1>11. CASE BeginDrop
  BY <1>11 DEF TypeOK, BeginDrop, Steps, device, durable, memory
<1>12. CASE WriteDrop
  BY <1>12, <1>c, <1>f
    DEF TypeOK, WriteDrop, WrittenThen, Go, Fail, Steps, durable, memory
<1>13. CASE FlushDrop
  BY <1>13, <1>0 DEF TypeOK, FlushDrop, CursorAfterDrop, Flushed, Go, Steps, device
<1>14. CASE DeviceError
  BY <1>14, <1>f DEF TypeOK, DeviceError, Fail, Steps, device, durable, memory
<1>15. CASE FlushError
  BY <1>15, <1>f DEF TypeOK, FlushError, Fail, Steps, device, durable, memory
<1>16. CASE Writeback
  <2>1. rtD' \in [Slot -> Cluster]
    BY <1>16 DEF TypeOK, Writeback
  <2>2. blockD' \in [Cluster -> [Entry -> Nat]]
    BY <1>16 DEF TypeOK, Writeback
  <2>3. lenD' \in Position
    BY <1>16 DEF TypeOK, Writeback
  <2>4. QED
    BY <1>16, <2>1, <2>2, <2>3 DEF TypeOK, Writeback, device, memory
<1>17. CASE Crash
  <2>1. crashes' \in 0 .. MaxCrashes
    BY <1>17, GeometryAssumption DEF Crash, TypeOK
  <2>2. QED
    BY <1>17, <2>1, Numbers DEF TypeOK, Crash, Steps, durable
<1>18. CASE UNCHANGED vars
  BY <1>18 DEF TypeOK, vars, device, durable, memory
<1>19. QED
  BY <1>1, <1>2, <1>3, <1>4, <1>5, <1>6, <1>7, <1>8, <1>9, <1>10, <1>11, <1>12,
     <1>13, <1>14, <1>15, <1>16, <1>17, <1>18
    DEF Next, AllocateStep, DropStep

(* The allocator's state always has its type (its device, resident table,  *)
(* cursor and history), whatever fails and whenever power is lost.         *)
THEOREM TypeCorrect == Spec => []TypeOK
<1>1. Init => TypeOK
  BY InitTyped
<1>2. TypeOK /\ [Next]_vars => TypeOK'
  BY StepTyped
<1>3. QED
  BY <1>1, <1>2, PTL DEF Spec

-----------------------------------------------------------------------------
(* The counts.  Writing one entry of a present block changes the count of  *)
(* one cluster, since no two slots share a block.                          *)
LEMMA EntryWritten ==
    ASSUME TypeOK, TableOK,
           NEW t \in Cluster, rt[t[1]] # NoBlock, NEW n \in Nat,
           NEW c \in Cluster
    PROVE  CountIn(rt, [block EXCEPT ![rt[t[1]]][t[2]] = n], c)
             = IF c = t THEN n ELSE CountIn(rt, block, c)
<1>1. /\ t[1] \in Slot /\ t[2] \in Entry /\ t = <<t[1], t[2]>>
      /\ c[1] \in Slot /\ c[2] \in Entry /\ c = <<c[1], c[2]>>
  BY ClusterIsPair
<1>2. CASE c[1] = t[1]
  BY <1>1, <1>2 DEF CountIn, TypeOK
<1>3. CASE c[1] # t[1]
  <2>1. rt[c[1]] # rt[t[1]]
    BY <1>1, <1>3 DEF TableOK
  <2>2. QED
    BY <1>1, <1>3, <2>1 DEF CountIn, TypeOK
<1>4. QED
  BY <1>2, <1>3

(* Writing a block that only slot s may name, and naming it there, leaves  *)
(* the counts of the other slots' clusters alone.                          *)
LEMMA BlockWritten ==
    ASSUME TypeOK, NEW s \in Slot, MayTake(s),
           NEW new \in [Entry -> Nat],
           NEW c \in Cluster, c[1] # s
    PROVE  CountIn(rt, [block EXCEPT ![<<s, 0>>] = new], c) = CountIn(rt, block, c)
<1>1. <<s, 0>> \in Cluster /\ c[1] \in Slot
  BY PairIsCluster, ClusterIsPair, Numbers
<1>2. rt[c[1]] # <<s, 0>>
  BY <1>1 DEF MayTake
<1>3. QED
  BY <1>1, <1>2 DEF CountIn, TypeOK

LEMMA SlotNamed ==
    ASSUME TypeOK, NEW s \in Slot, NEW b \in Cluster,
           NEW c \in Cluster, c[1] # s
    PROVE  CountIn([rt EXCEPT ![s] = b], block, c) = CountIn(rt, block, c)
  BY ClusterIsPair DEF CountIn, TypeOK

LEMMA CountIsNat ==
    ASSUME TypeOK, NEW c \in Cluster
    PROVE  CountIn(rt, block, c) \in Nat /\ CountIn(rtD, blockD, c) \in Nat
  BY ClusterIsPair, Numbers DEF CountIn, TypeOK

(* A block present on the durable table is the device's block of the slot. *)
LEMMA DurableBlock ==
    ASSUME TypeOK, DurableFollows, NEW s \in Slot, rtD[s] # NoBlock
    PROVE  rt[s] = rtD[s]
  BY DEF DurableFollows

LEMMA DurableMetadata ==
    ASSUME TypeOK, DurableFollows
    PROVE  Metadata(rtD) \subseteq Metadata(rt) /\ Blocks(rtD) \subseteq Blocks(rt)
<1>1. \A s \in Slot : rtD[s] # Header => rtD[s] = rt[s]
  BY DurableBlock DEF NoBlock
<1>2. Metadata(rtD) \subseteq Metadata(rt)
  BY <1>1 DEF Metadata
<1>3. QED
  BY <1>2 DEF Blocks

LEMMA MetadataIsCluster ==
    ASSUME TypeOK
    PROVE  Metadata(rt) \subseteq Cluster /\ Metadata(rtD) \subseteq Cluster
  BY Numbers DEF Metadata, TypeOK

(* An image that is well formed gives every step what it relies on.        *)
LEMMA InitInductive == Init => Inductive
<1> SUFFICES ASSUME Init PROVE Inductive
  OBVIOUS
<1>1. PICK im \in Images :
        /\ rt = im.rt /\ block = im.block /\ len = im.len
        /\ rtD = im.rt /\ blockD = im.block /\ lenD = im.len
        /\ held = im.held
  BY DEF Init
<1>2. WellFormed(im)
  BY ImagesAssumption
<1>3. TableOK /\ DurableFollows
  BY <1>1, <1>2 DEF WellFormed, TableOK, DurableFollows
<1>4. HeldIsCounted
  BY <1>1, <1>2 DEF WellFormed, HeldIsCounted
<1>5. MetadataIsCounted
  BY <1>1, <1>2 DEF WellFormed, MetadataIsCounted
<1>6. ResidentFollows /\ CallKnows
  BY DEF Init, ResidentFollows, CallKnows
<1>7. QED
  BY <1>3, <1>4, <1>5, <1>6 DEF Inductive

(* Steps that leave the device, the durable copy and the holders alone     *)
(* need only keep the resident table and what the call knows.              *)
LEMMA DeviceUntouched ==
    ASSUME Inductive, UNCHANGED <<device, durable, held>>
    PROVE  TableOK' /\ DurableFollows' /\ HeldIsCounted' /\ MetadataIsCounted'
<1>1. TableOK'
  BY DEF Inductive, TableOK, device
<1>2. DurableFollows'
  BY DEF Inductive, DurableFollows, device, durable
<1>3. HeldIsCounted'
  BY DEF Inductive, HeldIsCounted, CountIn, device, durable
<1>4. MetadataIsCounted'
  BY DEF Inductive, MetadataIsCounted, Blocks, Metadata, CountIn, device, durable
<1>5. QED
  BY <1>1, <1>2, <1>3, <1>4

LEMMA ResidentUntouched ==
    ASSUME Inductive, UNCHANGED <<rt, held, loaded, resident>>
    PROVE  ResidentFollows'
  BY DEF Inductive, ResidentFollows, MayTake

(* A flush makes the durable copy the device's own.                        *)
LEMMA FlushIsSafe ==
    ASSUME TypeOK, Inductive, Flushed, UNCHANGED <<rt, block>>,
           \A c \in Cluster : held'[c] <= CountIn(rt, block, c),
           \A c \in Metadata(rt) : held'[c] = 0
    PROVE  TableOK' /\ DurableFollows' /\ HeldIsCounted' /\ MetadataIsCounted'
<1>1. TableOK'
  BY DEF Inductive, TableOK
<1>2. DurableFollows'
  BY <1>1 DEF TableOK, DurableFollows, Flushed
<1>3. HeldIsCounted'
  BY DEF HeldIsCounted, CountIn, Flushed
<1>4. MetadataIsCounted'
  BY DEF Inductive, MetadataIsCounted, Blocks, Metadata, CountIn, Flushed
<1>5. QED
  BY <1>1, <1>2, <1>3, <1>4

-----------------------------------------------------------------------------
(* Each action preserves the inductive invariant.                          *)

(* The first allocation reads the table: an absent slot counts nothing, so *)
(* nobody holds what it governs and no counted block lies there.           *)
LEMMA BeginAllocateKeeps == TypeOK /\ Inductive /\ BeginAllocate => Inductive'
<1> SUFFICES ASSUME TypeOK, Inductive, BeginAllocate PROVE Inductive'
  OBVIOUS
<1>1. TableOK' /\ DurableFollows' /\ HeldIsCounted' /\ MetadataIsCounted'
  <2>1. UNCHANGED <<device, durable, held>>
    BY DEF BeginAllocate
  <2>2. QED
    BY <2>1, DeviceUntouched
<1>2. UNCHANGED <<rt, held>>
  BY DEF BeginAllocate, device
<1>3. ASSUME ~loaded PROVE ResidentFollows'
  <2>1. resident' = rt
    BY <1>3 DEF BeginAllocate
  <2>2. ASSUME NEW s \in Slot, rt[s] = NoBlock PROVE MayTake(s)
    <3>1. \A c \in Cluster : c[1] = s => CountIn(rt, block, c) = 0
      BY <2>2 DEF CountIn
    <3>2. \A e \in Entry : held[<<s, e>>] = 0
      <4>1. TAKE e \in Entry
      <4>2. <<s, e>> \in Cluster /\ <<s, e>>[1] = s
        BY PairIsCluster
      <4>3. held[<<s, e>>] <= 0
        BY <3>1, <4>2 DEF Inductive, HeldIsCounted
      <4>4. held[<<s, e>>] \in Nat
        BY <4>2 DEF TypeOK
      <4>5. QED
        BY <4>3, <4>4
    <3>3. ASSUME NEW r \in Slot \ {s} PROVE rt[r][1] # s
      <4>1. CASE rt[r] = NoBlock
        <5>1. rt[0] # NoBlock
          BY DEF Inductive, TableOK
        <5>2. QED
          BY <4>1, <5>1, <2>2 DEF NoBlock, Header
      <4>2. CASE rt[r] # NoBlock
        <5>1. rt[r] \in Blocks(rt)
          BY <4>2 DEF Blocks, Metadata, NoBlock
        <5>2. CountIn(rt, block, rt[r]) > 0
          BY <5>1 DEF Inductive, MetadataIsCounted
        <5>3. rt[r] \in Cluster
          BY DEF TypeOK
        <5>4. QED
          BY <3>1, <5>2, <5>3
      <4>3. QED
        BY <4>1, <4>2
    <3>4. QED
      BY <2>2, <3>2, <3>3 DEF MayTake
  <2>3. QED
    BY <1>2, <2>1, <2>2 DEF ResidentFollows, MayTake
<1>4. ASSUME loaded PROVE ResidentFollows'
  BY <1>2, <1>4 DEF Inductive, ResidentFollows, MayTake, BeginAllocate
<1>5. CallKnows'
  BY DEF BeginAllocate, Go, CallKnows
<1>6. QED
  BY <1>1, <1>3, <1>4, <1>5 DEF Inductive

LEMMA FoundFreeKeeps == TypeOK /\ Inductive /\ FoundFree => Inductive'
<1> SUFFICES ASSUME TypeOK, Inductive, FoundFree PROVE Inductive'
  OBVIOUS
<1>1. UNCHANGED <<rt, block, durable, loaded, resident, held>>
  BY DEF FoundFree, memory
<1>2. TableOK' /\ DurableFollows'
  BY <1>1 DEF Inductive, TableOK, DurableFollows, durable
<1>3. HeldIsCounted' /\ MetadataIsCounted'
  BY <1>1 DEF Inductive, HeldIsCounted, MetadataIsCounted, Blocks, Metadata, CountIn,
              durable
<1>4. ResidentFollows'
  BY <1>1, ResidentUntouched
<1>5. CallKnows'
  BY <1>1 DEF Inductive, CallKnows, FoundFree, FirstFree, Free
<1>6. QED
  BY <1>2, <1>3, <1>4, <1>5 DEF Inductive

LEMMA FoundAbsentKeeps == TypeOK /\ Inductive /\ FoundAbsent => Inductive'
<1> SUFFICES ASSUME TypeOK, Inductive, FoundAbsent PROVE Inductive'
  OBVIOUS
<1>1. UNCHANGED <<rt, block, durable, loaded, resident, held>>
  BY DEF FoundAbsent, memory
<1>2. TableOK' /\ DurableFollows'
  BY <1>1 DEF Inductive, TableOK, DurableFollows, durable
<1>3. HeldIsCounted' /\ MetadataIsCounted'
  BY <1>1 DEF Inductive, HeldIsCounted, MetadataIsCounted, Blocks, Metadata, CountIn,
              durable
<1>4. ResidentFollows'
  BY <1>1, ResidentUntouched
<1>5. CallKnows'
  BY <1>1 DEF Inductive, CallKnows, FoundAbsent, FirstAbsent, CallerIn, TargetInNewSlot
<1>6. QED
  BY <1>2, <1>3, <1>4, <1>5 DEF Inductive

(* The count is written: the target, until now counted by nobody, is       *)
(* neither a caller's nor a block.                                         *)
LEMMA WriteCountKeeps == TypeOK /\ Inductive /\ WriteCount => Inductive'
<1> SUFFICES ASSUME TypeOK, Inductive, WriteCount PROVE Inductive'
  OBVIOUS
<1>1. /\ target \in Cluster /\ target[1] \in Slot /\ target[2] \in Entry
      /\ held[target] \in Nat
  BY ClusterIsPair DEF TypeOK
<1>2. /\ loaded
      /\ resident[target[1]] # NoBlock
      /\ block[resident[target[1]]][target[2]] = 0
      /\ target # Header
  BY DEF Inductive, CallKnows, WriteCount
<1>3. rt[target[1]] = resident[target[1]]
  BY <1>1, <1>2 DEF Inductive, ResidentFollows
<1>4. CountIn(rt, block, target) = 0
  BY <1>2, <1>3 DEF CountIn
<1>5. TargetIsFresh
  <2>1. held[target] = 0
    BY <1>1, <1>4 DEF Inductive, HeldIsCounted
  <2>2. target \notin Metadata(rt)
    BY <1>2, <1>4 DEF Inductive, MetadataIsCounted, Blocks
  <2>3. QED
    BY <2>1, <2>2 DEF TargetIsFresh
<1>6. /\ block' = [block EXCEPT ![rt[target[1]]][target[2]] = 1]
      /\ UNCHANGED <<rt, rtD, blockD, loaded, resident, held, target>>
      /\ pc' \in {"countFlush", "idle"}
  BY <1>3 DEF WriteCount, WrittenThen, Go, Fail, durable, memory
<1>7. \A c \in Cluster :
        CountIn(rt, block', c) = IF c = target THEN 1 ELSE CountIn(rt, block, c)
  <2>1. TableOK /\ rt[target[1]] # NoBlock /\ 1 \in Nat
    BY <1>2, <1>3 DEF Inductive
  <2>2. ASSUME NEW c \in Cluster
        PROVE  CountIn(rt, [block EXCEPT ![rt[target[1]]][target[2]] = 1], c)
                 = IF c = target THEN 1 ELSE CountIn(rt, block, c)
    BY <1>1, <2>1, EntryWritten
  <2>3. QED
    BY <1>6, <2>2
<1>8. TableOK' /\ DurableFollows'
  BY <1>6 DEF Inductive, TableOK, DurableFollows
<1>9. HeldIsCounted'
  <2>1. \A c \in Cluster : held[c] <= CountIn(rt, block', c)
    BY <1>1, <1>5, <1>7 DEF Inductive, HeldIsCounted, TargetIsFresh
  <2>2. QED
    BY <1>6, <2>1 DEF Inductive, HeldIsCounted, CountIn
<1>10. MetadataIsCounted'
  <2>1. \A c \in Blocks(rt) : CountIn(rt, block', c) > 0
    BY <1>7, MetadataIsCluster DEF Inductive, MetadataIsCounted, Blocks
  <2>2. QED
    BY <1>6, <2>1 DEF Inductive, MetadataIsCounted, Blocks, Metadata, CountIn
<1>11. ResidentFollows'
  BY <1>6, ResidentUntouched
<1>12. CallKnows'
  <2>1. TargetIsFresh'
    BY <1>5, <1>6 DEF TargetIsFresh, Metadata
  <2>2. CountIn(rt, block, target)' = 1
    BY <1>1, <1>6, <1>7 DEF CountIn
  <2>3. QED
    BY <1>2, <1>6, <2>1, <2>2 DEF CallKnows
<1>13. QED
  BY <1>8, <1>9, <1>10, <1>11, <1>12 DEF Inductive

(* A call returns its target, fresh and counted once, to the caller.       *)
LEMMA ReturnKeeps ==
    ASSUME TypeOK, Inductive, Return, UNCHANGED <<device, loaded, resident>>,
           resident[target[1]] # NoBlock, loaded,
           CountIn(rt, block, target) = 1, TargetIsFresh
    PROVE  Inductive'
<1>1. target \in Cluster /\ target[1] \in Slot
  BY ClusterIsPair DEF TypeOK
<1>2. held' = [held EXCEPT ![target] = 1]
  BY <1>1 DEF Return, TargetIsFresh, TypeOK
<1>3. \A c \in Cluster : held'[c] = IF c = target THEN 1 ELSE held[c]
  BY <1>1, <1>2 DEF TypeOK
<1>4. \A c \in Cluster : held'[c] <= CountIn(rt, block, c)
  BY <1>3 DEF Inductive, HeldIsCounted
<1>5. \A c \in Metadata(rt) : held'[c] = 0
  BY <1>3, MetadataIsCluster DEF Inductive, MetadataIsCounted, TargetIsFresh
<1>6. UNCHANGED <<rt, block>> /\ Flushed
  BY DEF device, Return
<1>7. TableOK' /\ DurableFollows' /\ HeldIsCounted' /\ MetadataIsCounted'
  BY <1>4, <1>5, <1>6, FlushIsSafe
<1>8. ResidentFollows'
  <2>1. ASSUME NEW s \in Slot, resident[s] = NoBlock PROVE MayTake(s)'
    <3>1. s # target[1]
      BY <2>1
    <3>2. MayTake(s)
      BY <2>1 DEF Inductive, ResidentFollows
    <3>3. \A e \in Entry : held'[<<s, e>>] = 0
      <4>1. TAKE e \in Entry
      <4>2. <<s, e>> \in Cluster /\ <<s, e>> # target
        BY <3>1, PairIsCluster
      <4>3. QED
        BY <1>3, <3>2, <4>2 DEF MayTake
    <3>4. QED
      BY <1>6, <3>2, <3>3 DEF MayTake
  <2>2. QED
    BY <1>6, <2>1 DEF Inductive, ResidentFollows
<1>9. CallKnows'
  BY DEF Return, Go, CallKnows
<1>10. QED
  BY <1>7, <1>8, <1>9 DEF Inductive

LEMMA FlushCountKeeps == TypeOK /\ Inductive /\ FlushCount => Inductive'
<1> SUFFICES ASSUME TypeOK, Inductive, FlushCount PROVE Inductive'
  OBVIOUS
<1>1. /\ loaded /\ resident[target[1]] # NoBlock
      /\ CountIn(rt, block, target) = 1 /\ TargetIsFresh
  BY DEF Inductive, CallKnows, FlushCount
<1>2. Return /\ UNCHANGED <<device, loaded, resident>>
  BY DEF FlushCount
<1>3. QED
  BY <1>1, <1>2, ReturnKeeps

(* The fresh block lies where no block is and counts clusters nobody holds.*)
LEMMA NewBlockCounts ==
    ASSUME NEW s \in Slot
    PROVE  /\ NewBlock \in [Entry -> Nat]
           /\ \A e \in Entry : NewBlock[e] >= 0
           /\ NewBlock[0] = 1 /\ NewBlock[1] = 1
  BY Numbers DEF NewBlock

LEMMA TakenSlot ==
    ASSUME TypeOK, Inductive, pc \in {"block", "blockFlush", "publish"}
    PROVE  /\ loaded
           /\ target[1] \in Slot
           /\ resident[target[1]] = NoBlock
           /\ target = CallerIn(target[1])
           /\ MayTake(target[1])
           /\ BlockOf(target) = <<target[1], 0>>
           /\ BlockOf(target) \in Cluster
<1>1. target[1] \in Slot /\ BlockOf(target) \in Cluster
  BY ClusterIsPair, PairIsCluster, Numbers DEF TypeOK, BlockOf
<1>2. loaded /\ TargetInNewSlot
  BY DEF Inductive, CallKnows
<1>3. QED
  BY <1>1, <1>2 DEF Inductive, ResidentFollows, TargetInNewSlot, BlockOf

LEMMA WriteBlockKeeps == TypeOK /\ Inductive /\ WriteBlock => Inductive'
<1> SUFFICES ASSUME TypeOK, Inductive, WriteBlock PROVE Inductive'
  OBVIOUS
<1> DEFINE s == target[1]
<1>1. /\ loaded /\ s \in Slot /\ resident[s] = NoBlock /\ MayTake(s)
      /\ target = CallerIn(s)
      /\ BlockOf(target) = <<s, 0>> /\ <<s, 0>> \in Cluster
  BY TakenSlot DEF WriteBlock
<1>2. /\ block' = [block EXCEPT ![<<s, 0>>] = NewBlock]
      /\ UNCHANGED <<rt, rtD, blockD, loaded, resident, held, target>>
      /\ pc' \in {"blockFlush", "idle"}
  BY <1>1 DEF WriteBlock, WrittenThen, Go, Fail, durable, memory
<1>3. \A c \in Cluster : c[1] # s => CountIn(rt, block', c) = CountIn(rt, block, c)
  BY <1>1, <1>2, BlockWritten, NewBlockCounts
<1>4. block'[<<s, 0>>] = NewBlock
  BY <1>1, <1>2 DEF TypeOK
<1>5. TableOK' /\ DurableFollows'
  BY <1>2 DEF Inductive, TableOK, DurableFollows
<1>6. HeldIsCounted'
  <2>1. ASSUME NEW c \in Cluster PROVE held[c] <= CountIn(rt, block', c)
    <3>1. CASE c[1] = s
      <4>1. c[2] \in Entry /\ c = <<s, c[2]>>
        BY <3>1, ClusterIsPair
      <4>2. held[c] = 0
        BY <1>1, <4>1 DEF MayTake
      <4>3. CountIn(rt, block', c) \in {0, NewBlock[c[2]]}
        BY <1>1, <1>4, <3>1 DEF CountIn, MayTake
      <4>4. QED
        BY <1>1, <4>1, <4>2, <4>3, NewBlockCounts
    <3>2. CASE c[1] # s
      BY <1>3, <3>2 DEF Inductive, HeldIsCounted
    <3>3. QED
      BY <3>1, <3>2
  <2>2. QED
    BY <1>2, <2>1 DEF Inductive, HeldIsCounted, CountIn
<1>7. MetadataIsCounted'
  <2>1. ASSUME NEW c \in Blocks(rt) PROVE CountIn(rt, block', c) > 0
    <3>1. PICK r \in Slot : c = rt[r] /\ rt[r] # NoBlock
      BY DEF Blocks, Metadata, NoBlock
    <3>2. c \in Cluster
      BY <3>1 DEF TypeOK
    <3>3. CASE r = s
      <4>1. c = <<s, 0>> /\ rt[s] # NoBlock
        BY <1>1, <3>1, <3>3 DEF MayTake
      <4>2. QED
        BY <1>1, <1>4, <4>1, NewBlockCounts DEF CountIn, MayTake
    <3>4. CASE r # s
      <4>1. c[1] # s
        BY <1>1, <3>1, <3>4 DEF MayTake
      <4>2. QED
        BY <1>3, <3>2, <4>1 DEF Inductive, MetadataIsCounted
    <3>5. QED
      BY <3>3, <3>4
  <2>2. QED
    BY <1>2, <2>1 DEF Inductive, MetadataIsCounted, Blocks, Metadata, CountIn
<1>8. ResidentFollows'
  BY <1>2, ResidentUntouched
<1>9. CallKnows'
  BY <1>1, <1>2, <1>4 DEF CallKnows, TargetInNewSlot, CallerIn, BlockOf
<1>10. QED
  BY <1>5, <1>6, <1>7, <1>8, <1>9 DEF Inductive

LEMMA FlushBlockKeeps == TypeOK /\ Inductive /\ FlushBlock => Inductive'
<1> SUFFICES ASSUME TypeOK, Inductive, FlushBlock PROVE Inductive'
  OBVIOUS
<1>1. /\ Flushed /\ pc' = "publish"
      /\ UNCHANGED <<rt, block, loaded, resident, held, target>>
  BY DEF FlushBlock, Go, device, memory
<1>2. TableOK' /\ DurableFollows' /\ HeldIsCounted' /\ MetadataIsCounted'
  <2>1. \A c \in Cluster : held'[c] <= CountIn(rt, block, c)
    BY <1>1 DEF Inductive, HeldIsCounted
  <2>2. \A c \in Metadata(rt) : held'[c] = 0
    BY <1>1 DEF Inductive, MetadataIsCounted
  <2>3. QED
    BY <1>1, <2>1, <2>2, FlushIsSafe
<1>3. ResidentFollows'
  BY <1>1, ResidentUntouched
<1>4. CallKnows'
  BY <1>1 DEF Inductive, CallKnows, FlushBlock, Flushed, TargetInNewSlot, BlockOf, NewBlock
<1>5. QED
  BY <1>2, <1>3, <1>4 DEF Inductive

(* The block is named: its self-reference is durable, and the slot was     *)
(* nobody's.                                                               *)
LEMMA PublishKeeps == TypeOK /\ Inductive /\ Publish => Inductive'
<1> SUFFICES ASSUME TypeOK, Inductive, Publish PROVE Inductive'
  OBVIOUS
<1> DEFINE s == target[1]
           b == <<s, 0>>
<1>1. /\ loaded /\ s \in Slot /\ resident[s] = NoBlock /\ MayTake(s)
      /\ target = CallerIn(s) /\ target = <<s, 1>>
      /\ BlockOf(target) = b /\ b \in Cluster
  BY TakenSlot DEF Publish, CallerIn
<1>2. /\ rt' = [rt EXCEPT ![s] = b]
      /\ UNCHANGED <<block, rtD, blockD, loaded, held, target>>
  BY <1>1 DEF Publish, Go, Fail, durable
<1>3. \/ pc' = "publishFlush" /\ resident' = [resident EXCEPT ![s] = b]
      \/ pc' = "idle" /\ resident' = resident
  BY <1>1 DEF Publish, Go, Fail
<1>4. block[b] = NewBlock /\ blockD[b] = NewBlock
  BY <1>1 DEF Inductive, CallKnows, Publish
<1>5. s # 0 /\ b # NoBlock
  <2>1. rt[0] # NoBlock
    BY DEF Inductive, TableOK
  <2>2. s # 0
    BY <1>1, <2>1 DEF MayTake, NoBlock, Header
  <2>3. QED
    BY <2>2 DEF NoBlock, Header
<1>6. \A r \in Slot : rt'[r] = IF r = s THEN b ELSE rt[r]
  BY <1>1, <1>2 DEF TypeOK
<1>7. \A c \in Cluster : c[1] # s => CountIn(rt', block, c) = CountIn(rt, block, c)
  BY <1>1, <1>2, SlotNamed
<1>8. \A e \in Entry : CountIn(rt', block, <<s, e>>) = NewBlock[e]
  BY <1>1, <1>4, <1>5, <1>6 DEF CountIn
<1>9. TableOK'
  <2>1. rt'[0] # NoBlock
    BY <1>5, <1>6, Numbers DEF Inductive, TableOK
  <2>2. ASSUME NEW q \in Slot, NEW r \in Slot, rt'[q] = rt'[r]
        PROVE  q = r \/ rt'[q] = NoBlock
    <3>1. \A x \in Slot \ {s} : rt[x] # b
      BY <1>1 DEF MayTake
    <3>2. CASE q = s \/ r = s
      BY <1>6, <2>2, <3>1, <3>2
    <3>3. CASE q # s /\ r # s
      BY <1>6, <2>2, <3>3 DEF Inductive, TableOK
    <3>4. QED
      BY <3>2, <3>3
  <2>3. QED
    BY <2>1, <2>2 DEF TableOK
<1>10. DurableFollows'
  <2>1. rtD[0] # NoBlock
    BY DEF Inductive, DurableFollows
  <2>2. blockD[b][0] > 0
    BY <1>1, <1>4, NewBlockCounts
  <2>3. \/ rtD[s] = b
        \/ rtD[s] = NoBlock
    BY <1>1 DEF Inductive, DurableFollows, MayTake
  <2>4. ASSUME NEW r \in Slot
        PROVE  \/ rtD[r] = rt'[r]
               \/ rtD[r] = NoBlock /\ rt'[r] = <<r, 0>> /\ blockD[<<r, 0>>][0] > 0
    <3>1. CASE r = s
      BY <1>6, <2>2, <2>3, <3>1
    <3>2. CASE r # s
      BY <1>6, <3>2 DEF Inductive, DurableFollows
    <3>3. QED
      BY <3>1, <3>2
  <2>5. QED
    BY <1>2, <2>1, <2>4 DEF DurableFollows
<1>11. HeldIsCounted'
  <2>1. ASSUME NEW c \in Cluster PROVE held[c] <= CountIn(rt', block, c)
    <3>1. CASE c[1] = s
      <4>1. c[2] \in Entry /\ c = <<s, c[2]>>
        BY <3>1, ClusterIsPair
      <4>2. held[c] = 0
        BY <1>1, <4>1 DEF MayTake
      <4>3. CountIn(rt', block, c) = NewBlock[c[2]]
        BY <1>8, <4>1
      <4>4. QED
        BY <1>1, <4>1, <4>2, <4>3, NewBlockCounts
    <3>2. CASE c[1] # s
      BY <1>7, <3>2 DEF Inductive, HeldIsCounted
    <3>3. QED
      BY <3>1, <3>2
  <2>2. QED
    BY <1>2, <2>1 DEF Inductive, HeldIsCounted, CountIn
<1>12. MetadataIsCounted'
  <2>1. ASSUME NEW c \in Metadata(rt') PROVE held[c] = 0
    <3>1. CASE c = b
      BY <1>1, <3>1, Numbers DEF MayTake
    <3>2. CASE c # b
      <4>1. c \in Metadata(rt)
        BY <1>6, <3>2 DEF Metadata
      <4>2. QED
        BY <4>1 DEF Inductive, MetadataIsCounted
    <3>3. QED
      BY <3>1, <3>2
  <2>2. ASSUME NEW c \in Blocks(rt') PROVE CountIn(rt', block, c) > 0
    <3>1. PICK r \in Slot : c = rt'[r] /\ c # Header
      BY DEF Blocks, Metadata
    <3>2. CASE r = s
      BY <1>1, <1>6, <1>8, <3>1, <3>2, Numbers, NewBlockCounts
    <3>3. CASE r # s
      <4>1. c = rt[r] /\ c[1] # s /\ c \in Cluster
        BY <1>1, <1>6, <3>1, <3>3 DEF MayTake, TypeOK
      <4>2. c \in Blocks(rt)
        BY <3>1, <4>1 DEF Blocks, Metadata
      <4>3. QED
        BY <1>7, <4>1, <4>2 DEF Inductive, MetadataIsCounted
    <3>4. QED
      BY <3>2, <3>3
  <2>3. QED
    BY <1>2, <2>1, <2>2 DEF Inductive, MetadataIsCounted, Blocks, Metadata, CountIn
<1>13. ResidentFollows'
  <2>1. ASSUME NEW r \in Slot, resident'[r] # NoBlock PROVE resident'[r] = rt'[r]
    <3>1. CASE r = s
      BY <1>1, <1>3, <1>6, <2>1, <3>1 DEF TypeOK
    <3>2. CASE r # s
      BY <1>1, <1>3, <1>6, <2>1, <3>2 DEF TypeOK, Inductive, ResidentFollows
    <3>3. QED
      BY <3>1, <3>2
  <2>2. ASSUME NEW r \in Slot, resident'[r] = NoBlock PROVE MayTake(r)'
    <3>1. resident[r] = NoBlock
      BY <1>1, <1>3, <1>5, <2>2 DEF TypeOK
    <3>2. MayTake(r)
      BY <1>1, <3>1 DEF Inductive, ResidentFollows
    <3>3. rt'[r] \in {NoBlock, <<r, 0>>}
      BY <1>6, <3>2 DEF MayTake
    <3>4. ASSUME NEW q \in Slot \ {r} PROVE rt'[q][1] # r
      BY <1>6, <3>2 DEF MayTake
    <3>5. QED
      BY <1>2, <3>2, <3>3, <3>4 DEF MayTake
  <2>3. QED
    BY <2>1, <2>2 DEF ResidentFollows
<1>14. CallKnows'
  <2>1. CASE pc' = "idle"
    BY <2>1 DEF CallKnows
  <2>2. CASE pc' = "publishFlush" /\ resident' = [resident EXCEPT ![s] = b]
    <3>1. resident'[s] # NoBlock
      BY <1>1, <1>5, <2>2 DEF TypeOK
    <3>2. CountIn(rt', block, target) = 1
      BY <1>1, <1>8, Numbers, NewBlockCounts
    <3>3. held[target] = 0
      BY <1>1, Numbers DEF MayTake
    <3>4. target \notin Metadata(rt')
      <4>1. target # Header /\ target # b
        BY <1>1 DEF Header
      <4>2. \A r \in Slot \ {s} : rt[r] # target
        BY <1>1 DEF MayTake
      <4>3. QED
        BY <1>6, <4>1, <4>2 DEF Metadata
    <3>5. QED
      BY <1>1, <1>2, <2>2, <3>1, <3>2, <3>3, <3>4
        DEF CallKnows, TargetIsFresh, CountIn, Metadata
  <2>3. QED
    BY <1>3, <2>1, <2>2
<1>15. QED
  BY <1>9, <1>10, <1>11, <1>12, <1>13, <1>14 DEF Inductive

LEMMA FlushPublishKeeps == TypeOK /\ Inductive /\ FlushPublish => Inductive'
<1> SUFFICES ASSUME TypeOK, Inductive, FlushPublish PROVE Inductive'
  OBVIOUS
<1>1. /\ loaded /\ resident[target[1]] # NoBlock
      /\ CountIn(rt, block, target) = 1 /\ TargetIsFresh
  BY DEF Inductive, CallKnows, FlushPublish
<1>2. Return /\ UNCHANGED <<device, loaded, resident>>
  BY DEF FlushPublish
<1>3. QED
  BY <1>1, <1>2, ReturnKeeps

(* A caller drops a reference it holds: the cluster is no block, and its   *)
(* count is now higher than what is still held.                            *)
LEMMA BeginDropKeeps == TypeOK /\ Inductive /\ BeginDrop => Inductive'
<1> SUFFICES ASSUME TypeOK, Inductive, BeginDrop PROVE Inductive'
  OBVIOUS
<1>1. PICK t \in Cluster :
        /\ held[t] > 0
        /\ held' = [held EXCEPT ![t] = @ - 1]
        /\ target' = t
  BY DEF BeginDrop
<1>2. /\ UNCHANGED <<rt, block, rtD, blockD, loaded, resident>>
      /\ pc' = "drop"
  BY DEF BeginDrop, device, durable, memory
<1>3. \A c \in Cluster :
        /\ held[c] \in Nat /\ held'[c] \in Nat
        /\ held'[c] <= held[c]
        /\ CountIn(rt, block, c) \in Nat /\ CountIn(rtD, blockD, c) \in Nat
  BY <1>1, CountIsNat DEF TypeOK
<1>4. TableOK' /\ DurableFollows'
  BY <1>2 DEF Inductive, TableOK, DurableFollows
<1>5. HeldIsCounted'
  <2>1. ASSUME NEW c \in Cluster
        PROVE  held'[c] <= CountIn(rt, block, c) /\ held'[c] <= CountIn(rtD, blockD, c)
    <3>1. held[c] <= CountIn(rt, block, c) /\ held[c] <= CountIn(rtD, blockD, c)
      BY DEF Inductive, HeldIsCounted
    <3>2. QED
      BY <1>3, <3>1
  <2>2. QED
    BY <1>2, <2>1 DEF HeldIsCounted, CountIn
<1>6. MetadataIsCounted'
  <2>1. ASSUME NEW c \in Metadata(rt) PROVE held'[c] = 0
    <3>1. c \in Cluster /\ held[c] = 0
      BY MetadataIsCluster DEF Inductive, MetadataIsCounted
    <3>2. QED
      BY <1>3, <3>1
  <2>2. QED
    BY <1>2, <2>1 DEF Inductive, MetadataIsCounted, Blocks, Metadata, CountIn
<1>7. ResidentFollows'
  <2>1. ASSUME NEW s \in Slot, MayTake(s) PROVE MayTake(s)'
    <3>1. ASSUME NEW e \in Entry PROVE held'[<<s, e>>] = 0
      <4>1. <<s, e>> \in Cluster /\ held[<<s, e>>] = 0
        BY <2>1, PairIsCluster DEF MayTake
      <4>2. QED
        BY <1>3, <4>1
    <3>2. QED
      BY <1>2, <2>1, <3>1 DEF MayTake
  <2>2. QED
    BY <1>2, <2>1 DEF Inductive, ResidentFollows
<1>8. CallKnows'
  <2>1. t \notin Metadata(rt)
    BY <1>1 DEF Inductive, MetadataIsCounted
  <2>2. held'[t] < CountIn(rt, block, t)
    <3>1. held[t] <= CountIn(rt, block, t)
      BY DEF Inductive, HeldIsCounted
    <3>2. held'[t] = held[t] - 1
      BY <1>1 DEF TypeOK
    <3>3. QED
      BY <1>1, <1>3, <3>1, <3>2
  <2>3. QED
    BY <1>1, <1>2, <2>1, <2>2 DEF CallKnows, CountIn, Metadata
<1>9. QED
  BY <1>4, <1>5, <1>6, <1>7, <1>8 DEF Inductive

LEMMA WriteDropKeeps == TypeOK /\ Inductive /\ WriteDrop => Inductive'
<1> SUFFICES ASSUME TypeOK, Inductive, WriteDrop PROVE Inductive'
  OBVIOUS
<1> DEFINE n == CountIn(rt, block, target) - 1
<1>1. /\ target \in Cluster /\ target[1] \in Slot /\ target[2] \in Entry
      /\ held[target] \in Nat
  BY ClusterIsPair DEF TypeOK
<1>2. CountIn(rt, block, target) > 0 /\ CountIn(rt, block, target) \in Nat
  BY <1>1, CountIsNat DEF WriteDrop
<1>3. n \in Nat /\ held[target] <= n /\ target \notin Metadata(rt)
  <2>1. held[target] < CountIn(rt, block, target) /\ target \notin Metadata(rt)
    BY DEF Inductive, CallKnows, WriteDrop
  <2>2. QED
    BY <1>1, <1>2, <2>1
<1>4. rt[target[1]] # NoBlock
  BY <1>2 DEF CountIn
<1>5. n = block[rt[target[1]]][target[2]] - 1
  BY <1>4 DEF CountIn
<1>6. /\ block' = [block EXCEPT ![rt[target[1]]][target[2]] = n]
      /\ UNCHANGED <<rt, rtD, blockD, loaded, resident, held>>
      /\ pc' \in {"dropFlush", "idle"}
  <2>1. block' = [block EXCEPT ![rt[target[1]]][target[2]] = @ - 1]
    BY DEF WriteDrop
  <2>2. block' = [block EXCEPT ![rt[target[1]]][target[2]] = n]
    BY <1>1, <1>5, <2>1 DEF TypeOK
  <2>3. QED
    BY <2>2 DEF WriteDrop, WrittenThen, Go, Fail, durable, memory
<1> HIDE DEF n
<1>7. ASSUME NEW c \in Cluster
      PROVE  CountIn(rt, block', c) = IF c = target THEN n ELSE CountIn(rt, block, c)
  <2>1. TableOK
    BY DEF Inductive
  <2>2. CountIn(rt, [block EXCEPT ![rt[target[1]]][target[2]] = n], c)
          = IF c = target THEN n ELSE CountIn(rt, block, c)
    BY <1>1, <1>3, <1>4, <2>1, EntryWritten
  <2>3. QED
    BY <1>6, <2>2
<1>8. TableOK' /\ DurableFollows'
  BY <1>6 DEF Inductive, TableOK, DurableFollows
<1>9. HeldIsCounted'
  <2>1. \A c \in Cluster : held[c] <= CountIn(rt, block', c)
    BY <1>3, <1>7 DEF Inductive, HeldIsCounted
  <2>2. QED
    BY <1>6, <2>1 DEF Inductive, HeldIsCounted, CountIn
<1>10. MetadataIsCounted'
  <2>1. ASSUME NEW c \in Blocks(rt) PROVE CountIn(rt, block', c) > 0
    <3>1. c \in Cluster /\ c # target
      BY <1>3, MetadataIsCluster DEF Blocks
    <3>2. QED
      BY <1>7, <3>1 DEF Inductive, MetadataIsCounted
  <2>2. QED
    BY <1>6, <2>1 DEF Inductive, MetadataIsCounted, Blocks, Metadata, CountIn
<1>11. ResidentFollows'
  BY <1>6, ResidentUntouched
<1>12. CallKnows'
  BY <1>6 DEF CallKnows
<1>13. QED
  BY <1>8, <1>9, <1>10, <1>11, <1>12 DEF Inductive

LEMMA FlushDropKeeps == TypeOK /\ Inductive /\ FlushDrop => Inductive'
<1> SUFFICES ASSUME TypeOK, Inductive, FlushDrop PROVE Inductive'
  OBVIOUS
<1>1. Flushed /\ pc' = "idle" /\ UNCHANGED <<rt, block, loaded, resident, held>>
  BY DEF FlushDrop, Go, device
<1>2. TableOK' /\ DurableFollows' /\ HeldIsCounted' /\ MetadataIsCounted'
  <2>1. \A c \in Cluster : held'[c] <= CountIn(rt, block, c)
    BY <1>1 DEF Inductive, HeldIsCounted
  <2>2. \A c \in Metadata(rt) : held'[c] = 0
    BY <1>1 DEF Inductive, MetadataIsCounted
  <2>3. QED
    BY <1>1, <2>1, <2>2, FlushIsSafe
<1>3. ResidentFollows'
  BY <1>1, ResidentUntouched
<1>4. CallKnows'
  BY <1>1 DEF CallKnows
<1>5. QED
  BY <1>2, <1>3, <1>4 DEF Inductive

(* A call that ends early, refused or failed, leaves nothing to undo.      *)
LEMMA GivingUpKeeps ==
    ASSUME Inductive, Refuse \/ DeviceError \/ FlushError
    PROVE  Inductive'
<1>1. pc' = "idle" /\ UNCHANGED <<device, durable, memory, held>>
  BY DEF Refuse, DeviceError, FlushError, Go, Fail
<1>2. TableOK' /\ DurableFollows' /\ HeldIsCounted' /\ MetadataIsCounted'
  BY <1>1, DeviceUntouched
<1>3. UNCHANGED <<rt, held, loaded, resident>>
  BY <1>1 DEF device, memory
<1>4. ResidentFollows' /\ CallKnows'
  BY <1>1, <1>3, ResidentUntouched DEF CallKnows
<1>5. QED
  BY <1>2, <1>4 DEF Inductive

(* A write persisted early only brings the durable copy nearer the device. *)
LEMMA WritebackKeeps == TypeOK /\ Inductive /\ Writeback => Inductive'
<1> SUFFICES ASSUME TypeOK, Inductive, Writeback PROVE Inductive'
  OBVIOUS
<1>1. UNCHANGED <<rt, block, loaded, resident, held, pc, target>>
  BY DEF Writeback, device, memory
<1>2. \A s \in Slot : rtD'[s] \in {rtD[s], rt[s]}
  BY DEF Writeback, TypeOK
<1>3. \A c \in Cluster, e \in Entry : blockD'[c][e] \in {blockD[c][e], block[c][e]}
  <2>1. \/ blockD' = blockD
        \/ \E c \in Cluster, e \in Entry :
              blockD' = [blockD EXCEPT ![c][e] = block[c][e]]
    BY DEF Writeback
  <2>2. CASE blockD' = blockD
    BY <2>2
  <2>3. ASSUME NEW c \in Cluster, NEW e \in Entry,
               blockD' = [blockD EXCEPT ![c][e] = block[c][e]],
               NEW d \in Cluster, NEW f \in Entry
        PROVE  blockD'[d][f] \in {blockD[d][f], block[d][f]}
    BY <2>3 DEF TypeOK
  <2>4. QED
    BY <2>1, <2>2, <2>3
<1>4. \A s \in Slot : <<s, 0>> \in Cluster /\ rt[s] \in Cluster
  BY PairIsCluster, Numbers DEF TypeOK
<1>5. ASSUME NEW s \in Slot, rtD'[s] # NoBlock PROVE rtD'[s] = rt[s]
  BY <1>2, <1>5 DEF Inductive, DurableFollows
<1>6. ASSUME NEW s \in Slot, rt[s] = <<s, 0>>, rt[s] # NoBlock
      PROVE  block[<<s, 0>>][0] > 0
  <2>1. <<s, 0>> \in Blocks(rt)
    BY <1>6 DEF Blocks, Metadata, NoBlock
  <2>2. CountIn(rt, block, <<s, 0>>) > 0
    BY <2>1 DEF Inductive, MetadataIsCounted
  <2>3. QED
    BY <1>6, <2>2 DEF CountIn
<1>7. TableOK'
  BY <1>1 DEF Inductive, TableOK
<1>8. DurableFollows'
  <2>1. rtD'[0] # NoBlock
    BY <1>2, Numbers DEF Inductive, DurableFollows, TableOK
  <2>2. ASSUME NEW s \in Slot
        PROVE  \/ rtD'[s] = rt[s]
               \/ rtD'[s] = NoBlock /\ rt[s] = <<s, 0>> /\ blockD'[<<s, 0>>][0] > 0
    <3>1. CASE rtD[s] = rt[s]
      BY <1>2, <3>1
    <3>2. CASE /\ rtD[s] = NoBlock /\ rt[s] = <<s, 0>> /\ rt[s] # NoBlock
               /\ blockD[<<s, 0>>][0] > 0
      <4>1. blockD'[<<s, 0>>][0] > 0
        BY <1>3, <1>4, <1>6, <3>2, Numbers
      <4>2. QED
        BY <1>2, <3>2, <4>1
    <3>3. QED
      BY <3>1, <3>2 DEF Inductive, DurableFollows
  <2>3. QED
    BY <1>1, <2>1, <2>2 DEF DurableFollows
<1>9. HeldIsCounted'
  <2>1. ASSUME NEW c \in Cluster PROVE held[c] <= CountIn(rtD', blockD', c)
    <3>1. c[1] \in Slot /\ c[2] \in Entry /\ held[c] \in Nat
      BY ClusterIsPair DEF TypeOK
    <3>2. held[c] <= CountIn(rt, block, c) /\ held[c] <= CountIn(rtD, blockD, c)
      BY DEF Inductive, HeldIsCounted
    <3>3. CASE rtD'[c[1]] = NoBlock
      <4>1. rtD[c[1]] = NoBlock \/ rt[c[1]] = NoBlock
        BY <1>2, <3>1, <3>3
      <4>2. held[c] <= 0
        BY <3>2, <4>1 DEF CountIn
      <4>3. QED
        BY <3>3, <4>2 DEF CountIn
    <3>4. CASE rtD'[c[1]] # NoBlock /\ rtD[c[1]] # NoBlock
      <4>1. rtD'[c[1]] = rt[c[1]] /\ rtD[c[1]] = rt[c[1]]
        BY <1>5, <3>1, <3>4, DurableBlock DEF Inductive
      <4>2. blockD'[rt[c[1]]][c[2]] \in {blockD[rt[c[1]]][c[2]], block[rt[c[1]]][c[2]]}
        BY <1>3, <1>4, <3>1
      <4>3. QED
        BY <3>2, <3>4, <4>1, <4>2 DEF CountIn
    <3>5. CASE rtD'[c[1]] # NoBlock /\ rtD[c[1]] = NoBlock
      <4>1. held[c] = 0
        BY <3>1, <3>2, <3>5 DEF CountIn
      <4>2. rt[c[1]] \in Cluster /\ rtD'[c[1]] = rt[c[1]]
        BY <1>4, <1>5, <3>1, <3>5
      <4>3. blockD'[rt[c[1]]][c[2]] \in Nat
        <5>1. blockD[rt[c[1]]][c[2]] \in Nat /\ block[rt[c[1]]][c[2]] \in Nat
          BY <3>1, <4>2 DEF TypeOK
        <5>2. blockD'[rt[c[1]]][c[2]] \in {blockD[rt[c[1]]][c[2]], block[rt[c[1]]][c[2]]}
          BY <1>3, <3>1, <4>2
        <5>3. QED
          BY <5>1, <5>2
      <4>4. QED
        BY <3>5, <4>1, <4>2, <4>3 DEF CountIn
    <3>6. QED
      BY <3>3, <3>4, <3>5
  <2>2. QED
    BY <1>1, <2>1 DEF Inductive, HeldIsCounted, CountIn
<1>10. MetadataIsCounted'
  <2>1. ASSUME NEW c \in Blocks(rtD') PROVE CountIn(rtD', blockD', c) > 0
    <3>1. PICK s \in Slot : c = rtD'[s] /\ c # NoBlock
      BY DEF Blocks, Metadata, NoBlock
    <3>2. c = rt[s] /\ c \in Cluster /\ c \in Blocks(rt)
      BY <1>4, <1>5, <3>1 DEF Blocks, Metadata, NoBlock
    <3>3. c[1] \in Slot /\ c[2] \in Entry /\ CountIn(rt, block, c) > 0
      BY <3>2, ClusterIsPair DEF Inductive, MetadataIsCounted
    <3>4. CASE rtD[s] # NoBlock
      <4>1. c \in Blocks(rtD)
        BY <3>2, <3>4, DurableBlock DEF Inductive, Blocks, Metadata, NoBlock
      <4>2. CountIn(rtD, blockD, c) > 0
        BY <4>1 DEF Inductive, MetadataIsCounted
      <4>3. rtD[c[1]] # NoBlock /\ rt[c[1]] # NoBlock
        BY <3>3, <4>2 DEF CountIn
      <4>4. rtD[c[1]] = rt[c[1]] /\ rtD'[c[1]] = rt[c[1]]
        BY <1>2, <3>3, <4>3, DurableBlock DEF Inductive
      <4>5. blockD'[rt[c[1]]][c[2]] \in {blockD[rt[c[1]]][c[2]], block[rt[c[1]]][c[2]]}
        BY <1>3, <1>4, <3>3
      <4>6. QED
        BY <3>3, <4>2, <4>3, <4>4, <4>5 DEF CountIn
    <3>5. CASE rtD[s] = NoBlock
      <4>1. c = <<s, 0>> /\ c[1] = s /\ c[2] = 0
        <5>1. rt[s] = <<s, 0>>
          BY <3>1, <3>2, <3>5 DEF Inductive, DurableFollows
        <5>2. QED
          BY <3>2, <5>1
      <4>2. blockD'[<<s, 0>>][0] > 0
        BY <1>8, <3>1, <3>2, <3>5, <4>1, <1>1, <1>3, <1>4, <1>6, Numbers
          DEF Inductive, DurableFollows
      <4>3. QED
        BY <3>1, <4>1, <4>2 DEF CountIn
    <3>6. QED
      BY <3>4, <3>5
  <2>2. QED
    BY <1>1, <2>1 DEF Inductive, MetadataIsCounted, Blocks, Metadata, CountIn
<1>11. ResidentFollows'
  BY <1>1, ResidentUntouched
<1>12. CallKnows'
  <2>1. pc = "publish" => blockD'[BlockOf(target)] = NewBlock
    <3>1. SUFFICES ASSUME pc = "publish" PROVE blockD'[BlockOf(target)] = NewBlock
      OBVIOUS
    <3>2. block[BlockOf(target)] = NewBlock /\ blockD[BlockOf(target)] = NewBlock
      BY <3>1 DEF Inductive, CallKnows
    <3>3. BlockOf(target) \in Cluster
      BY <3>1, TakenSlot
    <3>4. blockD' \in [Cluster -> [Entry -> Nat]]
      BY StepTyped DEF Next, TypeOK
    <3>5. \A e \in Entry : blockD'[BlockOf(target)][e] = NewBlock[e]
      BY <1>3, <3>2, <3>3
    <3>6. QED
      BY <3>3, <3>4, <3>5, NewBlockCounts DEF NewBlock
  <2>2. QED
    BY <1>1, <2>1
      DEF Inductive, CallKnows, TargetInNewSlot, TargetIsFresh, BlockOf, CountIn, Metadata
<1>13. QED
  BY <1>7, <1>8, <1>9, <1>10, <1>11, <1>12 DEF Inductive

(* What a crash leaves is a table no two slots of which share a block, and *)
(* it counts everything held.                                              *)
LEMMA CrashKeeps == TypeOK /\ Inductive /\ Crash => Inductive'
<1> SUFFICES ASSUME TypeOK, Inductive, Crash PROVE Inductive'
  OBVIOUS
<1>1. /\ rt' = rtD /\ block' = blockD /\ rtD' = rtD /\ blockD' = blockD
      /\ held' = held /\ loaded' = FALSE /\ pc' = "idle"
  BY DEF Crash, durable
<1>2. TableOK'
  <2>1. rtD[0] # NoBlock
    BY DEF Inductive, DurableFollows
  <2>2. ASSUME NEW s \in Slot, NEW r \in Slot, rtD[s] = rtD[r]
        PROVE  s = r \/ rtD[s] = NoBlock
    BY <2>2, DurableBlock DEF Inductive, TableOK
  <2>3. QED
    BY <1>1, <2>1, <2>2 DEF TableOK
<1>3. DurableFollows'
  BY <1>1 DEF Inductive, DurableFollows
<1>4. HeldIsCounted'
  BY <1>1 DEF Inductive, HeldIsCounted, CountIn
<1>5. MetadataIsCounted'
  <2>1. \A c \in Metadata(rtD) : held[c] = 0
    BY DurableMetadata DEF Inductive, MetadataIsCounted
  <2>2. QED
    BY <1>1, <2>1 DEF Inductive, MetadataIsCounted, Blocks, Metadata, CountIn
<1>6. ResidentFollows' /\ CallKnows'
  BY <1>1 DEF ResidentFollows, CallKnows
<1>7. QED
  BY <1>2, <1>3, <1>4, <1>5, <1>6 DEF Inductive

LEMMA StutterKeeps == Inductive /\ UNCHANGED vars => Inductive'
<1> SUFFICES ASSUME Inductive, UNCHANGED vars PROVE Inductive'
  OBVIOUS
<1>1. UNCHANGED <<device, durable, held, pc, target, loaded, resident, rt, block, rtD, blockD>>
  BY DEF vars, memory, device, durable
<1>2. TableOK' /\ DurableFollows' /\ HeldIsCounted' /\ MetadataIsCounted'
  BY <1>1, DeviceUntouched
<1>3. ResidentFollows'
  BY <1>1, ResidentUntouched
<1>4. CallKnows'
  BY <1>1
    DEF Inductive, CallKnows, TargetInNewSlot, TargetIsFresh, BlockOf, CountIn, Metadata
<1>5. QED
  BY <1>2, <1>3, <1>4 DEF Inductive

LEMMA StepInductive == TypeOK /\ Inductive /\ [Next]_vars => Inductive'
  BY BeginAllocateKeeps, FoundFreeKeeps, FoundAbsentKeeps, GivingUpKeeps,
     WriteCountKeeps, FlushCountKeeps, WriteBlockKeeps, FlushBlockKeeps,
     PublishKeeps, FlushPublishKeeps, BeginDropKeeps, WriteDropKeeps,
     FlushDropKeeps, WritebackKeeps, CrashKeeps, StutterKeeps
    DEF Next, AllocateStep, DropStep

-----------------------------------------------------------------------------
(* The inductive invariant holds of every behaviour of the allocator, for  *)
(* every table, block size, image and number of failures and crashes       *)
(* (`allocate_cluster` and `decrement_refcount`).                          *)
THEOREM AlwaysInductive == Spec => []Inductive
<1>1. Init => TypeOK /\ Inductive
  BY InitTyped, InitInductive
<1>2. TypeOK /\ Inductive /\ [Next]_vars => TypeOK' /\ Inductive'
  BY StepTyped, StepInductive
<1>3. QED
  BY <1>1, <1>2, PTL DEF Spec

(* No order of writes, flushes, failures and crashes leaves a reference    *)
(* that a caller holds uncounted: `allocate_cluster` never hands out a     *)
(* cluster in use, and `decrement_refcount` never frees one.               *)
THEOREM EveryReferenceCounted == Spec => []HeldIsCounted
<1>1. Inductive => HeldIsCounted
  BY DEF Inductive
<1>2. QED
  BY <1>1, AlwaysInductive, PTL

(* The header and the refcount blocks are never handed out, and every      *)
(* block the table names is counted, before and after a crash (pass 2 of   *)
(* `allocate_cluster` writes the block before the table entry).            *)
THEOREM EveryBlockCounted == Spec => []MetadataIsCounted
<1>1. Inductive => MetadataIsCounted
  BY DEF Inductive
<1>2. QED
  BY <1>1, AlwaysInductive, PTL

(* The resident refcount table agrees with the device wherever it names a  *)
(* block, and a slot it calls absent governs nothing a caller holds.       *)
THEOREM ResidentTableSafe == Spec => []ResidentIsSafe
<1>1. Inductive => ResidentIsSafe
  BY DEF Inductive, ResidentFollows, MayTake, ResidentIsSafe
<1>2. QED
  BY <1>1, AlwaysInductive, PTL

(***************************************************************************)
(* The scan                                                                *)
(*                                                                         *)
(* The cursor passes no free cluster, full means full, the device reaches  *)
(* past a cluster before it is counted, and each step is one of            *)
(* ClusterPool's or changes nothing it sees.                               *)
(***************************************************************************)
(***************************************************************************)
(* The order of positions                                                  *)
(***************************************************************************)
LEMMA PositionIsPair ==
    ASSUME NEW p \in Position
    PROVE  p[1] \in Nat /\ p[2] \in Nat /\ p = <<p[1], p[2]>>
  BY GeometryAssumption DEF Position, Entry

LEMMA BeforeTrans ==
    ASSUME NEW p \in Position, NEW q \in Position, NEW r \in Position
    PROVE  /\ Before(p, q) /\ Before(q, r) => Before(p, r)
           /\ ~Before(p, p)
           /\ Before(p, q) => ~Before(q, p)
           /\ Before(p, q) \/ Before(q, p) \/ p = q
  BY PositionIsPair DEF Before

LEMMA AfterIsNext ==
    ASSUME NEW c \in Cluster, NEW d \in Cluster
    PROVE  /\ Before(c, After(c))
           /\ Before(d, After(c)) => Before(d, c) \/ d = c
<1>1. /\ c[1] \in Nat /\ c[2] \in 0 .. PerBlock - 1 /\ c = <<c[1], c[2]>>
      /\ d[1] \in Nat /\ d[2] \in 0 .. PerBlock - 1 /\ d = <<d[1], d[2]>>
      /\ PerBlock \in Nat
  BY GeometryAssumption, ClusterIsPair DEF Slot, Entry
<1>2. CASE c[2] + 1 < PerBlock
  <2>1. After(c) = <<c[1], c[2] + 1>>
    BY <1>2 DEF After
  <2>2. QED
    BY <1>1, <2>1 DEF Before
<1>3. CASE ~(c[2] + 1 < PerBlock)
  <2>1. After(c) = <<c[1] + 1, 0>> /\ c[2] = PerBlock - 1
    BY <1>1, <1>3 DEF After
  <2>2. QED
    BY <1>1, <2>1 DEF Before
<1>4. QED
  BY <1>2, <1>3

LEMMA NothingBeforeHeader ==
    ASSUME NEW c \in Cluster
    PROVE  ~Before(c, Header)
<1>1. c[1] \in Nat /\ c[2] \in Nat
  BY GeometryAssumption, ClusterIsPair DEF Slot, Entry
<1>2. QED
  BY <1>1 DEF Before, Header

(***************************************************************************)
(* The scan                                                                *)
(***************************************************************************)
Used(c) == rt[c[1]] # NoBlock => CountIn(rt, block, c) > 0
UsedBefore(p) == \A c \in Cluster : Before(c, p) => Used(c)

(* While no device call has failed: the resident table is the device's,    *)
(* and behind the cursor everything present is in use, but for what a step *)
(* of the call in progress has just freed or made room for.                *)
ScanKnows ==
    /\ loaded => resident = rt
    /\ pc \notin {"publishFlush", "dropFlush"} => UsedBefore(cursor)
    /\ pc = "count" => UsedBefore(target)
    /\ pc \in {"countFlush", "publishFlush"} => UsedBefore(After(target))
    /\ pc \in {"block", "blockFlush", "publish"} => \A c \in Cluster : Used(c)
    /\ pc = "dropFlush" =>
        \A c \in Cluster : Before(c, cursor) => Used(c) \/ c = target

ScanInv == faults = 0 => ScanKnows

LEMMA SameUsed ==
    ASSUME UNCHANGED <<rt, block>>
    PROVE  \A c \in Cluster : Used(c)' <=> Used(c)
  BY DEF Used, CountIn

LEMMA SameBefore ==
    ASSUME UNCHANGED <<rt, block>>, NEW p, UsedBefore(p)
    PROVE  \A c \in Cluster : Before(c, p) => Used(c)'
  BY SameUsed DEF UsedBefore

(* Pass 1 has looked at every present entry from the cursor on.            *)
LEMMA ScannedOver ==
    ASSUME TypeOK, Inductive, ScanKnows, pc = "scan", NEW c \in Cluster, ~Free(c)
    PROVE  Used(c)
<1>1. resident = rt /\ UsedBefore(cursor)
  BY DEF ScanKnows, Inductive, CallKnows
<1>2. c[1] \in Slot /\ c[2] \in Entry
  BY ClusterIsPair
<1>3. CASE Before(c, cursor)
  BY <1>1, <1>3 DEF UsedBefore
<1>4. CASE ~Before(c, cursor)
  <2>1. rt[c[1]] # NoBlock => block[rt[c[1]]][c[2]] # 0
    BY <1>1, <1>4 DEF Free
  <2>2. rt[c[1]] \in Cluster /\ block[rt[c[1]]][c[2]] \in Nat
    BY <1>2 DEF TypeOK
  <2>3. QED
    BY <2>1, <2>2 DEF Used, CountIn
<1>5. QED
  BY <1>3, <1>4

LEMMA FoundFreeScans ==
    ASSUME TypeOK, Inductive, ScanKnows, FoundFree
    PROVE  ScanKnows'
<1>1. PICK c \in Cluster : FirstFree(c) /\ target' = c
  BY DEF FoundFree
<1>2. UNCHANGED <<rt, block, loaded, resident, cursor>> /\ pc' = "count" /\ pc = "scan"
  BY DEF FoundFree, memory
<1>3. \A d \in Cluster : Before(d, c) => ~Free(d)
  BY <1>1 DEF FirstFree
<1>4. UsedBefore(c)
  BY <1>2, <1>3, ScannedOver DEF UsedBefore
<1>5. UsedBefore(cursor)
  BY <1>2 DEF ScanKnows
<1>6. UsedBefore(target)' /\ UsedBefore(cursor)'
  BY <1>1, <1>2, <1>4, <1>5, SameBefore DEF UsedBefore
<1>7. QED
  BY <1>2, <1>6 DEF ScanKnows

LEMMA FoundAbsentScans ==
    ASSUME TypeOK, Inductive, ScanKnows, FoundAbsent
    PROVE  ScanKnows'
<1>1. UNCHANGED <<rt, block, loaded, resident, cursor>> /\ pc' = "block" /\ pc = "scan"
  BY DEF FoundAbsent, memory
<1>2. \A c \in Cluster : ~Free(c)
  BY DEF FoundAbsent, FirstAbsent
<1>3. \A c \in Cluster : Used(c)
  BY <1>1, <1>2, ScannedOver
<1>4. \A c \in Cluster : Used(c)'
  BY <1>1, <1>3, SameUsed
<1>5. QED
  BY <1>1, <1>4 DEF ScanKnows, UsedBefore

(* The first free entry is counted: everything up to it is in use.         *)
LEMMA WriteCountScans ==
    ASSUME TypeOK, Inductive, ScanKnows, WriteCount, UNCHANGED faults, faults \in Nat
    PROVE  ScanKnows'
<1>1. /\ UNCHANGED <<rt, loaded, resident, cursor, target>>
      /\ pc' = "countFlush" /\ pc = "count"
      /\ block' = [block EXCEPT ![resident[target[1]]][target[2]] = 1]
  BY DEF WriteCount, WrittenThen, Go, Fail, Fault, memory
<1>2. target \in Cluster /\ loaded /\ resident = rt /\ rt[target[1]] # NoBlock
  BY <1>1 DEF TypeOK, Inductive, CallKnows, ScanKnows
<1>3. \A c \in Cluster :
        CountIn(rt, block', c) = IF c = target THEN 1 ELSE CountIn(rt, block, c)
  <2>1. TableOK /\ 1 \in Nat
    BY DEF Inductive
  <2>2. ASSUME NEW c \in Cluster
        PROVE  CountIn(rt, [block EXCEPT ![rt[target[1]]][target[2]] = 1], c)
                 = IF c = target THEN 1 ELSE CountIn(rt, block, c)
    BY <1>2, <2>1, EntryWritten
  <2>3. QED
    BY <1>1, <1>2, <2>2
<1>4. ASSUME NEW c \in Cluster, Used(c) \/ c = target PROVE Used(c)'
  <2>1. CASE c = target
    <3>1. CountIn(rt', block', c) = 1
      BY <1>1, <1>3, <2>1
    <3>2. QED
      BY <3>1 DEF Used
  <2>2. CASE c # target
    BY <1>1, <1>3, <1>4, <2>2 DEF Used
  <2>3. QED
    BY <2>1, <2>2
<1>5. UsedBefore(target) /\ UsedBefore(cursor)
  BY <1>1 DEF ScanKnows
<1>6. UsedBefore(cursor)'
  BY <1>1, <1>4, <1>5 DEF UsedBefore
<1>7. UsedBefore(After(target))'
  BY <1>1, <1>2, <1>4, <1>5, AfterIsNext DEF UsedBefore
<1>8. QED
  BY <1>1, <1>2, <1>6, <1>7 DEF ScanKnows

(* A slot in memory absent is absent on the device: the fresh block counts *)
(* nothing yet.                                                            *)
LEMMA WriteBlockScans ==
    ASSUME TypeOK, Inductive, ScanKnows, WriteBlock, UNCHANGED faults, faults \in Nat
    PROVE  ScanKnows'
<1>1. /\ UNCHANGED <<rt, loaded, resident, cursor, target>>
      /\ pc' = "blockFlush" /\ pc = "block"
      /\ block' = [block EXCEPT ![BlockOf(target)] = NewBlock]
  BY DEF WriteBlock, WrittenThen, Go, Fail, Fault, memory
<1> DEFINE s == target[1]
<1>2. /\ s \in Slot /\ loaded /\ resident = rt /\ resident[s] = NoBlock
      /\ BlockOf(target) = <<s, 0>> /\ NewBlock \in [Entry -> Nat]
  BY <1>1, ClusterIsPair
    DEF TypeOK, Inductive, CallKnows, ScanKnows, TargetInNewSlot, BlockOf, NewBlock
<1>3. MayTake(s)
  BY <1>2 DEF Inductive, ResidentFollows
<1>4. ASSUME NEW c \in Cluster PROVE Used(c)'
  <2>1. Used(c)
    BY <1>1 DEF ScanKnows
  <2>2. CASE c[1] = s
    BY <1>1, <1>2, <2>2 DEF Used
  <2>3. CASE c[1] # s
    <3>1. CountIn(rt, [block EXCEPT ![<<s, 0>>] = NewBlock], c) = CountIn(rt, block, c)
      BY <1>2, <1>3, <2>3, BlockWritten
    <3>2. QED
      BY <1>1, <1>2, <2>1, <3>1 DEF Used
  <2>4. QED
    BY <2>2, <2>3
<1>5. QED
  BY <1>1, <1>2, <1>4 DEF ScanKnows, UsedBefore

(* The table names the fresh block: what it leaves free lies behind the    *)
(* target, where the cursor will stand.                                    *)
LEMMA PublishScans ==
    ASSUME TypeOK, Inductive, ScanKnows, Publish, UNCHANGED faults, faults \in Nat
    PROVE  ScanKnows'
<1> DEFINE s == target[1]
<1>1. /\ UNCHANGED <<block, loaded, cursor, target>>
      /\ pc' = "publishFlush" /\ pc = "publish"
      /\ rt' = [rt EXCEPT ![s] = BlockOf(target)]
      /\ resident' = [resident EXCEPT ![s] = BlockOf(target)]
  BY DEF Publish, Go, Fail, Fault
<1>2. /\ s \in Slot /\ loaded /\ resident = rt
      /\ BlockOf(target) = <<s, 0>> /\ <<s, 0>> \in Cluster /\ block[<<s, 0>>] = NewBlock
      /\ target = <<s, 1>> /\ target \in Cluster
  BY <1>1, ClusterIsPair, PairIsCluster, Numbers
    DEF TypeOK, Inductive, CallKnows, ScanKnows, TargetInNewSlot, CallerIn, BlockOf
<1>3. ASSUME NEW c \in Cluster, Before(c, After(target)) PROVE Used(c)'
  <2>1. CASE c[1] # s
    <3>1. CountIn([rt EXCEPT ![s] = <<s, 0>>], block, c) = CountIn(rt, block, c)
      BY <1>2, <2>1, SlotNamed
    <3>2. Used(c)
      BY <1>1 DEF ScanKnows
    <3>3. rt'[c[1]] = rt[c[1]]
      BY <1>1, <2>1, ClusterIsPair DEF TypeOK
    <3>4. QED
      BY <1>1, <1>2, <3>1, <3>2, <3>3 DEF Used
  <2>2. CASE c[1] = s
    <3>1. c[2] \in Entry /\ c[2] <= 1
      <4>1. Before(c, target) \/ c = target
        BY <1>2, <1>3, AfterIsNext
      <4>2. s \in Nat /\ c[2] \in Nat /\ c[2] \in Entry
        BY <1>2, ClusterIsPair, GeometryAssumption DEF Slot, Entry
      <4>3. QED
        BY <1>2, <2>2, <4>1, <4>2 DEF Before
    <3>2. rt'[s] = <<s, 0>>
      BY <1>1, <1>2 DEF TypeOK
    <3>3. CountIn(rt', block', c) \in {0, NewBlock[c[2]]} /\ NewBlock[c[2]] = 1
      BY <1>1, <1>2, <2>2, <3>1, <3>2 DEF CountIn, NewBlock
    <3>4. rt'[s] # NoBlock => CountIn(rt', block', c) = 1
      BY <1>1, <1>2, <2>2, <3>2, <3>3 DEF CountIn
    <3>5. QED
      BY <2>2, <3>4 DEF Used
  <2>3. QED
    BY <2>1, <2>2
<1>4. resident' = rt'
  BY <1>1, <1>2
<1>5. QED
  BY <1>1, <1>3, <1>4 DEF ScanKnows, UsedBefore

(* A count goes down, perhaps to zero, and is the one exception until the  *)
(* flush moves the cursor back to it.                                      *)
LEMMA WriteDropScans ==
    ASSUME TypeOK, Inductive, ScanKnows, WriteDrop, UNCHANGED faults, faults \in Nat
    PROVE  ScanKnows'
<1>1. /\ UNCHANGED <<rt, loaded, resident, cursor, target>>
      /\ pc' = "dropFlush" /\ pc = "drop"
      /\ block' = [block EXCEPT ![rt[target[1]]][target[2]] = @ - 1]
      /\ CountIn(rt, block, target) > 0
  BY DEF WriteDrop, WrittenThen, Go, Fail, Fault, memory
<1>2. /\ target \in Cluster /\ rt[target[1]] # NoBlock
      /\ CountIn(rt, block, target) = block[rt[target[1]]][target[2]]
  BY <1>1 DEF TypeOK, CountIn
<1> DEFINE n == CountIn(rt, block, target) - 1
<1>3. n \in Nat
  BY <1>1, <1>2, CountIsNat
<1>4. block' = [block EXCEPT ![rt[target[1]]][target[2]] = n]
  BY <1>1, <1>2
<1>5. \A c \in Cluster : c # target => CountIn(rt, block', c) = CountIn(rt, block, c)
  <2>1. TableOK
    BY DEF Inductive
  <2> HIDE DEF n
  <2>2. ASSUME NEW c \in Cluster, c # target
        PROVE  CountIn(rt, [block EXCEPT ![rt[target[1]]][target[2]] = n], c)
                 = CountIn(rt, block, c)
    BY <1>2, <1>3, <2>1, <2>2, EntryWritten
  <2>3. QED
    BY <1>4, <2>2
<1>6. UsedBefore(cursor)
  BY <1>1 DEF ScanKnows
<1>7. \A c \in Cluster : Before(c, cursor) => Used(c)' \/ c = target
  BY <1>1, <1>5, <1>6 DEF Used, UsedBefore
<1>8. QED
  BY <1>1, <1>7 DEF ScanKnows

LEMMA FlushDropScans ==
    ASSUME TypeOK, Inductive, ScanKnows, FlushDrop
    PROVE  ScanKnows'
<1>1. /\ UNCHANGED <<rt, block, loaded, resident>> /\ pc = "dropFlush" /\ pc' = "idle"
      /\ cursor' = CursorAfterDrop
  BY DEF FlushDrop, Go, device
<1>2. \A c \in Cluster : Before(c, cursor) => Used(c) \/ c = target
  BY <1>1 DEF ScanKnows
<1>3. target \in Cluster /\ target \in Position /\ cursor \in Position
  BY AfterIsPosition DEF TypeOK
<1>4. ASSUME NEW c \in Cluster, Before(c, cursor') PROVE Used(c)
  <2>1. c \in Position
    BY AfterIsPosition
  <2>2. CASE CountIn(rt, block, target) = 0 /\ Before(target, cursor)
    <3>1. cursor' = target
      BY <1>1, <2>2 DEF CursorAfterDrop
    <3>2. Before(c, cursor) /\ c # target
      BY <1>3, <1>4, <2>1, <2>2, <3>1, BeforeTrans
    <3>3. QED
      BY <1>2, <3>2
  <2>3. CASE ~(CountIn(rt, block, target) = 0 /\ Before(target, cursor))
    <3>1. cursor' = cursor
      BY <1>1, <2>3 DEF CursorAfterDrop
    <3>2. CASE c = target
      <4>1. CountIn(rt, block, c) # 0
        BY <1>4, <2>3, <3>1, <3>2
      <4>2. QED
        BY <4>1, CountIsNat DEF Used
    <3>3. QED
      BY <1>2, <1>4, <3>1, <3>2
  <2>4. QED
    BY <2>2, <2>3
<1>5. UsedBefore(cursor)'
  BY <1>1, <1>4, SameUsed DEF UsedBefore
<1>6. QED
  BY <1>1, <1>5 DEF ScanKnows

(* Steps that change no table, count or cursor.                            *)
LEMMA StillScans ==
    ASSUME ScanKnows, UNCHANGED <<rt, block, cursor, target>>,
           loaded' => resident' = rt',
           \/ pc' = pc
           \/ pc \in {"idle", "scan", "drop"} /\ pc' \in {"idle", "scan", "drop"}
           \/ pc = "blockFlush" /\ pc' = "publish"
    PROVE  ScanKnows'
<1>1. \A c \in Cluster : Used(c)' <=> Used(c)
  BY SameUsed
<1>2. QED
  BY <1>1 DEF ScanKnows, UsedBefore

LEMMA BeginDropScans ==
    ASSUME ScanKnows, BeginDrop
    PROVE  ScanKnows'
<1>1. /\ UNCHANGED <<rt, block, loaded, resident, cursor>>
      /\ pc = "idle" /\ pc' = "drop"
  BY DEF BeginDrop, device, memory
<1>2. \A c \in Cluster : Used(c)' <=> Used(c)
  BY <1>1, SameUsed
<1>3. QED
  BY <1>1, <1>2 DEF ScanKnows, UsedBefore

LEMMA ReturnScans ==
    ASSUME ScanKnows, FlushCount \/ FlushPublish
    PROVE  ScanKnows'
<1>1. /\ UNCHANGED <<rt, block, loaded, resident>> /\ pc' = "idle"
      /\ pc \in {"countFlush", "publishFlush"} /\ cursor' = After(target)
  BY DEF FlushCount, FlushPublish, Return, Go, device
<1>2. \A c \in Cluster : Used(c)' <=> Used(c)
  BY <1>1, SameUsed
<1>3. UsedBefore(cursor)'
  BY <1>1, <1>2 DEF ScanKnows, UsedBefore
<1>4. QED
  BY <1>1, <1>3 DEF ScanKnows

LEMMA ScanInitially == Init => ScanInv
  BY NothingBeforeHeader DEF Init, ScanInv, ScanKnows, UsedBefore

LEMMA ScanKept == TypeOK /\ Inductive /\ ScanInv /\ [Next]_vars => ScanInv'
<1> SUFFICES ASSUME TypeOK, Inductive, ScanInv, [Next]_vars, faults' = 0
             PROVE  ScanKnows'
  BY DEF ScanInv
<1>1. faults \in Nat /\ ~Fault
  BY GeometryAssumption DEF TypeOK, Fault
<1>2. UNCHANGED faults /\ faults = 0
  BY <1>1
    DEF Next, AllocateStep, DropStep, vars, BeginAllocate, FoundFree, FoundAbsent, Refuse,
        WriteCount, FlushCount, WriteBlock, FlushBlock, Publish, FlushPublish, BeginDrop,
        WriteDrop, FlushDrop, DeviceError, FlushError, Writeback, Crash, WrittenThen,
        Return, Go, Fail
<1>3. ScanKnows
  BY <1>2 DEF ScanInv
<1>4. CASE BeginAllocate
  <2>1. /\ UNCHANGED <<rt, block, cursor, target>> /\ pc = "idle" /\ pc' = "scan"
        /\ resident' = rt'
    BY <1>3, <1>4 DEF BeginAllocate, Go, device, ScanKnows
  <2>2. QED
    BY <1>3, <2>1, StillScans
<1>5. CASE FoundFree
  BY <1>3, <1>5, FoundFreeScans
<1>6. CASE FoundAbsent
  BY <1>3, <1>6, FoundAbsentScans
<1>7. CASE Refuse
  <2>1. UNCHANGED <<rt, block, cursor, target, loaded, resident>> /\ pc = "scan" /\ pc' = "idle"
    BY <1>7 DEF Refuse, Go, device, memory
  <2>2. loaded' => resident' = rt'
    BY <1>3, <2>1 DEF ScanKnows
  <2>3. QED
    BY <1>3, <2>1, <2>2, StillScans
<1>8. CASE WriteCount
  BY <1>1, <1>2, <1>3, <1>8, WriteCountScans
<1>9. CASE FlushCount \/ FlushPublish
  BY <1>3, <1>9, ReturnScans
<1>10. CASE WriteBlock
  BY <1>1, <1>2, <1>3, <1>10, WriteBlockScans
<1>11. CASE FlushBlock
  <2>1. /\ UNCHANGED <<rt, block, cursor, target, loaded, resident>>
        /\ pc = "blockFlush" /\ pc' = "publish"
    BY <1>11 DEF FlushBlock, Go, device, memory
  <2>2. loaded' => resident' = rt'
    BY <1>3, <2>1 DEF ScanKnows
  <2>3. QED
    BY <1>3, <2>1, <2>2, StillScans
<1>12. CASE Publish
  BY <1>1, <1>2, <1>3, <1>12, PublishScans
<1>13. CASE BeginDrop
  BY <1>3, <1>13, BeginDropScans
<1>14. CASE WriteDrop
  BY <1>1, <1>2, <1>3, <1>14, WriteDropScans
<1>15. CASE FlushDrop
  BY <1>3, <1>15, FlushDropScans
<1>16. CASE DeviceError \/ FlushError
  BY <1>1, <1>16 DEF DeviceError, FlushError, Fail
<1>17. CASE Writeback \/ UNCHANGED vars
  <2>1. UNCHANGED <<rt, block, cursor, target, loaded, resident, pc>>
    BY <1>17 DEF Writeback, vars, device, memory
  <2>2. loaded' => resident' = rt'
    BY <1>3, <2>1 DEF ScanKnows
  <2>3. QED
    BY <1>3, <2>1, <2>2, StillScans
<1>18. CASE Crash
  BY <1>18, NothingBeforeHeader DEF Crash, ScanKnows, UsedBefore
<1>19. QED
  BY <1>4, <1>5, <1>6, <1>7, <1>8, <1>9, <1>10, <1>11, <1>12, <1>13, <1>14, <1>15, <1>16,
     <1>17, <1>18 DEF Next, AllocateStep, DropStep

LEMMA ScanInvHolds == Spec => []ScanInv
<1>1. QED
  BY ScanInitially, ScanKept, TypeCorrect, AlwaysInductive, PTL DEF Spec

(* As long as no device call has failed, no free cluster lies behind the   *)
(* cursor between calls, across crashes too: the scan that starts at the   *)
(* cursor misses nothing (alloc_cursor).                                   *)
THEOREM ScanIsComplete == Spec => []ScanMissesNothing
<1>1. ScanInv => ScanMissesNothing
  BY DEF ScanInv, ScanKnows, UsedBefore, Used, ScanMissesNothing, CursorSkipsNothing
<1>2. QED
  BY <1>1, ScanInvHolds, PTL

(* And an allocation that is refused for want of space has found every     *)
(* cluster of the whole table in use.                                      *)
THEOREM FullIsFull == Spec => []FullMeansFull
<1>1. TypeOK /\ Inductive /\ ScanInv => FullMeansFull
  <2> SUFFICES ASSUME TypeOK, Inductive, ScanInv, pc = "scan", Full, faults = 0,
                      NEW c \in Cluster
               PROVE  CountIn(rt, block, c) > 0
    BY DEF FullMeansFull
  <2>1. ScanKnows /\ loaded
    BY DEF ScanInv, Inductive, CallKnows
  <2>2. rt[c[1]] # NoBlock /\ ~Free(c)
    BY <2>1 DEF Full, ScanKnows
  <2>3. QED
    BY <2>1, <2>2, ScannedOver DEF Used
<1>2. QED
  BY <1>1, ScanInvHolds, TypeCorrect, AlwaysInductive, PTL

(***************************************************************************)
(* Room                                                                    *)
(***************************************************************************)
(* The call has grown the device past its target, and a crash takes back   *)
(* growth at most as far as what is held.                                  *)
RoomKnows ==
    /\ ~Before(len, lenD)
    /\ pc \in {"count", "countFlush", "block", "blockFlush", "publish", "publishFlush"} =>
        Before(target, len)

RoomInv == RoomFirst /\ RoomKnows

LEMMA GrowForReaches ==
    ASSUME TypeOK, NEW c \in Cluster, GrowFor(c)
    PROVE  /\ len' \in Position /\ Before(c, len')
           /\ \A p \in Position : Before(p, len) => Before(p, len')
<1>1. c \in Position /\ After(c) \in Position /\ len \in Position
  BY AfterIsPosition DEF TypeOK
<1>2. CASE Before(c, len)
  BY <1>1, <1>2 DEF GrowFor
<1>3. CASE ~Before(c, len)
  <2>1. len' = After(c) /\ Before(c, After(c))
    BY <1>3, AfterIsNext DEF GrowFor
  <2>2. ASSUME NEW p \in Position, Before(p, len) PROVE Before(p, After(c))
    <3>1. Before(len, c) \/ len = c
      BY <1>1, <1>3, BeforeTrans
    <3>2. Before(p, c)
      BY <1>1, <2>2, <3>1, BeforeTrans
    <3>3. QED
      BY <1>1, <2>1, <2>2, <3>2, BeforeTrans
  <2>3. QED
    BY <1>1, <2>1, <2>2
<1>4. QED
  BY <1>2, <1>3

Allocating == {"count", "countFlush", "block", "blockFlush", "publish", "publishFlush"}

(* Steps that change no length and add to no count.                        *)
LEMMA StillHasRoom ==
    ASSUME TypeOK, RoomInv, UNCHANGED <<len, lenD, target, held, crashes>>,
           pc' \in Allocating => pc \in Allocating,
           \A c \in Cluster : CountIn(rt', block', c) > 0 =>
                CountIn(rt, block, c) > 0 \/ crashes # 0 \/ Before(c, len)
    PROVE  RoomInv'
<1>1. RoomFirst'
  BY DEF RoomInv, RoomFirst
<1>2. RoomKnows'
  BY DEF RoomInv, RoomKnows, Allocating
<1>3. QED
  BY <1>1, <1>2 DEF RoomInv

(* A search that ends with a cluster has grown the device past it.         *)
LEMMA FoundHasRoom ==
    ASSUME TypeOK, RoomInv, NEW c \in Cluster, GrowFor(c), target' = c,
           UNCHANGED <<rt, block, lenD, held, crashes>>
    PROVE  RoomInv'
<1>1. /\ len' \in Position /\ Before(c, len')
      /\ \A p \in Position : Before(p, len) => Before(p, len')
  BY GrowForReaches
<1>2. len \in Position /\ lenD \in Position /\ \A d \in Cluster : d \in Position
  BY AfterIsPosition DEF TypeOK
<1>3. ~Before(len', lenD)
  <2>1. SUFFICES ASSUME Before(len', lenD) PROVE FALSE
    OBVIOUS
  <2>2. lenD = len \/ Before(lenD, len)
    BY <1>2, BeforeTrans DEF RoomInv, RoomKnows
  <2>3. Before(len', len)
    BY <1>1, <1>2, <2>1, <2>2, BeforeTrans
  <2>4. Before(len', len')
    BY <1>1, <2>3
  <2>5. QED
    BY <1>1, <2>4, BeforeTrans
<1>4. \A d \in Cluster : Before(d, len) => Before(d, len')
  BY <1>1, <1>2
<1>5. RoomFirst'
  BY <1>4 DEF RoomInv, RoomFirst, CountIn
<1>6. QED
  BY <1>1, <1>3, <1>5 DEF RoomInv, RoomKnows

(* A flush makes the present length durable, and the target may be held.   *)
LEMMA FlushHasRoom ==
    ASSUME TypeOK, HeldIsCounted, RoomInv, Flushed, UNCHANGED <<rt, block, len, crashes, target>>,
           pc' \in Allocating => pc \in Allocating,
           \A c \in Cluster : held'[c] > 0 =>
                held[c] > 0 \/ (c = target /\ pc \in Allocating)
    PROVE  RoomInv'
<1>1. /\ len \in Position /\ lenD \in Position /\ lenD' = len
      /\ \A d \in Cluster : d \in Position
  BY AfterIsPosition DEF TypeOK, Flushed
<1>2. ~Before(len', lenD')
  BY <1>1, BeforeTrans
<1>3. ASSUME NEW c \in Cluster, held[c] > 0 PROVE Before(c, len)
  <2>1. Before(c, lenD) /\ (lenD = len \/ Before(lenD, len))
    BY <1>1, <1>3, BeforeTrans DEF RoomInv, RoomKnows, RoomFirst
  <2>2. QED
    BY <1>1, <2>1, BeforeTrans
<1>4. pc \in Allocating => Before(target, len)
  BY DEF RoomInv, RoomKnows, Allocating
<1>5. RoomFirst'
  BY <1>1, <1>3, <1>4 DEF RoomInv, RoomFirst, CountIn
<1>6. QED
  BY <1>2, <1>4, <1>5 DEF RoomInv, RoomKnows, Allocating

LEMMA WriteCountHasRoom ==
    ASSUME TypeOK, Inductive, RoomInv, WriteCount
    PROVE  RoomInv'
<1>1. /\ UNCHANGED <<rt, len, lenD, held, crashes, target>>
      /\ pc = "count" /\ pc' \in {"countFlush", "idle"}
      /\ block' = [block EXCEPT ![resident[target[1]]][target[2]] = 1]
  BY DEF WriteCount, WrittenThen, Go, Fail, durable
<1>2. /\ target \in Cluster /\ target[1] \in Slot /\ resident[target[1]] # NoBlock /\ loaded
  BY <1>1, ClusterIsPair DEF TypeOK, Inductive, CallKnows
<1>3. resident[target[1]] = rt[target[1]] /\ TableOK
  BY <1>2 DEF Inductive, ResidentFollows
<1>4. Before(target, len)
  BY <1>1 DEF RoomInv, RoomKnows
<1>5. ASSUME NEW c \in Cluster, CountIn(rt', block', c) > 0
      PROVE  CountIn(rt, block, c) > 0 \/ Before(c, len)
  <2>1. 1 \in Nat
    OBVIOUS
  <2>2. CountIn(rt, [block EXCEPT ![rt[target[1]]][target[2]] = 1], c)
          = IF c = target THEN 1 ELSE CountIn(rt, block, c)
    BY <1>2, <1>3, <2>1, EntryWritten
  <2>3. QED
    BY <1>1, <1>3, <1>4, <1>5, <2>2
<1>6. pc' \in Allocating => pc \in Allocating
  BY <1>1 DEF Allocating
<1>7. QED
  BY <1>1, <1>5, <1>6, StillHasRoom

(* The fresh block counts itself and the target, which lies behind it.     *)
LEMMA NewSlotHasRoom ==
    ASSUME TypeOK, Inductive, RoomInv, pc \in {"block", "blockFlush", "publish"},
           NEW e \in Entry, NewBlock[e] > 0
    PROVE  Before(<<target[1], e>>, len)
<1>1. /\ target = <<target[1], 1>> /\ Before(target, len)
      /\ target[1] \in Slot /\ e \in Nat /\ e <= 1
  BY ClusterIsPair, GeometryAssumption
    DEF TypeOK, Inductive, CallKnows, TargetInNewSlot, CallerIn, RoomInv, RoomKnows,
        NewBlock, Entry
<1>2. len \in Position /\ <<target[1], e>> \in Position /\ target \in Position
  BY <1>1, AfterIsPosition, PairIsCluster DEF TypeOK
<1>3. <<target[1], e>> = target \/ Before(<<target[1], e>>, target)
  BY <1>1 DEF Before
<1>4. QED
  BY <1>1, <1>2, <1>3, BeforeTrans

LEMMA WriteBlockHasRoom ==
    ASSUME TypeOK, Inductive, RoomInv, WriteBlock
    PROVE  RoomInv'
<1> DEFINE s == target[1]
<1>1. /\ UNCHANGED <<rt, len, lenD, held, crashes, target>>
      /\ pc = "block" /\ pc' \in {"blockFlush", "idle"}
      /\ block' = [block EXCEPT ![BlockOf(target)] = NewBlock]
  BY DEF WriteBlock, WrittenThen, Go, Fail, durable
<1>2. /\ s \in Slot /\ loaded /\ resident[s] = NoBlock
      /\ BlockOf(target) = <<s, 0>> /\ <<s, 0>> \in Cluster /\ NewBlock \in [Entry -> Nat]
  BY <1>1, ClusterIsPair, PairIsCluster, Numbers
    DEF TypeOK, Inductive, CallKnows, TargetInNewSlot, BlockOf, NewBlock
<1>3. MayTake(s)
  BY <1>2 DEF Inductive, ResidentFollows
<1>4. ASSUME NEW c \in Cluster, CountIn(rt', block', c) > 0
      PROVE  CountIn(rt, block, c) > 0 \/ Before(c, len)
  <2>1. CASE c[1] # s
    <3>1. CountIn(rt, [block EXCEPT ![<<s, 0>>] = NewBlock], c) = CountIn(rt, block, c)
      BY <1>2, <1>3, <2>1, BlockWritten
    <3>2. QED
      BY <1>1, <1>2, <1>4, <3>1
  <2>2. CASE c[1] = s
    <3>1. c[2] \in Entry /\ c = <<s, c[2]>>
      BY <2>2, ClusterIsPair
    <3>2. rt[s] = <<s, 0>> /\ block'[<<s, 0>>] = NewBlock
      BY <1>1, <1>2, <1>3, <1>4, <2>2 DEF MayTake, CountIn, TypeOK
    <3>3. CountIn(rt', block', c) \in {0, NewBlock[c[2]]}
      BY <1>1, <2>2, <3>2 DEF CountIn
    <3>4. NewBlock[c[2]] > 0
      BY <1>4, <3>3
    <3>5. QED
      BY <1>1, <3>1, <3>4, NewSlotHasRoom
  <2>3. QED
    BY <2>1, <2>2
<1>5. pc' \in Allocating => pc \in Allocating
  BY <1>1 DEF Allocating
<1>6. QED
  BY <1>1, <1>4, <1>5, StillHasRoom

LEMMA PublishHasRoom ==
    ASSUME TypeOK, Inductive, RoomInv, Publish
    PROVE  RoomInv'
<1> DEFINE s == target[1]
<1>1. /\ UNCHANGED <<block, len, lenD, held, crashes, target>>
      /\ pc = "publish" /\ pc' \in {"publishFlush", "idle"}
      /\ rt' = [rt EXCEPT ![s] = BlockOf(target)]
  BY DEF Publish, Go, Fail, durable
<1>2. /\ s \in Slot /\ block[<<s, 0>>] = NewBlock
      /\ BlockOf(target) = <<s, 0>> /\ <<s, 0>> \in Cluster
  BY <1>1, ClusterIsPair, PairIsCluster, Numbers DEF TypeOK, Inductive, CallKnows, BlockOf
<1>3. ASSUME NEW c \in Cluster, CountIn(rt', block', c) > 0
      PROVE  CountIn(rt, block, c) > 0 \/ Before(c, len)
  <2>1. CASE c[1] # s
    <3>1. CountIn([rt EXCEPT ![s] = <<s, 0>>], block, c) = CountIn(rt, block, c)
      BY <1>2, <2>1, SlotNamed
    <3>2. QED
      BY <1>1, <1>2, <1>3, <3>1
  <2>2. CASE c[1] = s
    <3>1. c[2] \in Entry /\ c = <<s, c[2]>>
      BY <2>2, ClusterIsPair
    <3>2. rt'[s] = <<s, 0>> /\ block' = block
      BY <1>1, <1>2 DEF TypeOK
    <3>3. CountIn(rt', block', c) \in {0, NewBlock[c[2]]}
      BY <1>2, <2>2, <3>2 DEF CountIn
    <3>4. NewBlock[c[2]] > 0
      BY <1>3, <3>3
    <3>5. QED
      BY <1>1, <3>1, <3>4, NewSlotHasRoom
  <2>3. QED
    BY <2>1, <2>2
<1>4. pc' \in Allocating => pc \in Allocating
  BY <1>1 DEF Allocating
<1>5. QED
  BY <1>1, <1>3, <1>4, StillHasRoom

LEMMA DropHasRoom ==
    ASSUME TypeOK, Inductive, RoomInv, WriteDrop
    PROVE  RoomInv'
<1>1. /\ UNCHANGED <<rt, len, lenD, held, crashes, target>>
      /\ pc = "drop" /\ pc' \in {"dropFlush", "idle"}
      /\ block' = [block EXCEPT ![rt[target[1]]][target[2]] = @ - 1]
      /\ CountIn(rt, block, target) > 0
  BY DEF WriteDrop, WrittenThen, Go, Fail, durable
<1>2. /\ target \in Cluster /\ rt[target[1]] # NoBlock /\ TableOK
      /\ CountIn(rt, block, target) = block[rt[target[1]]][target[2]]
  BY <1>1 DEF TypeOK, CountIn, Inductive
<1> DEFINE n == CountIn(rt, block, target) - 1
<1>3. n \in Nat
  BY <1>1, <1>2, CountIsNat
<1>4. block' = [block EXCEPT ![rt[target[1]]][target[2]] = n]
  BY <1>1, <1>2
<1>5. ASSUME NEW c \in Cluster, CountIn(rt', block', c) > 0
      PROVE  CountIn(rt, block, c) > 0
  <2>1. CASE c = target
    BY <1>1, <2>1
  <2>2. CASE c # target
    <3> HIDE DEF n
    <3>1. CountIn(rt, [block EXCEPT ![rt[target[1]]][target[2]] = n], c)
            = CountIn(rt, block, c)
      BY <1>2, <1>3, <2>2, EntryWritten
    <3>2. QED
      BY <1>1, <1>4, <1>5, <3>1
  <2>3. QED
    BY <2>1, <2>2
<1>6. pc' \in Allocating => pc \in Allocating
  BY <1>1 DEF Allocating
<1>7. QED
  BY <1>1, <1>5, <1>6, StillHasRoom

LEMMA BeginDropHasRoom ==
    ASSUME TypeOK, RoomInv, BeginDrop
    PROVE  RoomInv'
<1>1. /\ UNCHANGED <<rt, block, len, lenD, crashes>> /\ pc' = "drop"
  BY DEF BeginDrop, device, durable
<1>2. \A c \in Cluster : held'[c] > 0 => held[c] > 0
  BY DEF BeginDrop, TypeOK
<1>3. QED
  BY <1>1, <1>2 DEF RoomInv, RoomFirst, RoomKnows, CountIn

LEMMA WritebackHasRoom ==
    ASSUME TypeOK, RoomInv, Writeback
    PROVE  RoomInv'
<1>1. /\ UNCHANGED <<rt, block, len, held, crashes, pc, target>>
      /\ lenD' = lenD \/ lenD' = len
  BY DEF Writeback, device
<1>2. len \in Position /\ lenD \in Position /\ \A d \in Cluster : d \in Position
  BY AfterIsPosition DEF TypeOK
<1>3. ~Before(len', lenD')
  BY <1>1, <1>2, BeforeTrans DEF RoomInv, RoomKnows
<1>4. \A c \in Cluster : Before(c, lenD) => Before(c, len)
  BY <1>2, BeforeTrans DEF RoomInv, RoomKnows
<1>5. QED
  BY <1>1, <1>3, <1>4 DEF RoomInv, RoomFirst, RoomKnows, CountIn

LEMMA CrashHasRoom ==
    ASSUME TypeOK, RoomInv, Crash
    PROVE  RoomInv'
<1>1. /\ len' = lenD /\ UNCHANGED <<lenD, held>> /\ crashes' # 0 /\ pc' = "idle"
  BY GeometryAssumption DEF Crash, durable, TypeOK
<1>2. lenD \in Position
  BY DEF TypeOK
<1>3. QED
  BY <1>1, <1>2, BeforeTrans DEF RoomInv, RoomFirst, RoomKnows

LEMMA RoomInitially == Init => RoomInv
<1> SUFFICES ASSUME Init PROVE RoomInv
  OBVIOUS
<1>1. PICK im \in Images :
        /\ rt = im.rt /\ block = im.block /\ len = im.len /\ lenD = im.len
        /\ held = im.held
  BY DEF Init
<1>2. WellFormed(im)
  BY ImagesAssumption
<1>3. \A c \in Cluster : CountIn(rt, block, c) > 0 => Before(c, len)
  BY <1>1, <1>2 DEF WellFormed
<1>4. TypeOK
  BY InitTyped
<1>5. \A c \in Cluster : held[c] > 0 => CountIn(rt, block, c) > 0
  <2>1. TAKE c \in Cluster
  <2>2. held[c] <= CountIn(rt, block, c)
    BY <1>1, <1>2 DEF WellFormed
  <2>3. held[c] \in Nat /\ CountIn(rt, block, c) \in Nat
    BY <1>4, CountIsNat DEF TypeOK
  <2>4. QED
    BY <2>2, <2>3
<1>6. len \in Position /\ len = lenD
  BY <1>1, <1>4 DEF TypeOK
<1>7. QED
  BY <1>3, <1>5, <1>6, BeforeTrans DEF Init, RoomInv, RoomFirst, RoomKnows

LEMMA RoomKept == TypeOK /\ Inductive /\ RoomInv /\ [Next]_vars => RoomInv'
<1> SUFFICES ASSUME TypeOK, Inductive, RoomInv, [Next]_vars PROVE RoomInv'
  OBVIOUS
<1>1. CASE BeginAllocate
  <2>1. /\ UNCHANGED <<rt, block, len, lenD, target, held, crashes>> /\ pc' = "scan"
    BY <1>1 DEF BeginAllocate, Go, device, durable
  <2>2. QED
    BY <2>1, StillHasRoom DEF Allocating
<1>2. CASE FoundFree
  BY <1>2, FoundHasRoom DEF FoundFree, durable
<1>3. CASE FoundAbsent
  <2>1. PICK s \in Slot : GrowFor(CallerIn(s)) /\ target' = CallerIn(s)
    BY <1>3 DEF FoundAbsent
  <2>2. CallerIn(s) \in Cluster /\ UNCHANGED <<rt, block, lenD, held, crashes>>
    BY <1>3, PairIsCluster, Numbers DEF FoundAbsent, CallerIn, durable
  <2>3. QED
    BY <2>1, <2>2, FoundHasRoom
<1>4. CASE Refuse \/ DeviceError \/ FlushError
  <2>1. UNCHANGED <<rt, block, len, lenD, target, held, crashes>> /\ pc' = "idle"
    BY <1>4 DEF Refuse, DeviceError, FlushError, Fail, Go, device, durable
  <2>2. QED
    BY <2>1, StillHasRoom DEF Allocating
<1>5. CASE WriteCount
  BY <1>5, WriteCountHasRoom
<1>6. CASE FlushCount \/ FlushPublish
  <2>1. /\ Flushed /\ UNCHANGED <<rt, block, len, crashes, target>>
        /\ pc' = "idle" /\ pc \in Allocating
        /\ held' = [held EXCEPT ![target] = @ + 1]
    BY <1>6 DEF FlushCount, FlushPublish, Return, Go, device, Allocating
  <2>2. \A c \in Cluster : held'[c] > 0 => held[c] > 0 \/ c = target
    BY <2>1 DEF TypeOK
  <2>3. QED
    BY <2>1, <2>2, FlushHasRoom DEF Inductive
<1>7. CASE WriteBlock
  BY <1>7, WriteBlockHasRoom
<1>8. CASE FlushBlock
  <2>1. /\ Flushed /\ UNCHANGED <<rt, block, len, crashes, target, held>>
        /\ pc \in Allocating
    BY <1>8 DEF FlushBlock, Go, device, Allocating
  <2>2. QED
    BY <2>1, FlushHasRoom DEF Inductive
<1>9. CASE Publish
  BY <1>9, PublishHasRoom
<1>10. CASE BeginDrop
  BY <1>10, BeginDropHasRoom
<1>11. CASE WriteDrop
  BY <1>11, DropHasRoom
<1>12. CASE FlushDrop
  <2>1. /\ Flushed /\ UNCHANGED <<rt, block, len, crashes, target, held>>
        /\ pc' \notin Allocating
    BY <1>12 DEF FlushDrop, Go, device, Allocating
  <2>2. QED
    BY <2>1, FlushHasRoom DEF Inductive
<1>13. CASE Writeback
  BY <1>13, WritebackHasRoom
<1>14. CASE Crash
  BY <1>14, CrashHasRoom
<1>15. CASE UNCHANGED vars
  <2>1. UNCHANGED <<rt, block, len, lenD, target, held, crashes, pc>>
    BY <1>15 DEF vars, device, durable
  <2>2. QED
    BY <2>1, StillHasRoom
<1>16. QED
  BY <1>1, <1>2, <1>3, <1>4, <1>5, <1>6, <1>7, <1>8, <1>9, <1>10, <1>11, <1>12, <1>13,
     <1>14, <1>15 DEF Next, AllocateStep, DropStep

(* No cluster is counted before the device reaches past it, unless a crash *)
(* took the growth back, and what a caller holds is inside the device      *)
(* after any crash (dev_grow_for_cluster comes before the count).          *)
THEOREM RoomComesFirst == Spec => []RoomFirst
<1>1. Init => RoomInv
  BY RoomInitially
<1>2. TypeOK /\ Inductive /\ RoomInv /\ [Next]_vars => RoomInv'
  BY RoomKept
<1>3. RoomInv => RoomFirst
  BY DEF RoomInv
<1>4. QED
  BY <1>1, <1>2, <1>3, TypeCorrect, AlwaysInductive, PTL DEF Spec

(***************************************************************************)
(* The allocator implements ClusterPool: each step of a call, of the       *)
(* device or of a crash is a step of the pool or leaves it as it is.       *)
(***************************************************************************)
(* A slot absent in memory that the device names, after a publication that *)
(* landed and failed, still has the block pass 2 wrote: writing it again   *)
(* changes no count.  What is being dropped lies in a slot memory knows.   *)
Republished ==
    loaded => \A s \in Slot :
        resident[s] = NoBlock /\ rt[s] # NoBlock => block[<<s, 0>>] = NewBlock

PoolInv ==
    /\ Republished
    /\ pc = "drop" /\ loaded => resident[target[1]] # NoBlock

(* One entry of a block memory knows is written: no slot absent in memory  *)
(* has that block.                                                         *)
LEMMA KnownBlockWritten ==
    ASSUME TypeOK, Inductive, PoolInv, UNCHANGED <<rt, loaded, resident>>,
           NEW t \in Cluster, rt[t[1]] # NoBlock, loaded => resident[t[1]] # NoBlock,
           NEW n, block' = [block EXCEPT ![rt[t[1]]][t[2]] = n]
    PROVE  Republished'
<1> SUFFICES ASSUME loaded, NEW s \in Slot, resident[s] = NoBlock, rt[s] # NoBlock
             PROVE  block'[<<s, 0>>] = NewBlock
  BY DEF Republished
<1>1. t[1] \in Slot /\ <<s, 0>> \in Cluster /\ rt[t[1]] \in Cluster
  BY ClusterIsPair, PairIsCluster, Numbers DEF TypeOK
<1>2. rt[s] = <<s, 0>>
  BY DEF Inductive, ResidentFollows, MayTake
<1>3. rt[t[1]] # rt[s]
  BY <1>1 DEF Inductive, TableOK
<1>4. block[<<s, 0>>] = NewBlock
  BY DEF PoolInv, Republished
<1>5. QED
  BY <1>1, <1>2, <1>3, <1>4 DEF TypeOK

LEMMA PoolInitially == Init => PoolInv
  BY DEF Init, PoolInv, Republished

LEMMA PoolKept == TypeOK /\ Inductive /\ PoolInv /\ [Next]_vars => PoolInv'
<1> SUFFICES ASSUME TypeOK, Inductive, PoolInv, [Next]_vars PROVE PoolInv'
  OBVIOUS
<1>1. CASE BeginAllocate
  <2>1. /\ UNCHANGED <<rt, block>> /\ pc' = "scan"
        /\ resident' = IF loaded THEN resident ELSE rt
    BY <1>1 DEF BeginAllocate, Go, device
  <2>2. QED
    BY <2>1 DEF PoolInv, Republished
<1>2. CASE FoundFree \/ FoundAbsent \/ Refuse \/ FlushCount \/ FlushBlock \/ FlushPublish
           \/ FlushDrop \/ DeviceError \/ FlushError
  <2>1. UNCHANGED <<rt, block, loaded, resident>> /\ pc' # "drop"
    BY <1>2 DEF FoundFree, FoundAbsent, Refuse, FlushCount, FlushBlock, FlushPublish,
                FlushDrop, DeviceError, FlushError, Return, Go, Fail, device, memory
  <2>2. QED
    BY <2>1 DEF PoolInv, Republished
<1>3. CASE WriteCount
  <2>1. /\ UNCHANGED <<rt, loaded, resident>> /\ pc = "count" /\ pc' # "drop"
        /\ block' = [block EXCEPT ![resident[target[1]]][target[2]] = 1]
    BY <1>3 DEF WriteCount, WrittenThen, Go, Fail, memory
  <2>2. target \in Cluster /\ resident[target[1]] # NoBlock
    BY <2>1 DEF TypeOK, Inductive, CallKnows
  <2>3. rt[target[1]] = resident[target[1]]
    BY <2>1, <2>2, ClusterIsPair DEF Inductive, ResidentFollows, CallKnows
  <2>4. Republished'
    BY <2>1, <2>2, <2>3, KnownBlockWritten
  <2>5. QED
    BY <2>1, <2>4 DEF PoolInv
<1>4. CASE WriteBlock
  <2>1. /\ UNCHANGED <<rt, loaded, resident, target>> /\ pc' # "drop"
        /\ block' = [block EXCEPT ![BlockOf(target)] = NewBlock]
    BY <1>4 DEF WriteBlock, WrittenThen, Go, Fail, memory
  <2>2. BlockOf(target) \in Cluster
    BY ClusterIsPair, PairIsCluster, Numbers DEF TypeOK, BlockOf
  <2>3. \A b \in Cluster : block[b] = NewBlock => block'[b] = NewBlock
    BY <2>1, <2>2 DEF TypeOK
  <2>4. \A s \in Slot : <<s, 0>> \in Cluster
    BY PairIsCluster, Numbers
  <2>5. QED
    BY <2>1, <2>3, <2>4 DEF PoolInv, Republished
<1>5. CASE Publish
  <2>1. /\ UNCHANGED <<block, loaded, target>> /\ pc = "publish" /\ pc' # "drop"
        /\ rt' = [rt EXCEPT ![target[1]] = BlockOf(target)]
        /\ resident' \in {resident, [resident EXCEPT ![target[1]] = BlockOf(target)]}
    BY <1>5 DEF Publish, Go, Fail
  <2>2. block[BlockOf(target)] = NewBlock /\ BlockOf(target) = <<target[1], 0>>
    BY <2>1 DEF Inductive, CallKnows, BlockOf
  <2>3. ASSUME NEW s \in Slot, s # target[1]
        PROVE  rt'[s] = rt[s] /\ resident'[s] = resident[s]
    BY <2>1, <2>3 DEF TypeOK
  <2>4. QED
    BY <2>1, <2>2, <2>3 DEF PoolInv, Republished
<1>6. CASE BeginDrop
  <2>1. /\ UNCHANGED <<rt, block, loaded, resident>>
        /\ target' \in Cluster /\ held[target'] > 0
    BY <1>6 DEF BeginDrop, device, memory
  <2>2. ASSUME loaded PROVE resident[target'[1]] # NoBlock
    <3>1. target'[1] \in Slot /\ target'[2] \in Entry /\ target' = <<target'[1], target'[2]>>
      BY <2>1, ClusterIsPair
    <3>2. ~MayTake(target'[1])
      BY <2>1, <3>1 DEF MayTake
    <3>3. QED
      BY <2>2, <3>1, <3>2 DEF Inductive, ResidentFollows
  <2>3. QED
    BY <2>1, <2>2 DEF PoolInv, Republished
<1>7. CASE WriteDrop
  <2>1. /\ UNCHANGED <<rt, loaded, resident>> /\ pc = "drop" /\ pc' # "drop"
        /\ block' = [block EXCEPT ![rt[target[1]]][target[2]] =
                        block[rt[target[1]]][target[2]] - 1]
        /\ CountIn(rt, block, target) > 0
    BY <1>7 DEF WriteDrop, WrittenThen, Go, Fail, memory
  <2>2. target \in Cluster /\ rt[target[1]] # NoBlock
    BY <2>1 DEF TypeOK, CountIn
  <2>3. loaded => resident[target[1]] # NoBlock
    BY <2>1 DEF PoolInv
  <2>4. Republished'
    BY <2>1, <2>2, <2>3, KnownBlockWritten
  <2>5. QED
    BY <2>1, <2>4 DEF PoolInv
<1>8. CASE Writeback \/ UNCHANGED vars
  <2>1. UNCHANGED <<rt, block, loaded, resident, pc, target>>
    BY <1>8 DEF Writeback, vars, device, memory
  <2>2. QED
    BY <2>1 DEF PoolInv, Republished
<1>9. CASE Crash
  BY <1>9 DEF Crash, PoolInv, Republished
<1>10. QED
  BY <1>1, <1>2, <1>3, <1>4, <1>5, <1>6, <1>7, <1>8, <1>9
    DEF Next, AllocateStep, DropStep

(***************************************************************************)
(* The durable counts                                                      *)
(*                                                                         *)
(* A slot the durable table does not name yet governs nothing a caller     *)
(* holds, so none of its counts has gone down: what is durable of its      *)
(* block is current or still zero.  The slot of what is being dropped is   *)
(* durable already.                                                        *)
(***************************************************************************)
DurableLags ==
    \A s \in Slot : rtD[s] # rt[s] =>
        \A e \in Entry :
            /\ held[<<s, e>>] = 0
            /\ blockD[<<s, 0>>][e] \in {0, block[<<s, 0>>][e]}

LagInv ==
    /\ DurableLags
    /\ pc = "drop" => rtD[target[1]] = rt[target[1]]

(* A lagging slot's block lies at its start.                               *)
LEMMA LaggingSlot ==
    ASSUME TypeOK, Inductive, NEW s \in Slot, rtD[s] # rt[s]
    PROVE  rtD[s] = NoBlock /\ rt[s] = <<s, 0>> /\ rt[s] # NoBlock /\ <<s, 0>> \in Cluster
<1>1. rtD[s] = NoBlock /\ rt[s] = <<s, 0>>
  BY DEF Inductive, DurableFollows
<1>2. QED
  BY <1>1, PairIsCluster, Numbers

LEMMA LagInitially == Init => LagInv
  BY DEF Init, LagInv, DurableLags

LEMMA LagStill ==
    ASSUME LagInv, UNCHANGED <<rt, block, rtD, blockD, held>>, pc' # "drop"
    PROVE  LagInv'
  BY DEF LagInv, DurableLags

LEMMA LagFlushed ==
    ASSUME Flushed, UNCHANGED <<rt, block>>, pc' # "drop"
    PROVE  LagInv'
  BY DEF LagInv, DurableLags, Flushed

LEMMA LagWriteCount ==
    ASSUME TypeOK, Inductive, LagInv, WriteCount
    PROVE  LagInv'
<1>1. /\ UNCHANGED <<rt, rtD, blockD, held>> /\ pc = "count" /\ pc' # "drop"
      /\ block' = [block EXCEPT ![resident[target[1]]][target[2]] = 1]
  BY DEF WriteCount, WrittenThen, Go, Fail, durable
<1>2. /\ target \in Cluster /\ resident[target[1]] # NoBlock /\ loaded
      /\ block[resident[target[1]]][target[2]] = 0
  BY <1>1 DEF TypeOK, Inductive, CallKnows
<1>3. /\ target[1] \in Slot /\ target[2] \in Entry
      /\ rt[target[1]] = resident[target[1]] /\ rt[target[1]] \in Cluster
  BY <1>2, ClusterIsPair DEF Inductive, ResidentFollows, TypeOK
<1>4. ASSUME NEW s \in Slot, rtD[s] # rt[s], NEW e \in Entry
      PROVE  /\ held[<<s, e>>] = 0
             /\ blockD[<<s, 0>>][e] \in {0, block'[<<s, 0>>][e]}
  <2>1. rt[s] = <<s, 0>> /\ rt[s] # NoBlock /\ <<s, 0>> \in Cluster
    BY <1>4, LaggingSlot
  <2>2. /\ held[<<s, e>>] = 0
        /\ blockD[<<s, 0>>][e] \in {0, block[<<s, 0>>][e]}
    BY <1>4 DEF LagInv, DurableLags
  <2>3. CASE s # target[1]
    <3>1. rt[target[1]] # <<s, 0>>
      BY <1>3, <2>1, <2>3 DEF Inductive, TableOK
    <3>2. block'[<<s, 0>>] = block[<<s, 0>>]
      BY <1>1, <1>3, <2>1, <3>1 DEF TypeOK
    <3>3. QED
      BY <2>2, <3>2
  <2>4. CASE s = target[1] /\ e # target[2]
    <3>1. block'[<<s, 0>>][e] = block[<<s, 0>>][e]
      BY <1>1, <1>3, <2>1, <2>4 DEF TypeOK
    <3>2. QED
      BY <2>2, <3>1
  <2>5. CASE s = target[1] /\ e = target[2]
    <3>1. block[<<s, 0>>][e] = 0
      BY <1>2, <1>3, <2>1, <2>5
    <3>2. QED
      BY <2>2, <3>1
  <2>6. QED
    BY <2>3, <2>4, <2>5
<1>5. QED
  BY <1>1, <1>4 DEF LagInv, DurableLags

(* A block written again after a half-failed publication is the same block.*)
LEMMA LagWriteBlock ==
    ASSUME TypeOK, Inductive, PoolInv, LagInv, WriteBlock
    PROVE  LagInv'
<1> DEFINE t == target[1]
<1>1. /\ UNCHANGED <<rt, rtD, blockD, held>> /\ pc = "block" /\ pc' # "drop"
      /\ block' = [block EXCEPT ![BlockOf(target)] = NewBlock]
  BY DEF WriteBlock, WrittenThen, Go, Fail, durable
<1>2. /\ t \in Slot /\ loaded /\ resident[t] = NoBlock
      /\ BlockOf(target) = <<t, 0>> /\ <<t, 0>> \in Cluster
  BY <1>1, ClusterIsPair, PairIsCluster, Numbers
    DEF TypeOK, Inductive, CallKnows, TargetInNewSlot, BlockOf
<1>3. ASSUME NEW s \in Slot, rtD[s] # rt[s]
      PROVE  block'[<<s, 0>>] = block[<<s, 0>>]
  <2>1. rt[s] # NoBlock /\ <<s, 0>> \in Cluster
    BY <1>3, LaggingSlot
  <2>2. CASE s = t
    <3>1. block[<<s, 0>>] = NewBlock
      BY <1>2, <2>1, <2>2 DEF PoolInv, Republished
    <3>2. QED
      BY <1>1, <1>2, <2>1, <2>2, <3>1 DEF TypeOK
  <2>3. CASE s # t
    BY <1>1, <1>2, <2>1, <2>3 DEF TypeOK
  <2>4. QED
    BY <2>2, <2>3
<1>4. QED
  BY <1>1, <1>3 DEF LagInv, DurableLags

(* The block is durable before the table names it.                         *)
LEMMA LagPublish ==
    ASSUME TypeOK, Inductive, LagInv, Publish
    PROVE  LagInv'
<1> DEFINE t == target[1]
<1>1. /\ UNCHANGED <<block, rtD, blockD, held>> /\ pc = "publish" /\ pc' # "drop"
      /\ rt' = [rt EXCEPT ![t] = BlockOf(target)]
  BY DEF Publish, Go, Fail, durable
<1>2. /\ t \in Slot /\ loaded /\ resident[t] = NoBlock /\ BlockOf(target) = <<t, 0>>
      /\ block[<<t, 0>>] = NewBlock /\ blockD[<<t, 0>>] = NewBlock
  BY <1>1, ClusterIsPair
    DEF TypeOK, Inductive, CallKnows, TargetInNewSlot, BlockOf
<1>3. \A e \in Entry : held[<<t, e>>] = 0
  BY <1>2 DEF Inductive, ResidentFollows, MayTake
<1>4. ASSUME NEW s \in Slot, s # t PROVE rt'[s] = rt[s]
  BY <1>1, <1>4 DEF TypeOK
<1>5. ASSUME NEW s \in Slot, rtD'[s] # rt'[s], NEW e \in Entry
      PROVE  (held[<<s, e>>] = 0 /\ blockD[<<s, 0>>][e] \in {0, block[<<s, 0>>][e]})'
  <2>1. CASE s = t
    BY <1>1, <1>2, <1>3, <2>1
  <2>2. CASE s # t
    BY <1>1, <1>4, <1>5, <2>2 DEF LagInv, DurableLags
  <2>3. QED
    BY <2>1, <2>2
<1>6. QED
  BY <1>1, <1>5 DEF LagInv, DurableLags

LEMMA LagBeginDrop ==
    ASSUME TypeOK, LagInv, BeginDrop
    PROVE  LagInv'
<1>1. PICK c \in Cluster :
        /\ held[c] > 0 /\ held' = [held EXCEPT ![c] = @ - 1] /\ target' = c
        /\ UNCHANGED <<rt, block, rtD, blockD>>
  BY DEF BeginDrop, device, durable
<1>2. c[1] \in Slot /\ c[2] \in Entry /\ c = <<c[1], c[2]>>
  BY ClusterIsPair
<1>3. rtD[c[1]] = rt[c[1]]
  <2>1. rtD[c[1]] # rt[c[1]] => held[<<c[1], c[2]>>] = 0
    BY <1>2 DEF LagInv, DurableLags
  <2>2. held[<<c[1], c[2]>>] > 0
    BY <1>1, <1>2
  <2>3. QED
    BY <2>1, <2>2
<1>4. ASSUME NEW s \in Slot, rtD[s] # rt[s], NEW e \in Entry
      PROVE  held'[<<s, e>>] = held[<<s, e>>]
  <2>1. <<s, e>> # c
    BY <1>2, <1>3, <1>4
  <2>2. QED
    BY <1>1, <2>1, PairIsCluster DEF TypeOK
<1>5. QED
  BY <1>1, <1>3, <1>4 DEF LagInv, DurableLags

LEMMA LagWriteDrop ==
    ASSUME TypeOK, Inductive, LagInv, WriteDrop
    PROVE  LagInv'
<1>1. /\ UNCHANGED <<rt, rtD, blockD, held>> /\ pc = "drop" /\ pc' # "drop"
      /\ block' = [block EXCEPT ![rt[target[1]]][target[2]] = @ - 1]
  BY DEF WriteDrop, WrittenThen, Go, Fail, durable
<1>2. target[1] \in Slot /\ rt[target[1]] \in Cluster /\ rtD[target[1]] = rt[target[1]]
  BY <1>1, ClusterIsPair DEF TypeOK, LagInv
<1>3. ASSUME NEW s \in Slot, rtD[s] # rt[s]
      PROVE  block'[<<s, 0>>] = block[<<s, 0>>]
  <2>1. rt[s] = <<s, 0>> /\ rt[s] # NoBlock /\ <<s, 0>> \in Cluster
    BY <1>3, LaggingSlot
  <2>2. rt[target[1]] # <<s, 0>>
    BY <1>2, <1>3, <2>1 DEF Inductive, TableOK
  <2>3. QED
    BY <1>1, <1>2, <2>1, <2>2 DEF TypeOK
<1>4. QED
  BY <1>1, <1>3 DEF LagInv, DurableLags

LEMMA LagWriteback ==
    ASSUME TypeOK, Inductive, LagInv, Writeback
    PROVE  LagInv'
<1>1. UNCHANGED <<rt, block, held, pc, target>>
  BY DEF Writeback, device
<1>2. CASE \E s \in Slot : rtD' = [rtD EXCEPT ![s] = rt[s]] /\ UNCHANGED blockD
  <2>1. ASSUME NEW s \in Slot PROVE rtD'[s] \in {rtD[s], rt[s]}
    BY <1>2 DEF TypeOK
  <2>2. target[1] \in Slot
    BY ClusterIsPair DEF TypeOK
  <2>3. QED
    BY <1>1, <1>2, <2>1, <2>2 DEF LagInv, DurableLags
<1>3. CASE \E c \in Cluster, e \in Entry :
             blockD' = [blockD EXCEPT ![c][e] = block[c][e]] /\ UNCHANGED rtD
  <2>1. ASSUME NEW d \in Cluster, NEW f \in Entry
        PROVE  blockD'[d][f] \in {blockD[d][f], block[d][f]}
    BY <1>3 DEF TypeOK
  <2>2. \A s \in Slot : <<s, 0>> \in Cluster
    BY PairIsCluster, Numbers
  <2>3. QED
    BY <1>1, <1>3, <2>1, <2>2 DEF LagInv, DurableLags
<1>4. CASE UNCHANGED <<rtD, blockD>>
  BY <1>1, <1>4 DEF LagInv, DurableLags
<1>5. QED
  BY <1>2, <1>3, <1>4 DEF Writeback

LEMMA LagKept ==
    TypeOK /\ Inductive /\ PoolInv /\ LagInv /\ [Next]_vars => LagInv'
<1> SUFFICES ASSUME TypeOK, Inductive, PoolInv, LagInv, [Next]_vars PROVE LagInv'
  OBVIOUS
<1>1. CASE BeginAllocate \/ FoundFree \/ FoundAbsent \/ Refuse \/ DeviceError \/ FlushError
  <2>1. UNCHANGED <<rt, block, rtD, blockD, held>> /\ pc' # "drop"
    BY <1>1 DEF BeginAllocate, FoundFree, FoundAbsent, Refuse, DeviceError, FlushError,
                Go, Fail, device, durable
  <2>2. QED
    BY <2>1, LagStill
<1>2. CASE FlushCount \/ FlushPublish \/ FlushBlock \/ FlushDrop
  <2>1. Flushed /\ UNCHANGED <<rt, block>> /\ pc' # "drop"
    BY <1>2 DEF FlushCount, FlushPublish, FlushBlock, FlushDrop, Return, Go, device
  <2>2. QED
    BY <2>1, LagFlushed
<1>3. CASE WriteCount
  BY <1>3, LagWriteCount
<1>4. CASE WriteBlock
  BY <1>4, LagWriteBlock
<1>5. CASE Publish
  BY <1>5, LagPublish
<1>6. CASE BeginDrop
  BY <1>6, LagBeginDrop
<1>7. CASE WriteDrop
  BY <1>7, LagWriteDrop
<1>8. CASE Writeback
  BY <1>8, LagWriteback
<1>9. CASE Crash
  BY <1>9 DEF Crash, LagInv, DurableLags, durable
<1>10. CASE UNCHANGED vars
  BY <1>10 DEF vars, device, durable, LagInv, DurableLags
<1>11. QED
  BY <1>1, <1>2, <1>3, <1>4, <1>5, <1>6, <1>7, <1>8, <1>9, <1>10
    DEF Next, AllocateStep, DropStep

(***************************************************************************)
(* The refinement mapping                                                  *)
(***************************************************************************)
PoolCount == [c \in Cluster |-> CountIn(rt, block, c)]
PoolCountD == [c \in Cluster |-> CountIn(rtD, blockD, c)]
PoolReady == IF pc \in {"countFlush", "publishFlush"} THEN {target} ELSE {}
PoolDue == IF pc = "drop" THEN {target} ELSE {}

LEMMA SameDurable ==
    ASSUME UNCHANGED <<rtD, blockD>>
    PROVE  UNCHANGED <<PoolCountD, Metadata(rtD)>>
<1>1. UNCHANGED PoolCountD
  BY DEF PoolCountD, CountIn
<1>2. UNCHANGED Metadata(rtD)
  BY DEF Metadata
<1>3. QED
  BY <1>1, <1>2

LEMMA SameCounts ==
    ASSUME UNCHANGED <<rt, block>>
    PROVE  UNCHANGED <<PoolCount, Metadata(rt)>>
<1>1. UNCHANGED PoolCount
  BY DEF PoolCount, CountIn
<1>2. UNCHANGED Metadata(rt)
  BY DEF Metadata
<1>3. QED
  BY <1>1, <1>2

LEMMA SamePool ==
    ASSUME UNCHANGED <<rt, held, rtD, blockD, PoolReady, PoolDue>>,
           \A c \in Cluster : CountIn(rt', block', c) = CountIn(rt, block, c)
    PROVE  UNCHANGED Pool!poolVars
<1>1. PoolCount' = PoolCount
  BY DEF PoolCount
<1>2. Metadata(rt)' = Metadata(rt)
  BY DEF Metadata
<1>3. UNCHANGED <<PoolCountD, Metadata(rtD)>>
  BY SameDurable
<1>4. QED
  BY <1>1, <1>2, <1>3 DEF Pool!poolVars, PoolCount, PoolCountD, PoolReady, PoolDue

LEMMA InitIsPool == Init => Pool!Init
<1> SUFFICES ASSUME Init PROVE Pool!Init
  OBVIOUS
<1>1. TypeOK /\ Inductive
  BY InitTyped, InitInductive
<1>2. PoolCount \in [Cluster -> Nat]
  BY <1>1, CountIsNat DEF PoolCount
<1>3. Metadata(rt) \subseteq Cluster /\ Header \in Metadata(rt)
  BY <1>1, MetadataIsCluster DEF Metadata
<1>4. \A c \in Cluster : held[c] <= PoolCount[c]
  BY <1>1 DEF PoolCount, Inductive, HeldIsCounted
<1>5. \A c \in Metadata(rt) : held[c] = 0 /\ (c # Header => PoolCount[c] > 0)
  BY <1>1, <1>3 DEF PoolCount, Inductive, MetadataIsCounted, Blocks
<1>6. PoolCountD = PoolCount /\ Metadata(rtD) = Metadata(rt)
  <2>1. rtD = rt /\ blockD = block
    BY DEF Init
  <2>2. QED
    BY <2>1 DEF PoolCount, PoolCountD
<1>7. PoolReady = {} /\ PoolDue = {}
  BY DEF Init, PoolReady, PoolDue
<1>8. QED
  BY <1>1, <1>2, <1>3, <1>4, <1>5, <1>6, <1>7
    DEF Pool!Init, PoolCount, PoolCountD, PoolReady, PoolDue, TypeOK

(* The count of the first free cluster: the pool takes that one cluster.   *)
LEMMA WriteCountTakes ==
    ASSUME TypeOK, Inductive, WriteCount
    PROVE  Pool!Take
<1>1. /\ UNCHANGED <<rt, held, rtD, blockD>> /\ pc = "count"
      /\ block' = [block EXCEPT ![resident[target[1]]][target[2]] = 1]
      /\ target' = target /\ pc' \in {"countFlush", "idle"}
  BY DEF WriteCount, WrittenThen, Go, Fail, durable
<1>2. /\ target \in Cluster /\ target # Header /\ resident[target[1]] # NoBlock
      /\ loaded /\ block[resident[target[1]]][target[2]] = 0
  BY <1>1 DEF TypeOK, Inductive, CallKnows
<1>3. rt[target[1]] = resident[target[1]] /\ TableOK
  BY <1>2, ClusterIsPair DEF Inductive, ResidentFollows
<1>4. CountIn(rt, block, target) = 0
  BY <1>2, <1>3 DEF CountIn
<1>5. ASSUME NEW c \in Cluster
      PROVE  CountIn(rt', block', c) = IF c \in {target} THEN 1 ELSE CountIn(rt, block, c)
  <2>1. 1 \in Nat
    OBVIOUS
  <2>2. CountIn(rt, [block EXCEPT ![rt[target[1]]][target[2]] = 1], c)
          = IF c = target THEN 1 ELSE CountIn(rt, block, c)
    BY <1>2, <1>3, <2>1, EntryWritten
  <2>3. QED
    BY <1>1, <1>3, <2>2
<1>6. PoolCount' = [c \in Cluster |-> IF c \in {} \cup {target} THEN 1 ELSE PoolCount[c]]
  BY <1>5 DEF PoolCount
<1>7. target \notin Metadata(rt)
  <2>1. target \notin Blocks(rt)
    BY <1>4 DEF Inductive, MetadataIsCounted
  <2>2. QED
    BY <1>2, <2>1 DEF Blocks
<1>8. target \in Pool!Free /\ {} \in SUBSET Pool!Free
  BY <1>2, <1>4, <1>7 DEF Pool!Free, PoolCount
<1>9. Metadata(rt)' = Metadata(rt) \cup {}
  BY <1>1 DEF Metadata
<1>10. PoolReady = {} /\ PoolReady' \in {{}, {target}} /\ PoolDue' = PoolDue
  BY <1>1 DEF PoolReady, PoolDue
<1>11. UNCHANGED <<PoolCountD, Metadata(rtD)>>
  BY <1>1, SameDurable
<1>12. QED
  BY <1>1, <1>6, <1>8, <1>9, <1>10, <1>11
    DEF Pool!Take, PoolCount, PoolCountD, PoolReady, PoolDue

(* A fresh block changes no count until the table names it.                *)
LEMMA WriteBlockIsHidden ==
    ASSUME TypeOK, Inductive, PoolInv, WriteBlock
    PROVE  UNCHANGED Pool!poolVars
<1> DEFINE s == target[1]
<1>1. /\ UNCHANGED <<rt, held, rtD, blockD>> /\ pc = "block"
      /\ block' = [block EXCEPT ![BlockOf(target)] = NewBlock]
      /\ pc' \in {"blockFlush", "idle"}
  BY DEF WriteBlock, WrittenThen, Go, Fail, durable
<1>2. /\ s \in Slot /\ loaded /\ resident[s] = NoBlock
      /\ BlockOf(target) = <<s, 0>> /\ <<s, 0>> \in Cluster /\ NewBlock \in [Entry -> Nat]
  BY <1>1, ClusterIsPair, PairIsCluster, Numbers
    DEF TypeOK, Inductive, CallKnows, TargetInNewSlot, BlockOf, NewBlock
<1>3. MayTake(s)
  BY <1>2 DEF Inductive, ResidentFollows
<1>4. ASSUME NEW c \in Cluster PROVE CountIn(rt', block', c) = CountIn(rt, block, c)
  <2>1. CASE c[1] # s
    <3>1. CountIn(rt, [block EXCEPT ![<<s, 0>>] = NewBlock], c) = CountIn(rt, block, c)
      BY <1>2, <1>3, <2>1, BlockWritten
    <3>2. QED
      BY <1>1, <1>2, <3>1
  <2>2. CASE c[1] = s /\ rt[s] = NoBlock
    BY <1>1, <2>2 DEF CountIn
  <2>3. CASE c[1] = s /\ rt[s] # NoBlock
    <3>1. rt[s] = <<s, 0>>
      BY <1>3, <2>3 DEF MayTake
    <3>2. block[<<s, 0>>] = NewBlock
      BY <1>2, <2>3 DEF PoolInv, Republished
    <3>3. block' = block
      BY <1>1, <1>2, <3>2 DEF TypeOK
    <3>4. QED
      BY <1>1, <3>3
  <2>4. QED
    BY <2>1, <2>2, <2>3
<1>5. UNCHANGED <<PoolReady, PoolDue>>
  BY <1>1 DEF PoolReady, PoolDue
<1>6. QED
  BY <1>1, <1>4, <1>5, SamePool

(* The table names the block: the pool takes the block for itself and the  *)
(* cluster beside it for the caller, and no other count changes.           *)
LEMMA PublishTakesNew ==
    ASSUME TypeOK, Inductive, Publish, rt[target[1]] = NoBlock
    PROVE  Pool!Take
<1> DEFINE s == target[1]
           S == {<<s, 0>>}
<1>1. /\ UNCHANGED <<block, held, rtD, blockD>> /\ pc = "publish"
      /\ rt' = [rt EXCEPT ![s] = BlockOf(target)]
      /\ target' = target /\ pc' \in {"publishFlush", "idle"}
  BY DEF Publish, Go, Fail, durable
<1>2. /\ s \in Slot /\ loaded /\ resident[s] = NoBlock /\ target = <<s, 1>>
      /\ BlockOf(target) = <<s, 0>> /\ <<s, 0>> \in Cluster /\ <<s, 1>> \in Cluster
      /\ block[<<s, 0>>] = NewBlock
  BY <1>1, ClusterIsPair, PairIsCluster, Numbers
    DEF TypeOK, Inductive, CallKnows, TargetInNewSlot, BlockOf, CallerIn
<1>3. s # 0 /\ MayTake(s)
  BY <1>2 DEF Inductive, TableOK, ResidentFollows
<1>4. <<s, 0>> \notin Metadata(rt) /\ target \notin Metadata(rt)
  <2>1. \A r \in Slot : rt[r] # <<s, 0>> /\ rt[r] # <<s, 1>>
    BY <1>3 DEF MayTake, NoBlock, Header
  <2>2. Header # <<s, 0>> /\ Header # <<s, 1>>
    BY <1>3 DEF Header
  <2>3. QED
    BY <1>2, <2>1, <2>2 DEF Metadata
<1>5. target \in Pool!Free /\ S \in SUBSET Pool!Free /\ target \notin S
  <2>1. CountIn(rt, block, <<s, 0>>) = 0 /\ CountIn(rt, block, target) = 0
    BY <1>2 DEF CountIn
  <2>2. QED
    BY <1>2, <1>4, <2>1 DEF Pool!Free
<1>6. ASSUME NEW c \in Cluster
      PROVE  CountIn(rt', block', c)
               = IF c \in S \cup {target} THEN 1 ELSE CountIn(rt, block, c)
  <2>1. CASE c[1] # s
    <3>1. CountIn([rt EXCEPT ![s] = <<s, 0>>], block, c) = CountIn(rt, block, c)
      BY <1>2, <2>1, SlotNamed
    <3>2. c \notin S \cup {target}
      BY <1>2, <2>1
    <3>3. QED
      BY <1>1, <1>2, <3>1, <3>2
  <2>2. CASE c[1] = s
    <3>1. c[2] \in Entry /\ c = <<s, c[2]>> /\ c[2] \in Nat
      BY <2>2, ClusterIsPair, GeometryAssumption DEF Entry
    <3>2. rt'[s] = <<s, 0>> /\ rt'[s] # NoBlock
      BY <1>1, <1>2, <1>3 DEF TypeOK, NoBlock, Header
    <3>3. CountIn(rt', block', c) = NewBlock[c[2]]
      BY <1>1, <1>2, <2>2, <3>2 DEF CountIn
    <3>4. CountIn(rt, block, c) = 0
      BY <2>2 DEF CountIn
    <3>5. c \in S \cup {target} <=> c[2] <= 1
      BY <1>2, <3>1
    <3>6. QED
      BY <3>1, <3>3, <3>4, <3>5 DEF NewBlock
  <2>3. QED
    BY <2>1, <2>2
<1>7. Metadata(rt)' = Metadata(rt) \cup S
  <2>1. rt'[s] = <<s, 0>> /\ \A r \in Slot : r # s => rt'[r] = rt[r]
    BY <1>1, <1>2 DEF TypeOK
  <2>2. QED
    BY <1>2, <2>1 DEF Metadata, NoBlock
<1>8. \A a, b \in S : a = b
  OBVIOUS
<1> HIDE DEF S
<1>9. PoolCount' = [c \in Cluster |-> IF c \in S \cup {target} THEN 1 ELSE PoolCount[c]]
  BY <1>6 DEF PoolCount
<1>10. PoolReady = {} /\ PoolReady' \in {{}, {target}} /\ PoolDue' = PoolDue
  BY <1>1 DEF PoolReady, PoolDue
<1>11. UNCHANGED <<PoolCountD, Metadata(rtD)>>
  BY <1>1, SameDurable
<1>12. QED
  BY <1>1, <1>5, <1>7, <1>8, <1>9, <1>10, <1>11
    DEF Pool!Take, PoolCount, PoolCountD, PoolReady, PoolDue

(* A publication retried after one that landed and failed: no count        *)
(* changes, and the call takes over the cluster the failed one counted.    *)
LEMMA PublishTakesOver ==
    ASSUME TypeOK, Inductive, Publish, rt[target[1]] # NoBlock
    PROVE  Pool!TakeOver \/ UNCHANGED Pool!poolVars
<1> DEFINE s == target[1]
<1>1. /\ UNCHANGED <<block, held, rtD, blockD>> /\ pc = "publish"
      /\ rt' = [rt EXCEPT ![s] = BlockOf(target)]
      /\ target' = target /\ pc' \in {"publishFlush", "idle"}
  BY DEF Publish, Go, Fail, durable
<1>2. /\ s \in Slot /\ loaded /\ resident[s] = NoBlock /\ target = <<s, 1>>
      /\ BlockOf(target) = <<s, 0>> /\ <<s, 1>> \in Cluster /\ 1 \in Entry
      /\ block[<<s, 0>>] = NewBlock
  BY <1>1, ClusterIsPair, PairIsCluster, Numbers
    DEF TypeOK, Inductive, CallKnows, TargetInNewSlot, BlockOf, CallerIn
<1>3. MayTake(s) /\ rt[s] = <<s, 0>>
  BY <1>2 DEF Inductive, ResidentFollows, MayTake
<1>4. rt' = rt
  BY <1>1, <1>2, <1>3 DEF TypeOK
<1>5. UNCHANGED <<PoolCount, Metadata(rt), PoolCountD, Metadata(rtD)>> /\ UNCHANGED PoolDue
  BY <1>1, <1>4, SameCounts, SameDurable DEF PoolDue
<1>6. CASE pc' = "idle"
  <2>1. UNCHANGED PoolReady
    BY <1>1, <1>6 DEF PoolReady
  <2>2. QED
    BY <1>1, <1>4, <1>5, <2>1 DEF Pool!poolVars, PoolCount, PoolCountD, PoolReady, PoolDue
<1>7. CASE pc' = "publishFlush"
  <2>1. PoolReady = {} /\ PoolReady' = {target}
    BY <1>1, <1>7 DEF PoolReady
  <2>2. PoolCount[target] = 1 /\ held[target] = 0
    BY <1>2, <1>3 DEF PoolCount, CountIn, NewBlock, MayTake
  <2>3. target \notin Metadata(rt)
    <3>1. \A r \in Slot : rt[r] # <<s, 1>>
      BY <1>3 DEF MayTake
    <3>2. Header # <<s, 1>>
      BY DEF Header
    <3>3. QED
      BY <1>2, <3>1, <3>2 DEF Metadata
  <2>4. Pool!TakeOver
    BY <1>1, <1>2, <1>5, <2>1, <2>2, <2>3
      DEF Pool!TakeOver, PoolCount, PoolCountD, PoolReady, PoolDue
  <2>5. QED
    BY <2>4
<1>8. QED
  BY <1>1, <1>6, <1>7

(* The call returns: the pool grants what it has taken, everything durable.*)
LEMMA ReturnGrants ==
    ASSUME TypeOK, FlushCount \/ FlushPublish
    PROVE  Pool!Grant
<1>1. /\ UNCHANGED <<rt, block>> /\ pc \in {"countFlush", "publishFlush"} /\ pc' = "idle"
      /\ held' = [held EXCEPT ![target] = @ + 1]
      /\ rtD' = rt /\ blockD' = block
  BY DEF FlushCount, FlushPublish, Return, Flushed, Go, device
<1>2. UNCHANGED <<PoolCount, Metadata(rt)>>
  BY <1>1, SameCounts
<1>3. PoolCountD' = PoolCount /\ Metadata(rtD)' = Metadata(rt)
  BY <1>1 DEF PoolCount, PoolCountD, CountIn, Metadata
<1>4. PoolReady = {target} /\ PoolReady' = {} /\ PoolDue' = PoolDue
  BY <1>1 DEF PoolReady, PoolDue
<1>5. QED
  BY <1>1, <1>2, <1>3, <1>4 DEF Pool!Grant, PoolCount, PoolCountD, PoolReady, PoolDue

LEMMA BeginDropForgets ==
    ASSUME TypeOK, BeginDrop
    PROVE  Pool!Forget
<1>1. PICK c \in Cluster :
        /\ held[c] > 0 /\ held' = [held EXCEPT ![c] = @ - 1] /\ target' = c
        /\ pc = "idle" /\ pc' = "drop" /\ UNCHANGED <<rt, block, rtD, blockD>>
  BY DEF BeginDrop, device, durable
<1>2. UNCHANGED <<PoolCount, Metadata(rt), PoolCountD, Metadata(rtD)>>
  BY <1>1, SameCounts, SameDurable
<1>3. PoolReady = {} /\ PoolReady' = {} /\ PoolDue = {} /\ PoolDue' = {c}
  BY <1>1 DEF PoolReady, PoolDue
<1>4. QED
  BY <1>1, <1>2, <1>3 DEF Pool!Forget, PoolCount, PoolCountD, PoolReady, PoolDue

LEMMA WriteDropReturns ==
    ASSUME TypeOK, Inductive, WriteDrop
    PROVE  Pool!Return
<1>1. /\ UNCHANGED <<rt, held, rtD, blockD>> /\ pc = "drop"
      /\ pc' \in {"dropFlush", "idle"}
      /\ block' = [block EXCEPT ![rt[target[1]]][target[2]] = @ - 1]
      /\ CountIn(rt, block, target) > 0
  BY DEF WriteDrop, WrittenThen, Go, Fail, durable
<1>2. /\ target \in Cluster /\ rt[target[1]] # NoBlock /\ TableOK
      /\ CountIn(rt, block, target) = block[rt[target[1]]][target[2]]
  BY <1>1 DEF TypeOK, CountIn, Inductive
<1> DEFINE n == CountIn(rt, block, target) - 1
<1>3. n \in Nat
  BY <1>1, <1>2, CountIsNat
<1>4. block' = [block EXCEPT ![rt[target[1]]][target[2]] = n]
  BY <1>1, <1>2
<1>5. PoolCount[target] = CountIn(rt, block, target) /\ n = PoolCount[target] - 1
  BY <1>2 DEF PoolCount
<1> HIDE DEF n
<1>6. \A c \in Cluster : CountIn(rt', block', c) = IF c = target THEN n ELSE CountIn(rt, block, c)
  <2>1. ASSUME NEW c \in Cluster
        PROVE  CountIn(rt, [block EXCEPT ![rt[target[1]]][target[2]] = n], c)
                 = IF c = target THEN n ELSE CountIn(rt, block, c)
    BY <1>2, <1>3, EntryWritten
  <2>2. QED
    BY <1>1, <1>4, <2>1
<1>7. PoolCount' = [PoolCount EXCEPT ![target] = @ - 1]
  BY <1>5, <1>6 DEF PoolCount
<1>8. Metadata(rt)' = Metadata(rt)
  BY <1>1 DEF Metadata
<1>9. PoolReady' = PoolReady /\ PoolDue = {target} /\ PoolDue' = {}
  BY <1>1 DEF PoolReady, PoolDue
<1>10. UNCHANGED <<PoolCountD, Metadata(rtD)>>
  BY <1>1, SameDurable
<1>11. QED
  BY <1>1, <1>7, <1>8, <1>9, <1>10
    DEF Pool!Return, PoolCount, PoolCountD, PoolReady, PoolDue

LEMMA FailureAbandons ==
    ASSUME DeviceError \/ FlushError
    PROVE  Pool!Abandon
<1>1. UNCHANGED <<rt, block, rtD, blockD, held>> /\ pc' = "idle"
  BY DEF DeviceError, FlushError, Fail, device, durable
<1>2. UNCHANGED <<PoolCount, Metadata(rt), PoolCountD, Metadata(rtD)>>
  BY <1>1, SameCounts, SameDurable
<1>3. PoolReady' = {} /\ PoolDue' = {}
  BY <1>1 DEF PoolReady, PoolDue
<1>4. QED
  BY <1>1, <1>2, <1>3 DEF Pool!Abandon, PoolCount, PoolCountD, PoolReady, PoolDue

(* Some counts become durable: S, as they are.                             *)
LEMMA PersistsSome ==
    ASSUME UNCHANGED <<rt, block, held, PoolReady, PoolDue>>,
           NEW S \in SUBSET Cluster,
           \A c \in Cluster : PoolCountD'[c] = IF c \in S THEN PoolCount[c] ELSE PoolCountD[c],
           Metadata(rtD)' = Metadata(rtD) \cup (Metadata(rt) \cap S)
    PROVE  Pool!Persist
<1>1. UNCHANGED <<PoolCount, Metadata(rt)>>
  BY SameCounts
<1>2. PoolCountD' = [c \in Cluster |-> IF c \in S THEN PoolCount[c] ELSE PoolCountD[c]]
  BY DEF PoolCountD
<1>3. QED
  BY <1>1, <1>2 DEF Pool!Persist, PoolCount, PoolCountD, PoolReady, PoolDue

LEMMA FlushPersists ==
    ASSUME TypeOK, Inductive, FlushBlock \/ FlushDrop
    PROVE  Pool!Persist
<1>1. /\ UNCHANGED <<rt, block, held>> /\ rtD' = rt /\ blockD' = block
      /\ UNCHANGED <<PoolReady, PoolDue>>
  BY DEF FlushBlock, FlushDrop, Flushed, Go, device, PoolReady, PoolDue
<1>2. \A c \in Cluster : PoolCountD'[c] = IF c \in Cluster THEN PoolCount[c] ELSE PoolCountD[c]
  BY <1>1 DEF PoolCount, PoolCountD, CountIn
<1>3. Metadata(rtD)' = Metadata(rt)
  BY <1>1 DEF Metadata
<1>4. Metadata(rtD) \subseteq Metadata(rt) /\ Metadata(rt) \subseteq Cluster
  BY DurableMetadata, MetadataIsCluster DEF Inductive
<1>5. Metadata(rtD)' = Metadata(rtD) \cup (Metadata(rt) \cap Cluster)
  BY <1>3, <1>4
<1>6. QED
  BY <1>1, <1>2, <1>5, PersistsSome

(* A table entry reaches the disk early: of its slot's counts, those whose *)
(* durable entry is current become durable, and the others are zero still. *)
LEMMA EntryPersists ==
    ASSUME TypeOK, Inductive, LagInv, Writeback,
           NEW s \in Slot, rtD[s] # rt[s], rtD' = [rtD EXCEPT ![s] = rt[s]],
           UNCHANGED blockD
    PROVE  Pool!Persist
<1> DEFINE S == {c \in Cluster : c[1] = s /\ blockD[<<s, 0>>][c[2]] = block[<<s, 0>>][c[2]]}
<1>1. UNCHANGED <<rt, block, held, pc, target>>
  BY DEF Writeback, device
<1>2. rtD[s] = NoBlock /\ rt[s] = <<s, 0>> /\ rt[s] # NoBlock /\ <<s, 0>> \in Cluster
  BY LaggingSlot
<1>3. rtD'[s] = <<s, 0>> /\ \A r \in Slot : r # s => rtD'[r] = rtD[r]
  BY <1>2 DEF TypeOK
<1>4. ASSUME NEW c \in Cluster
      PROVE  PoolCountD'[c] = IF c \in S THEN PoolCount[c] ELSE PoolCountD[c]
  <2>1. c[1] \in Slot /\ c[2] \in Entry
    BY ClusterIsPair
  <2>2. CASE c[1] # s
    <3>1. CountIn(rtD', blockD', c) = CountIn(rtD, blockD, c)
      BY <1>3, <2>1, <2>2 DEF CountIn
    <3>2. c \notin S
      BY <2>2
    <3>3. QED
      BY <3>1, <3>2 DEF PoolCountD
  <2>3. CASE c[1] = s
    <3>1. PoolCountD'[c] = blockD[<<s, 0>>][c[2]]
      BY <1>2, <1>3, <2>3 DEF PoolCountD, CountIn
    <3>2. PoolCount[c] = block[<<s, 0>>][c[2]] /\ PoolCountD[c] = 0
      BY <1>2, <2>3 DEF PoolCount, PoolCountD, CountIn
    <3>3. blockD[<<s, 0>>][c[2]] \in {0, block[<<s, 0>>][c[2]]}
      BY <2>1 DEF LagInv, DurableLags
    <3>4. QED
      BY <2>3, <3>1, <3>2, <3>3
  <2>4. QED
    BY <2>2, <2>3
<1>5. <<s, 0>> \in S
  <2>1. 0 \in Entry /\ blockD[<<s, 0>>][0] > 0
    BY <1>2, Numbers DEF Inductive, DurableFollows
  <2>2. blockD[<<s, 0>>][0] = block[<<s, 0>>][0]
    BY <2>1 DEF LagInv, DurableLags
  <2>3. QED
    BY <1>2, <2>2
<1>6. ASSUME NEW c \in Metadata(rt), c \in S PROVE c \in Metadata(rtD) \cup {<<s, 0>>}
  <2>1. CASE c = Header
    BY <2>1 DEF Metadata
  <2>2. CASE c # Header
    <3>1. PICK r \in Slot : c = rt[r]
      BY <2>2 DEF Metadata
    <3>2. rtD[r] = rt[r] \/ rt[r] = <<r, 0>>
      BY DEF Inductive, DurableFollows
    <3>3. rt[r] = <<r, 0>> => r = s
      BY <1>6, <3>1
    <3>4. QED
      BY <3>1, <3>2, <3>3 DEF Metadata
  <2>3. QED
    BY <2>1, <2>2
<1>7. Metadata(rtD)' = Metadata(rtD) \cup {<<s, 0>>}
  BY <1>2, <1>3 DEF Metadata, NoBlock
<1>8. <<s, 0>> \in Metadata(rt)
  BY <1>2 DEF Metadata
<1>9. S \in SUBSET Cluster /\ Metadata(rtD)' = Metadata(rtD) \cup (Metadata(rt) \cap S)
  BY <1>5, <1>6, <1>7, <1>8
<1> HIDE DEF S
<1>10. UNCHANGED <<PoolReady, PoolDue>>
  BY <1>1 DEF PoolReady, PoolDue
<1>11. QED
  BY <1>1, <1>4, <1>9, <1>10, PersistsSome

(* A block's entry reaches the disk early: one count, if the durable table *)
(* names that block, and nothing the pool sees otherwise.                  *)
LEMMA CountPersists ==
    ASSUME TypeOK, Inductive, Writeback,
           NEW b \in Cluster, NEW e \in Entry,
           blockD' = [blockD EXCEPT ![b][e] = block[b][e]], UNCHANGED rtD
    PROVE  Pool!Persist
<1> DEFINE S == {c \in Cluster : c[2] = e /\ rtD[c[1]] = b /\ b # NoBlock}
<1>1. UNCHANGED <<rt, block, held, pc, target>>
  BY DEF Writeback, device
<1>2. ASSUME NEW c \in Cluster
      PROVE  PoolCountD'[c] = IF c \in S THEN PoolCount[c] ELSE PoolCountD[c]
  <2>1. c[1] \in Slot /\ c[2] \in Entry /\ rtD[c[1]] \in Cluster
    BY ClusterIsPair DEF TypeOK
  <2>2. CASE c \in S
    <3>1. rt[c[1]] = rtD[c[1]]
      BY <2>1, <2>2, DurableBlock DEF Inductive
    <3>2. blockD'[b][e] = block[b][e]
      BY DEF TypeOK
    <3>3. QED
      BY <2>2, <3>1, <3>2 DEF PoolCount, PoolCountD, CountIn
  <2>3. CASE c \notin S
    <3>1. rtD[c[1]] # NoBlock => blockD'[rtD[c[1]]][c[2]] = blockD[rtD[c[1]]][c[2]]
      BY <2>1, <2>3 DEF TypeOK
    <3>2. QED
      BY <2>3, <3>1 DEF PoolCountD, CountIn
  <2>4. QED
    BY <2>2, <2>3
<1>3. ASSUME NEW c \in Metadata(rt), c \in S PROVE c \in Metadata(rtD)
  <2>1. CASE c = Header
    BY <2>1 DEF Metadata
  <2>2. CASE c # Header
    <3>1. PICK r \in Slot : c = rt[r]
      BY <2>2 DEF Metadata
    <3>2. rtD[r] = rt[r] \/ (rtD[r] = NoBlock /\ rt[r] = <<r, 0>>)
      BY DEF Inductive, DurableFollows
    <3>3. ~(rtD[r] = NoBlock /\ rt[r] = <<r, 0>>)
      BY <1>3, <3>1
    <3>4. QED
      BY <3>1, <3>2, <3>3 DEF Metadata
  <2>3. QED
    BY <2>1, <2>2
<1>4. Metadata(rtD)' = Metadata(rtD)
  BY DEF Metadata
<1>5. S \in SUBSET Cluster /\ Metadata(rtD)' = Metadata(rtD) \cup (Metadata(rt) \cap S)
  BY <1>3, <1>4
<1> HIDE DEF S
<1>6. UNCHANGED <<PoolReady, PoolDue>>
  BY <1>1 DEF PoolReady, PoolDue
<1>7. QED
  BY <1>1, <1>2, <1>5, <1>6, PersistsSome

LEMMA WritebackPersists ==
    ASSUME TypeOK, Inductive, LagInv, Writeback
    PROVE  Pool!Persist \/ UNCHANGED Pool!poolVars
<1>1. CASE \E s \in Slot : rtD[s] # rt[s] /\ rtD' = [rtD EXCEPT ![s] = rt[s]]
                           /\ UNCHANGED blockD
  BY <1>1, EntryPersists
<1>2. CASE \E c \in Cluster, e \in Entry :
             blockD' = [blockD EXCEPT ![c][e] = block[c][e]] /\ UNCHANGED rtD
  BY <1>2, CountPersists
<1>3. CASE UNCHANGED <<rtD, blockD>>
  <2>1. UNCHANGED <<rt, block, held, pc, target>>
    BY DEF Writeback, device
  <2>2. UNCHANGED <<PoolReady, PoolDue>>
    BY <2>1 DEF PoolReady, PoolDue
  <2>3. \A c \in Cluster : CountIn(rt', block', c) = CountIn(rt, block, c)
    BY <2>1
  <2>4. QED
    BY <1>3, <2>1, <2>2, <2>3, SamePool
<1>4. QED
  BY <1>1, <1>2, <1>3 DEF Writeback

(* A crash: the durable counts are what is left.                           *)
LEMMA CrashIsPool ==
    ASSUME Crash
    PROVE  Pool!Crash
<1>1. UNCHANGED <<held, rtD, blockD>> /\ rt' = rtD /\ block' = blockD /\ pc' = "idle"
  BY DEF Crash, durable
<1>2. PoolCount' = PoolCountD /\ Metadata(rt)' = Metadata(rtD)
  BY <1>1 DEF PoolCount, PoolCountD, CountIn, Metadata
<1>3. UNCHANGED <<PoolCountD, Metadata(rtD)>>
  BY <1>1, SameDurable
<1>4. PoolReady' = {} /\ PoolDue' = {}
  BY <1>1 DEF PoolReady, PoolDue
<1>5. QED
  BY <1>1, <1>2, <1>3, <1>4 DEF Pool!Crash, PoolCount, PoolCountD, PoolReady, PoolDue

LEMMA StepIsPool ==
    TypeOK /\ Inductive /\ PoolInv /\ LagInv /\ [Next]_vars
        => [Pool!Next]_(Pool!poolVars)
<1> SUFFICES ASSUME TypeOK, Inductive, PoolInv, LagInv, [Next]_vars
             PROVE  Pool!Next \/ UNCHANGED Pool!poolVars
  OBVIOUS
<1>1. CASE BeginAllocate \/ FoundFree \/ FoundAbsent \/ Refuse \/ UNCHANGED vars
  <2>1. UNCHANGED <<rt, block, rtD, blockD, held>>
    BY <1>1 DEF BeginAllocate, FoundFree, FoundAbsent, Refuse, vars, device, durable
  <2>2. UNCHANGED <<PoolReady, PoolDue>>
    BY <1>1 DEF BeginAllocate, FoundFree, FoundAbsent, Refuse, Go, vars, PoolReady, PoolDue
  <2>3. \A c \in Cluster : CountIn(rt', block', c) = CountIn(rt, block, c)
    BY <2>1
  <2>4. QED
    BY <2>1, <2>2, <2>3, SamePool
<1>2. CASE WriteCount
  BY <1>2, WriteCountTakes DEF Pool!Next
<1>3. CASE FlushCount \/ FlushPublish
  BY <1>3, ReturnGrants DEF Pool!Next
<1>4. CASE WriteBlock
  BY <1>4, WriteBlockIsHidden
<1>5. CASE Publish
  BY <1>5, PublishTakesNew, PublishTakesOver DEF Pool!Next
<1>6. CASE BeginDrop
  BY <1>6, BeginDropForgets DEF Pool!Next
<1>7. CASE WriteDrop
  BY <1>7, WriteDropReturns DEF Pool!Next
<1>8. CASE FlushBlock \/ FlushDrop
  BY <1>8, FlushPersists DEF Pool!Next
<1>9. CASE DeviceError \/ FlushError
  BY <1>9, FailureAbandons DEF Pool!Next
<1>10. CASE Writeback
  BY <1>10, WritebackPersists DEF Pool!Next
<1>11. CASE Crash
  BY <1>11, CrashIsPool DEF Pool!Next
<1>12. QED
  BY <1>1, <1>2, <1>3, <1>4, <1>5, <1>6, <1>7, <1>8, <1>9, <1>10, <1>11
    DEF Next, AllocateStep, DropStep

(* Allocation and release, with their blocks, scan, flushes, failures and  *)
(* crashes, implement the pool: a call counts one free cluster for its     *)
(* caller and at most one the allocator keeps, and changes no other count; *)
(* a call that retries a publication changes none; a cluster is granted    *)
(* with every count durable; what an early write-back makes durable is     *)
(* current; and a crash leaves the durable counts and nothing else         *)
(* (allocate_cluster, decrement_refcount).                                 *)
THEOREM AllocatorImplementsPool == Spec => ImplementsPool
<1>1. Init => PoolInv /\ LagInv
  BY PoolInitially, LagInitially
<1>2. TypeOK /\ Inductive /\ PoolInv /\ LagInv /\ [Next]_vars => PoolInv' /\ LagInv'
  BY PoolKept, LagKept
<1>3. Init => Pool!Init
  BY InitIsPool
<1>4. TypeOK /\ Inductive /\ PoolInv /\ LagInv /\ [Next]_vars
        => [Pool!Next]_(Pool!poolVars)
  BY StepIsPool
<1>5. QED
  BY <1>1, <1>2, <1>3, <1>4, TypeCorrect, AlwaysInductive, PTL
    DEF Spec, ImplementsPool, Pool!Spec
===============================================================================
