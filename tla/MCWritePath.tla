----------------------------- MODULE MCWritePath -----------------------------
(***************************************************************************)
(* Instances of WritePath for TLC.  Two virtual clusters of two words      *)
(* under one L1 entry, or one each under two; a handful of host clusters,  *)
(* of which each image uses the first few.                                 *)
(***************************************************************************)
EXTENDS WritePath, TLC

V1 == <<0, 0>>
V2 == <<IF L1Len = 1 THEN 0 ELSE 1, IF L1Len = 1 THEN 1 ELSE 0>>

NoBacking == [size |-> 0, data |-> [v \in VCluster |-> [w \in Word |-> 0]]]

(* A backing image one word shorter than the disk.                         *)
ShortBacking ==
    [size |-> L1Len * L2Len * Words - 1,
     data |-> [v \in VCluster |-> [w \in Word |-> 7]]]

NoSnapshot == [i \in L1Index |-> None]

Bare ==
    [l1 |-> [i \in L1Index |-> NoL1Entry],
     rc |-> [c \in Cluster |-> 0],
     table |-> [c \in Cluster |-> EmptyTable],
     data |-> [c \in Cluster |-> [w \in Word |-> 0]],
     len |-> 0]

Standard(c, copied) == [L2EntryFor(c) EXCEPT !.copied = copied]
CompressedAt(c, p) == [NoEntry EXCEPT !.kind = "compressed", !.at = c, !.part = p]
StraddlingAt(c, p) == [NoEntry EXCEPT !.kind = "straddling", !.at = c, !.part = p]
ZeroAt(c) == [NoEntry EXCEPT !.kind = "zero", !.at = c]

Two(e1, e2) ==
    [j \in L2Index |-> IF j = V1[2] THEN e1 ELSE IF j = V2[2] THEN e2 ELSE NoEntry]

(* Nothing is allocated at all; reads go to a shorter backing image.       *)
Fresh == [dev |-> Bare, snap |-> NoSnapshot, backing |-> ShortBacking]

(* One table: a cluster written before, and an unallocated one.            *)
Plain ==
    [dev |-> [Bare EXCEPT !.l1[0] = L1EntryFor(1),
                          !.rc = (1 :> 1 @@ 2 :> 1) @@ @,
                          !.table[1] = Two(Standard(2, TRUE), NoEntry),
                          !.data[2] = [w \in Word |-> 3 + w],
                          !.len = 2],
     snap |-> NoSnapshot, backing |-> ShortBacking]

(* What taking an internal snapshot leaves: both L1 tables name one table, *)
(* everything in it is counted twice, and COPIED is clear throughout.      *)
Snapshot ==
    [dev |-> [Bare EXCEPT !.l1[0] = [at |-> 1, copied |-> FALSE],
                          !.rc = (1 :> 2 @@ 2 :> 2) @@ @,
                          !.table[1] = Two(Standard(2, FALSE), NoEntry),
                          !.data[2] = [w \in Word |-> 3 + w],
                          !.len = 2],
     snap |-> [NoSnapshot EXCEPT ![0] = 1], backing |-> NoBacking]

(* The same, where both virtual clusters hold data.                        *)
SnapshotOfTwo ==
    [Snapshot EXCEPT !.dev.rc = (3 :> 2) @@ @,
                     !.dev.table[1] = Two(Standard(2, FALSE), Standard(3, FALSE)),
                     !.dev.data[3] = [w \in Word |-> 5 + w],
                     !.dev.len = 3]

(* As SnapshotOfTwo, with COPIED left set inside the shared table.         *)
StaleCopied ==
    [SnapshotOfTwo EXCEPT
        !.dev.table[1] = Two(Standard(2, TRUE), Standard(3, TRUE))]

(* One data cluster shared by two entries of an unshared table.            *)
SharedData ==
    [dev |-> [Bare EXCEPT !.l1[0] = L1EntryFor(1),
                          !.rc = (1 :> 1 @@ 2 :> 2) @@ @,
                          !.table[1] = Two(Standard(2, FALSE), Standard(2, FALSE)),
                          !.data[2] = [w \in Word |-> 3 + w],
                          !.len = 2],
     snap |-> NoSnapshot, backing |-> NoBacking]

(* Two compressed clusters packed into one host cluster.                   *)
Packed ==
    [SharedData EXCEPT
        !.dev.table[1] = Two(CompressedAt(2, 0), CompressedAt(2, 1))]

(* One compressed cluster, alone in its host cluster, beside a plain one.  *)
Compressed ==
    [SharedData EXCEPT
        !.dev.rc = (2 :> 1 @@ 3 :> 1) @@ @,
        !.dev.table[1] = Two(CompressedAt(2, 0), Standard(3, TRUE)),
        !.dev.data[3] = [w \in Word |-> 5 + w],
        !.dev.len = 3]

(* A zero cluster over a backing image, and a cluster whose count is one   *)
(* though COPIED is clear.                                                 *)
Zeroed ==
    [Plain EXCEPT !.dev.table[1] = Two(ZeroAt(None), Standard(2, FALSE))]

(* A zero cluster that keeps a preallocated host cluster, shared with a    *)
(* snapshot in the second image.                                           *)
Preallocated ==
    [SharedData EXCEPT
        !.dev.rc = (2 :> 1 @@ 3 :> 1) @@ @,
        !.dev.table[1] = Two(ZeroAt(2), Standard(3, TRUE)),
        !.dev.data[3] = [w \in Word |-> 5 + w],
        !.dev.len = 3]

PreallocatedSnapshot ==
    [SnapshotOfTwo EXCEPT !.dev.table[1] = Two(ZeroAt(2), Standard(3, FALSE))]

(* A compressed payload that ends in the host cluster where the next one   *)
(* begins.                                                                 *)
Straddling ==
    [SharedData EXCEPT
        !.dev.rc = (2 :> 1 @@ 3 :> 2) @@ @,
        !.dev.table[1] = Two(StraddlingAt(2, 1), CompressedAt(3, 1)),
        !.dev.data[3] = [w \in Word |-> 5 + w],
        !.dev.len = 3]

(* A payload that does not decode, packed with one that does; and one that *)
(* ends past the end of the image.                                         *)
Garbled ==
    [Packed EXCEPT !.dev.data[2] = [w \in Word |-> IF w = 0 THEN 0 ELSE 4]]

GarbledAlone ==
    [Garbled EXCEPT !.dev.table[1] = Two(CompressedAt(2, 0), NoEntry),
                    !.dev.rc = (2 :> 1) @@ @]

CutShort == [Plain EXCEPT !.dev.table[1] = Two(StraddlingAt(2, 0), NoEntry)]

(* Entries that name a table and a cluster past the end of the image.      *)
Damaged ==
    [Plain EXCEPT !.dev.table[1] = Two(Standard(Outside, TRUE), NoEntry),
                  !.dev.l1 = [i \in L1Index |-> IF i = 0 THEN @[0]
                                                ELSE L1EntryFor(Outside)]]

(* A compressed cluster that the counts do not know of, further out than   *)
(* the allocations of a run get.                                           *)
Uncounted ==
    [SharedData EXCEPT !.dev.rc = (2 :> 0) @@ @, !.dev.len = Clusters,
                       !.dev.data[Clusters] = [w \in Word |-> 3 + w],
                       !.dev.table[1] = Two(CompressedAt(Clusters, 0), NoEntry)]

CrashImages == {Fresh, Plain, Snapshot, SharedData, Packed, Compressed, Zeroed,
                Preallocated, Straddling, Garbled}
FaultImages == {Fresh, Snapshot, SharedData, Compressed}
WriterImages == {Fresh, SnapshotOfTwo, SharedData, Packed, PreallocatedSnapshot, Straddling}
ReaderImages == {Fresh, Plain, Packed, Compressed, Zeroed}
TwoTableImages == {Plain, Damaged, Uncounted, GarbledAlone, CutShort}
SnapshotImages == {Snapshot}
StaleImages == {StaleCopied}

(* What the theorems about counts and COPIED ask of an image holds of      *)
(* those a run opens, but for the three that are meant to be damaged.      *)
ASSUME ImagesAreSound ==
    \A image \in Images \ {StaleCopied, Uncounted, CutShort} : SoundImage(image)

ASSUME ImagesAreInside == \A image \in Images : InsideImage(image)

(* What the theorems about readers beside writers ask besides.             *)
ASSUME ReadersShareNothing ==
    \A image \in Images \cap (ReaderImages \cup {Plain, Damaged, GarbledAlone}) : Unshared(image)
=============================================================================
