----------------------------- MODULE ImageLayout -----------------------------
(***************************************************************************)
(* The on-disk structures the write path works on, as pure operators: L1   *)
(* and L2 entries, what an L2 entry means (ClusterMap), what a virtual     *)
(* word reads as through a given L1 table, and the paths a reference count *)
(* counts.  Used by WritePath on the device, on the durable copy and on    *)
(* the tables a snapshot kept.                                             *)
(*                                                                         *)
(* A virtual cluster is <<l1_index, l2_index>>, the address split_virtual  *)
(* computes; a virtual word is <<virtual cluster, word in cluster>>.       *)
(***************************************************************************)
EXTENDS Naturals, FiniteSets

CONSTANTS
    L1Len,      \* entries of the L1 table
    L2Len,      \* entries of an L2 table
    Words,      \* addressable words of a cluster
    Clusters    \* host clusters, numbered from 1

ASSUME LayoutAssumption ==
    {L1Len, L2Len, Words, Clusters} \subseteq Nat \ {0}

L1Index == 0 .. L1Len - 1
L2Index == 0 .. L2Len - 1
Word == 0 .. Words - 1
VCluster == L1Index \X L2Index
VWord == VCluster \X Word
Cluster == 1 .. Clusters

(* Offset zero names nothing; one offset stands for all those past the end *)
(* of any image.                                                           *)
None == 0
Outside == Clusters + 1
Offset == 0 .. Outside

(* An L1 entry is an offset and COPIED; an L2 entry adds the compressed    *)
(* and zero flags, and which compressed payload of the host cluster it is. *)
(* A straddling payload is one that ends in the next host cluster; none    *)
(* lies in the header's cluster, which is not modelled.                    *)
L1Entry == [at : Offset, copied : BOOLEAN]
L2Entry == {e \in [kind : {"standard", "zero", "compressed", "straddling"},
                   at : Offset, copied : BOOLEAN, part : Word] :
              e.kind \in {"compressed", "straddling"} => e.at # None}

NoL1Entry == [at |-> None, copied |-> FALSE]
NoEntry == [kind |-> "standard", at |-> None, copied |-> FALSE, part |-> 0]
EmptyTable == [j \in L2Index |-> NoEntry]

(* l2_entry_for: COPIED is set because a cluster just allocated is         *)
(* referenced once.                                                        *)
L1EntryFor(c) == [at |-> c, copied |-> TRUE]
L2EntryFor(c) == [NoEntry EXCEPT !.at = c, !.copied = TRUE]

(* The device: both tables, the counts, cluster contents (a cluster is a   *)
(* table or data, by whoever wrote it) and the length in clusters.         *)
Device == [l1 : [L1Index -> L1Entry],
           rc : [Cluster -> Nat],
           table : [Cluster -> [L2Index -> L2Entry]],
           data : [Cluster -> [Word -> Nat]],
           len : 0 .. Clusters]

(* The last host cluster an entry's bytes reach.                           *)
LastOf(entry) == IF entry.kind = "straddling" THEN entry.at + 1 ELSE entry.at

(* lookup_cluster's verdict on an entry.  COPIED counts only under a       *)
(* COPIED L1 entry.                                                        *)
MapOf(entry, l1Copied) ==
    [case |-> IF entry.kind \in {"compressed", "straddling"} THEN "Compressed"
              ELSE IF entry.kind = "zero" THEN "Zero"
              ELSE IF entry.at = None THEN "Unallocated"
              ELSE "Plain",
     host |-> entry.at,
     last |-> LastOf(entry),
     part |-> entry.part,
     copied |-> l1Copied /\ entry.copied]

ClusterMap == {MapOf(e, b) : e \in L2Entry, b \in BOOLEAN}

Unallocated == MapOf(NoEntry, FALSE)

(* The words of a compressed payload, what decompressing it yields, and    *)
(* whether it decodes at all: a run of zeros does not.                     *)
Payload(data, map) ==
    <<data[map.host][map.part], data[map.last][IF map.last = map.host THEN map.part ELSE 0]>>
Decompressed(data, map) ==
    [w \in Word |-> Payload(data, map)[IF w = 0 THEN 1 ELSE 2]]
Decodes(data, map) == 0 \notin {Payload(data, map)[1], Payload(data, map)[2]}

(* read_unallocated: the backing image's bytes, and zeros past its end or  *)
(* without one.                                                            *)
Linear(v, w) == (v[1] * L2Len + v[2]) * Words + w
BackingWords(backing, v) ==
    [w \in Word |-> IF Linear(v, w) < backing.size THEN backing.data[v][w] ELSE 0]

(* The bytes of a whole virtual cluster, given what its entry maps to.     *)
ClusterWords(data, backing, v, map) ==
    CASE map.case = "Plain" -> data[map.host]
      [] map.case = "Compressed" -> Decompressed(data, map)
      [] map.case = "Zero" -> [w \in Word |-> 0]
      [] map.case = "Unallocated" -> BackingWords(backing, v)

(* The disk seen through the L2 tables `tableAt` names (an active or a     *)
(* snapshot's L1 table).                                                   *)
EntryAt(d, tableAt, v) ==
    IF tableAt[v[1]] \notin Cluster THEN NoEntry ELSE d.table[tableAt[v[1]]][v[2]]

ViewThrough(d, tableAt, backing) ==
    [x \in VWord |->
        LET map == MapOf(EntryAt(d, tableAt, x[1]), FALSE)
        IN  IF map.last >= Outside THEN 0
            ELSE ClusterWords(d.data, backing, x[1], map)[x[2]]]

Targets(l1) == [i \in L1Index |-> l1[i].at]

(* The references to host cluster c through one L1 table: as an L2 table,  *)
(* and from the entries of the L2 tables it names.  The format counts      *)
(* every host cluster a payload lies in.                                   *)
PathsThrough(d, tableAt, c) ==
    {<<i>> : i \in {k \in L1Index : tableAt[k] = c}}
    \cup {v \in VCluster : c \in {EntryAt(d, tableAt, v).at, LastOf(EntryAt(d, tableAt, v))}}

(* What the reference count of c counts: the references from the active    *)
(* table and from the snapshot's.                                          *)
References(d, snap, c) ==
    Cardinality(PathsThrough(d, Targets(d.l1), c))
    + Cardinality(PathsThrough(d, snap, c))

(* Every way some positions of a function may be old and the others new.   *)
Mixed(old, new) ==
    {[k \in DOMAIN old |-> IF k \in S THEN new[k] ELSE old[k]] :
        S \in SUBSET {k \in DOMAIN old : old[k] # new[k]}}

(* The same, word by word or entry by entry, for clusters.                 *)
MixedRows(old, new) ==
    {[c \in Cluster |-> [k \in DOMAIN old[c] |->
        IF <<c, k>> \in S THEN new[c][k] ELSE old[c][k]]] :
        S \in SUBSET {x \in Cluster \X (L2Index \cup Word) :
                        /\ x[2] \in DOMAIN old[x[1]]
                        /\ old[x[1]][x[2]] # new[x[1]][x[2]]}}
=============================================================================
