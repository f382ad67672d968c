---------------------------- MODULE ImageHeader ----------------------------
(***************************************************************************)
(* `Header::parse`, `check_supported` and `check_writable` on the fields   *)
(* of a header, and what opening makes of a file too short for all of      *)
(* them.  Where a field lies and its byte order are left out.              *)
(***************************************************************************)
EXTENDS Naturals

CONSTANTS
    MinClusterBits, MaxClusterBits,     \* 9 and 21 in the code
    TableEntryBytes                     \* 8

ASSUME HeaderAssumption ==
    /\ {MinClusterBits, MaxClusterBits, TableEntryBytes} \subseteq Nat \ {0}
    /\ MinClusterBits <= MaxClusterBits
    \* a cluster holds at least one table entry
    /\ \A bits \in MinClusterBits .. MaxClusterBits :
           2 ^ bits \in Nat /\ 2 ^ bits >= TableEntryBytes

(* Bits of incompatible_features the code names, and one it does not.      *)
Feature == {"DIRTY", "CORRUPT", "DATA_FILE", "COMPRESSION_TYPE", "EXTENDED_L2", "unknown"}
KnownFeatures == {"DIRTY", "CORRUPT", "COMPRESSION_TYPE"}

(* How much of the 112 bytes the device had: less than a version 2 header, *)
(* no more than one, or all of them.  Missing bytes are filled with zeros  *)
(* from 72 on, so `parse` never sees a short buffer.                       *)
Prefix == {"short", "v2", "whole"}

HeadType ==
    [magic : BOOLEAN, version : Nat, cluster_bits : Nat, virtual_size : Nat,
     crypt_method : Nat, l1_size : Nat, l1_table_offset : Nat,
     refcount_table_offset : Nat, snapshots_offset : Nat,
     backing_file_offset : Nat, backing_file_size : Nat, incompatible : SUBSET Feature,
     header_length : {"short", "long"}, compression_type : Nat]

HeadRead(file) ==
    IF file.prefix = "v2"
    THEN [file.head EXCEPT !.incompatible = {}, !.header_length = "short",
                           !.compression_type = 0]
    ELSE file.head

(* Version 2 has no feature words, and the compression type counts only    *)
(* when the header length covers it.                                       *)
FeaturesOf(head) == IF head.version >= 3 THEN head.incompatible ELSE {}
CompressionOf(head) ==
    IF head.version >= 3 /\ head.header_length = "long" THEN head.compression_type ELSE 0

ClusterSizeOf(head) == 2 ^ head.cluster_bits
L2EntriesOf(head) == ClusterSizeOf(head) \div TableEntryBytes

(* What one L1 entry covers, and the entries a disk needs: rounded up.     *)
CoveredByL1(head) == ClusterSizeOf(head) * L2EntriesOf(head)
NeededL1(head) == (head.virtual_size + CoveredByL1(head) - 1) \div CoveredByL1(head)

(* A table's offset is a multiple of the cluster size.                     *)
TablesAligned(head) ==
    \A at \in {head.l1_table_offset, head.refcount_table_offset, head.snapshots_offset} :
        at % ClusterSizeOf(head) = 0

(* The backing file's name lies in the first cluster, whether or not the   *)
(* chain will use it.                                                      *)
NameInFirstCluster(head) ==
    /\ head.backing_file_offset <= ClusterSizeOf(head)
    /\ head.backing_file_size <= ClusterSizeOf(head) - head.backing_file_offset

Parses(head) ==
    /\ head.magic
    /\ head.version \in {2, 3}
    /\ head.cluster_bits \in MinClusterBits .. MaxClusterBits
    /\ head.l1_size >= NeededL1(head)
    /\ TablesAligned(head)
    /\ NameInFirstCluster(head)

CheckSupported(head) ==
    /\ head.crypt_method = 0
    /\ FeaturesOf(head) \subseteq KnownFeatures
    /\ CompressionOf(head) <= 1

IsCorrupt(head) == "CORRUPT" \in FeaturesOf(head)
HasDirtyRefcounts(head) == "DIRTY" \in FeaturesOf(head)
CheckWritable(head) == ~IsCorrupt(head) /\ ~HasDirtyRefcounts(head)

(* A chain needs both the offset of the name and its length.               *)
NamesBacking(head) == head.backing_file_offset # 0 /\ head.backing_file_size # 0
=============================================================================
