----------------------------- MODULE TableEntry -----------------------------
(***************************************************************************)
(* The 64-bit words of L1 and L2 tables, as numbers: which bits must be    *)
(* clear, where the offset is, what lookup_cluster makes of a word, and    *)
(* the compressed descriptor, whose two fields move with the cluster size. *)
(*                                                                         *)
(* A word is its two top bits and the rest, `body`.  The widths are        *)
(* parameters, so that TLC can enumerate every word of a narrow one; the   *)
(* code has Sector = 2^9, OffsetLimit = 2^56 and BodyLimit = 2^62.         *)
(***************************************************************************)
EXTENDS Naturals

CONSTANTS
    Sector,         \* the compressed sector, and the unit of the offset field
    OffsetLimit,    \* the offset field lies below this bit
    BodyLimit       \* everything below the COMPRESSED bit

ASSUME WidthAssumption ==
    /\ {Sector, OffsetLimit, BodyLimit} \subseteq Nat \ {0}
    /\ Sector > 1 /\ Sector % 2 = 0
    /\ OffsetLimit % Sector = 0
    /\ OffsetLimit < BodyLimit

Word == [copied : BOOLEAN, compressed : BOOLEAN, body : 0 .. BodyLimit - 1]
EmptyWord == [copied |-> FALSE, compressed |-> FALSE, body |-> 0]

(* OFFSET_MASK: the whole sectors below OffsetLimit.                       *)
OffsetField(body) == (((body % OffsetLimit) \div Sector) * Sector)

ZeroFlag(body) == body % 2 = 1

(* L1_RESERVED_MASK and L2_RESERVED_MASK.  Above the offset an L1 word     *)
(* reserves the compressed bit too; below it, bit 0 is the zero flag of a  *)
(* standard L2 word from version 3.                                        *)
L1Reserved(word) ==
    word.compressed \/ word.body >= OffsetLimit \/ word.body % Sector # 0

L2Reserved(version, word) ==
    \/ word.body >= OffsetLimit
    \/ (word.body % Sector) \div 2 # 0
    \/ version < 3 /\ ZeroFlag(word.body)

(* span_inside_the_image, without the refusal of lengths past usize.       *)
SpanInside(len, at, length) == at + length <= len

(* checked_host_offset.                                                    *)
HostOffsetOK(clusterSize, len, at) ==
    at % clusterSize = 0 /\ SpanInside(len, at, clusterSize)

(* decode_compressed_descriptor.  Of 62 bits, cluster_bits - 8 count       *)
(* sectors beyond the first: enough for two clusters' worth of them.       *)
OffsetSpan(clusterSize) == BodyLimit \div (2 * (clusterSize \div Sector))

(* Mutant: the count taken as the number of sectors.                       *)
DecodeCountsAllSectors(body, clusterSize) ==
    LET at == body % OffsetSpan(clusterSize)
        firstSector == (at \div Sector) * Sector
    IN  [at |-> at,
         span |-> firstSector + (body \div OffsetSpan(clusterSize)) * Sector - at]

DecodeCompressed(body, clusterSize) ==
    LET at == body % OffsetSpan(clusterSize)
        additional == body \div OffsetSpan(clusterSize)
        firstSector == (at \div Sector) * Sector
    IN  [at |-> at,
         span |-> firstSector + (additional + 1) * Sector - at]

(* The direction only the test fixtures need, from the format.             *)
EncodeCompressed(at, length, clusterSize) ==
    LET firstSector == (at \div Sector) * Sector
        sectors == (at + length - firstSector + Sector - 1) \div Sector
    IN  (sectors - 1) * OffsetSpan(clusterSize) + at

(* l2_entry_for: the offset field of a host offset, and COPIED.            *)
L2EntryFor(host) == [copied |-> TRUE, compressed |-> FALSE, body |-> OffsetField(host)]

(* l2_table_offset: the L2 table an L1 word names, none, or an error.      *)
Corrupt == [case |-> "Corrupt", at |-> 0, copied |-> FALSE]
Unallocated == [case |-> "Unallocated", at |-> 0, copied |-> FALSE]

L2TableOffset(word, clusterSize, len) ==
    LET at == OffsetField(word.body) IN
    CASE L1Reserved(word) -> Corrupt
      [] ~L1Reserved(word) /\ at = 0 -> Unallocated
      [] ~L1Reserved(word) /\ at # 0 ->
            IF HostOffsetOK(clusterSize, len, at)
            THEN [case |-> "Table", at |-> at, copied |-> word.copied]
            ELSE Corrupt

(* What lookup_cluster makes of an L2 word below an L1 word with or        *)
(* without COPIED.  A zero flag is believed before the offset is looked    *)
(* at.                                                                     *)
ClusterMap(word, l1Copied, version, clusterSize, len) ==
    LET payload == DecodeCompressed(word.body, clusterSize)
        host == OffsetField(word.body)
    IN  IF word.compressed
        THEN IF SpanInside(len, payload.at, payload.span)
             THEN [case |-> "Compressed", at |-> payload.at, copied |-> FALSE]
             ELSE Corrupt
        ELSE IF L2Reserved(version, word) THEN Corrupt
        ELSE IF version >= 3 /\ ZeroFlag(word.body)
             THEN [case |-> "Zero", at |-> 0, copied |-> FALSE]
        ELSE IF host = 0 THEN Unallocated
        ELSE IF HostOffsetOK(clusterSize, len, host)
             THEN [case |-> "Plain", at |-> host, copied |-> l1Copied /\ word.copied]
        ELSE Corrupt
=============================================================================
