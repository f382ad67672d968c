----------------------------- MODULE MCExtents -----------------------------
(***************************************************************************)
(* Images for Extents: every word there is, in a table of one cluster's    *)
(* disk, and walks over four clusters in two tables.                       *)
(***************************************************************************)
EXTENDS Extents

Plain(at, copied) == [copied |-> copied, compressed |-> FALSE, body |-> at]
Compressed(at) == [copied |-> FALSE, compressed |-> TRUE, body |-> at]

Tables(size, len, contents) ==
    [at \in {o \in 0 .. len - 1 : o % size = 0} |->
        [j \in 0 .. size \div EntryBytes - 1 |->
            IF <<at, j>> \in DOMAIN contents THEN contents[<<at, j>>] ELSE EmptyWord]]

Image(version, size, virtual, len, spare, l1, contents) ==
    [version |-> version, cluster_size |-> size, virtual_size |-> virtual,
     len |-> len, capacity |-> len + spare, l1 |-> l1,
     table |-> Tables(size, len, contents)]

(* One cluster, not whole, with any L2 word; the image's last cluster is   *)
(* not whole either.                                                       *)
EntryImages ==
    {Image(geometry[1], geometry[2], geometry[2] - 3, 2 * geometry[2] + 12, 0,
           [i \in {0} |-> Plain(geometry[2], TRUE)],
           [x \in {<<geometry[2], 0>>} |-> word]) :
        geometry \in {<<2, 8>>, <<3, 8>>, <<3, 16>>}, word \in Word}

(* The same with any L1 word.                                              *)
TableImages ==
    {Image(3, 8, 8, 28, 0, [i \in {0} |-> word],
           [x \in {<<8, 0>>} |-> Plain(16, TRUE)]) : word \in Word}

(* Four clusters, the last one cut short, in two tables of two entries:    *)
(* nothing, data, zeros, a payload, and an offset that is not aligned; and *)
(* such a disk whose second table is absent or damaged.                    *)
WalkWords == {EmptyWord, Plain(24, TRUE), Plain(1, FALSE), Compressed(26), Plain(28, TRUE)}

Walk4(spare, first, second, contents) ==
    Image(3, 8, 29, 32, spare, [i \in {0, 1} |-> IF i = 0 THEN first ELSE second],
          contents)

WalkImages ==
    {Walk4(0, Plain(8, TRUE), Plain(16, TRUE), contents) :
        contents \in [{8, 16} \X {0, 1} -> WalkWords]}
    \cup {Walk4(0, Plain(8, TRUE), second, contents) :
        second \in {EmptyWord, Plain(20, TRUE)},
        contents \in [{8} \X {0, 1} -> WalkWords]}

(* Those another thread writes to: the first table owned, or shared with a *)
(* snapshot, or absent; the second shared or absent.  There is room for    *)
(* two writes that each need a table.                                      *)
WrittenImages ==
    {Walk4(32, first, second, [x \in {<<8, 1>>} |-> Plain(1, FALSE)]) :
        first \in {Plain(8, TRUE), Plain(8, FALSE), EmptyWord},
        second \in {Plain(16, FALSE), EmptyWord}}

AllImages == EntryImages \cup TableImages \cup WalkImages \cup WrittenImages
=============================================================================
