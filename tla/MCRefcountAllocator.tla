------------------------- MODULE MCRefcountAllocator -------------------------
(* Instances of RefcountAllocator for TLC: three slots of three entries.   *)
EXTENDS RefcountAllocator, TLC

Empty == [c \in Cluster |-> [e \in Entry |-> 0]]
Nobody == [c \in Cluster |-> 0]
Absent == [s \in Slot |-> NoBlock]

(* One block, full: the header, the block and a cluster in use.  The next  *)
(* allocation has to add a block, where a deleted file left its bytes.     *)
Dense ==
    [rt |-> (0 :> <<0, 1>>) @@ Absent,
     block |-> (<<0, 1>> :> (0 :> 1 @@ 1 :> 1 @@ 2 :> 1))
               @@ (<<1, 0>> :> (0 :> 2 @@ 1 :> 0 @@ 2 :> 3)) @@ Empty,
     held |-> (<<0, 2>> :> 1) @@ Nobody,
     len |-> <<1, 0>>]

(* A hole in the table: slot 1 is absent between two present blocks, and   *)
(* slot 2's block lies in slot 0's range.  A shared cluster sits in slot 2.*)
Hole ==
    [rt |-> (0 :> <<0, 1>>) @@ (2 :> <<0, 2>>) @@ Absent,
     block |-> (<<0, 1>> :> (0 :> 1 @@ 1 :> 1 @@ 2 :> 1))
               @@ (<<0, 2>> :> (0 :> 0 @@ 1 :> 2 @@ 2 :> 0)) @@ Empty,
     held |-> (<<2, 1>> :> 2) @@ Nobody,
     len |-> <<3, 0>>]

(* A damaged image whose header cluster is counted as free.                *)
HeaderFree ==
    [Dense EXCEPT !.block[<<0, 1>>][0] = 0]

(* A device that ends with its last cluster in use, though the table has a *)
(* block for the clusters past it.                                         *)
Edge ==
    [rt |-> (0 :> <<0, 1>>) @@ (1 :> <<1, 0>>) @@ (2 :> <<0, 2>>),
     block |-> (<<0, 1>> :> (0 :> 1 @@ 1 :> 1 @@ 2 :> 1))
               @@ (<<1, 0>> :> (0 :> 1 @@ 1 :> 1 @@ 2 :> 1)) @@ Empty,
     held |-> (<<1, 2>> :> 1) @@ Nobody,
     len |-> <<2, 0>>]

MCImages == {Dense, Hole, HeaderFree, Edge}
MCCapacity == <<2, 0>>
=============================================================================
