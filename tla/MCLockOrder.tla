---------------------------- MODULE MCLockOrder ----------------------------
(***************************************************************************)
(* LockOrder on an image with a backing image: two writers and a reader    *)
(* whose calls reach into one cluster each.                                *)
(***************************************************************************)
EXTENDS LockOrder

CONSTANTS r1, w1, w2

OneReader == {r1}
TwoWriters == {w1, w2}
=============================================================================
