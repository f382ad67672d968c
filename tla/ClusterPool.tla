----------------------------- MODULE ClusterPool -----------------------------
(***************************************************************************)
(* What cluster allocation promises to the write path, without a refcount  *)
(* table, refcount blocks, a scan or a cursor: a count for every host      *)
(* cluster, now and as a crash would leave it, and the references the      *)
(* callers of `allocate_cluster` and `decrement_refcount` hold.  Every     *)
(* step says exactly which counts it changes and to what.                  *)
(* RefcountAllocator implements it.                                        *)
(***************************************************************************)
EXTENDS Naturals

CONSTANTS
    Cluster,    \* the host clusters the refcount table can describe
    Header      \* host cluster 0, which is never handed out

VARIABLES
    count, own,     \* every cluster's count, and those the allocator keeps
    countD, ownD,   \* the same as a crash would leave them
    held,           \* the references callers hold (L1, L2, snapshot tables)
    ready,          \* the cluster counted for the call in progress, if any
    due             \* the cluster whose count follows a dropped reference

poolVars == <<count, own, countD, ownD, held, ready, due>>

Free == {c \in Cluster \ own : count[c] = 0}

Init ==
    /\ count \in [Cluster -> Nat]
    /\ held \in [Cluster -> Nat]
    /\ own \subseteq Cluster
    /\ Header \in own
    /\ \A c \in Cluster : held[c] <= count[c]
    /\ \A c \in own : held[c] = 0 /\ (c # Header => count[c] > 0)
    /\ countD = count /\ ownD = own
    /\ ready = {} /\ due = {}

(* A free cluster is counted once for the caller, and with it one the      *)
(* allocator keeps when it needs room for its own tables.  No other count  *)
(* changes.  A call that then fails leaves the cluster counted: a leak.    *)
Take ==
    /\ ready = {}
    /\ \E c \in Free, kept \in SUBSET Free :
        /\ c \notin kept
        /\ \A a, b \in kept : a = b
        /\ count' = [d \in Cluster |-> IF d \in kept \cup {c} THEN 1 ELSE count[d]]
        /\ own' = own \cup kept
        /\ ready' \in {{}, {c}}
    /\ UNCHANGED <<countD, ownD, held, due>>

(* A call takes over what a failed one left counted, and changes no count. *)
TakeOver ==
    /\ ready = {}
    /\ \E c \in Cluster \ own :
        /\ count[c] = 1 /\ held[c] = 0
        /\ ready' = {c}
    /\ UNCHANGED <<count, own, countD, ownD, held, due>>

(* The cluster goes to the caller, its only user, with every count durable.*)
Grant ==
    \E c \in ready :
        /\ held' = [held EXCEPT ![c] = @ + 1]
        /\ ready' = {}
        /\ countD' = count /\ ownD' = own
        /\ UNCHANGED <<count, own, due>>

(* The caller forgets one of its references ...                            *)
Forget ==
    /\ ready = {} /\ due = {}
    /\ \E c \in Cluster :
        /\ held[c] > 0
        /\ held' = [held EXCEPT ![c] = @ - 1]
        /\ due' = {c}
    /\ UNCHANGED <<count, own, countD, ownD, ready>>

(* ... and the count follows it down, once.                                *)
Return ==
    \E c \in due :
        /\ count' = [count EXCEPT ![c] = @ - 1]
        /\ due' = {}
        /\ UNCHANGED <<own, countD, ownD, held, ready>>

(* The call fails: what it counted, or did not lower, stays counted.       *)
Abandon ==
    /\ ready' = {} /\ due' = {}
    /\ UNCHANGED <<count, own, countD, ownD, held>>

(* Some counts become durable, as they are; all of them at a flush.        *)
Persist ==
    \E S \in SUBSET Cluster :
        /\ countD' = [c \in Cluster |-> IF c \in S THEN count[c] ELSE countD[c]]
        /\ ownD' = ownD \cup (own \cap S)
        /\ UNCHANGED <<count, own, held, ready, due>>

(* Power is lost: the durable counts are the counts.                       *)
Crash ==
    /\ count' = countD /\ own' = ownD
    /\ ready' = {} /\ due' = {}
    /\ UNCHANGED <<countD, ownD, held>>

Next ==
    \/ Take \/ TakeOver \/ Grant
    \/ Forget \/ Return
    \/ Abandon \/ Persist \/ Crash

Spec == Init /\ [][Next]_poolVars
=============================================================================
