-------------------------- MODULE WriteCountsProofs --------------------------
(***************************************************************************)
(* Why the write path never frees what something still names: for every    *)
(* sound image, any number of writers, and any failures and crashes, the   *)
(* counts cover the references, COPIED is never a lie, and what a snapshot *)
(* reads as never changes.                                                 *)
(***************************************************************************)
EXTENDS WritePathProofs

(***************************************************************************)
(* What is stored, taken as one value s: the device and its durable copy,  *)
(* the L1 table in memory and the L2 cache.  An L1 index may lead to the   *)
(* entry memory, the device or a crash gives it; a virtual cluster, to the *)
(* entry it has in any table one of those names, as written or as durable, *)
(* and to the one in the L2 cache.                                         *)
(***************************************************************************)
Stored == [img |-> img, dev |-> dev, durable |-> durable, l1 |-> l1, cache |-> l2Cache]

IsStore(s) ==
    /\ s.img \in Image /\ s.dev \in Device /\ s.durable \in Device
    /\ s.l1 \in [L1Index -> L1Entry]
    /\ s.cache = <<>> \/ s.cache \in L1Index \X [L2Index -> L2Entry]

Roots(s, i) == {s.l1[i], s.dev.l1[i], s.durable.l1[i]}

Names(s, i, c) == \E e \in Roots(s, i) : e.at = c

Has(s, v, e) ==
    \/ \E a \in Cluster : /\ Names(s, v[1], a)
                          /\ e = s.dev.table[a][v[2]] \/ e = s.durable.table[a][v[2]]
    \/ s.cache # <<>> /\ s.cache[1] = v[1] /\ e = s.cache[2][v[2]]

Reaches(e, c) == e.at = c \/ LastOf(e) = c

(* The places a reference comes from, as PathsThrough names them.          *)
Place == {<<i>> : i \in L1Index} \cup VCluster

Leads(s, p, c) ==
    \/ \E i \in L1Index : p = <<i>> /\ Names(s, i, c)
    \/ p \in VCluster /\ \E e \in L2Entry : Has(s, p, e) /\ Reaches(e, c)

Active(s, c) == {p \in Place : Leads(s, p, c)}

(* The snapshot's references.                                              *)
Kept(s, c) == PathsThrough(s.img.dev, s.img.snap, c)

(* Every possible reference is counted, in the count as written and in the *)
(* durable one, and so is every cluster in `held`: one the writer has      *)
(* taken or replaced and not yet published or released.                    *)
Cost(s, held, c) ==
    Cardinality(Active(s, c)) + Cardinality(Kept(s, c)) + (IF c \in held THEN 1 ELSE 0)

Covered(s, held) ==
    \A c \in Cluster : Cost(s, held, c) <= s.dev.rc[c] /\ Cost(s, held, c) <= s.durable.rc[c]

(* A cluster that may be an L2 table is one table's, and nothing else.     *)
TablesOnce(s) ==
    \A i \in L1Index, c \in Cluster : Names(s, i, c) => Active(s, c) = {<<i>>}

One(s, c) == s.dev.rc[c] = 1 /\ s.durable.rc[c] = 1

RootsTrue(s) ==
    \A i \in L1Index : \A e \in Roots(s, i) : e.copied /\ e.at \in Cluster => One(s, e.at)

EntriesTrue(s) ==
    \A v \in VCluster : \A e \in L2Entry :
        Has(s, v, e) /\ e.copied /\ e.at \in Cluster => One(s, e.at)

(* After a failed update the table memory still names is one it will copy  *)
(* before it writes to it: only copies and new tables are ever installed.  *)
StaleIsShared(s) ==
    \A i \in L1Index : Roots(s, i) # {s.l1[i]} /\ s.l1[i].at # None =>
        ~s.l1[i].copied /\ (s.l1[i].at \in Cluster => s.dev.rc[s.l1[i].at] > 1)

(* The snapshot's tables and clusters are as they were.                    *)
SnapKept(s) ==
    /\ \A i \in L1Index : s.img.snap[i] \in Cluster =>
        /\ s.dev.table[s.img.snap[i]] = s.img.dev.table[s.img.snap[i]]
        /\ s.durable.table[s.img.snap[i]] = s.img.dev.table[s.img.snap[i]]
    /\ \A c \in Cluster : Kept(s, c) # {} =>
        s.dev.data[c] = s.img.dev.data[c] /\ s.durable.data[c] = s.img.dev.data[c]

Sound(s, held) ==
    /\ Covered(s, held) /\ TablesOnce(s) /\ RootsTrue(s) /\ EntriesTrue(s)
    /\ StaleIsShared(s) /\ SnapKept(s)

(***************************************************************************)
(* Counting                                                                *)
(***************************************************************************)
LEMMA PlacesFinite == IsFiniteSet(Place)
<1>1. IsFiniteSet(L1Index) /\ IsFiniteSet(L2Index)
  BY FS_Interval, Numbers DEF L1Index, L2Index
<1>2. IsFiniteSet(VCluster)
  BY <1>1, FS_Product DEF VCluster
<1>3. IsFiniteSet({<<i>> : i \in L1Index})
  <2> DEFINE T == {<<i>> : i \in L1Index}
             f == [i \in L1Index |-> <<i>>]
  <2>1. f \in [L1Index -> T] /\ \A p \in T : \E i \in L1Index : f[i] = p
    OBVIOUS
  <2>2. f \in Surjection(L1Index, T)
    BY <2>1 DEF Surjection
  <2>3. QED
    BY <1>1, <2>2, FS_Surjection
<1>4. QED
  BY <1>2, <1>3, FS_Union DEF Place

LEMMA Counting ==
    ASSUME NEW B \in SUBSET Place
    PROVE  /\ IsFiniteSet(B) /\ Cardinality(B) \in Nat
           /\ Cardinality(B) = 0 <=> B = {}
           /\ \A A : A \subseteq B => Cardinality(A) \in Nat /\ Cardinality(A) <= Cardinality(B)
           /\ \A p \in Place : Cardinality(B \cup {p}) <= Cardinality(B) + 1
           /\ \A p \in B : \A A : A \subseteq B \ {p} =>
                  Cardinality(A) \in Nat /\ Cardinality(A) + 1 <= Cardinality(B)
<1>1. IsFiniteSet(B)
  BY PlacesFinite, FS_Subset
<1>2. Cardinality(B) \in Nat /\ (Cardinality(B) = 0 <=> B = {})
  BY <1>1, FS_CardinalityType, FS_EmptySet
<1>3. ASSUME NEW C, IsFiniteSet(C), NEW A, A \subseteq C
      PROVE  Cardinality(A) \in Nat /\ Cardinality(A) <= Cardinality(C)
  BY <1>3, FS_Subset, FS_CardinalityType
<1>4. ASSUME NEW p \in Place PROVE Cardinality(B \cup {p}) <= Cardinality(B) + 1
  <2>1. Cardinality(B \cup {p}) = IF p \in B THEN Cardinality(B) ELSE Cardinality(B) + 1
    BY <1>1, FS_AddElement
  <2>2. QED
    BY <1>2, <2>1
<1>5. ASSUME NEW p \in B, NEW A, A \subseteq B \ {p}
      PROVE  Cardinality(A) \in Nat /\ Cardinality(A) + 1 <= Cardinality(B)
  <2>1. IsFiniteSet(B \ {p}) /\ Cardinality(B \ {p}) = Cardinality(B) - 1
    BY <1>1, FS_RemoveElement
  <2>2. Cardinality(A) \in Nat /\ Cardinality(A) <= Cardinality(B \ {p})
    BY <1>3, <1>5, <2>1
  <2>3. QED
    BY <1>2, <2>1, <2>2
<1>6. QED
  BY <1>1, <1>2, <1>3, <1>4, <1>5

(* One number for an L1 index and two for a virtual cluster.               *)
LEMMA PlacesApart ==
    /\ \A i \in L1Index : <<i>> \in Place /\ <<i>> \notin VCluster
    /\ \A i, k \in L1Index : <<i>> = <<k>> => i = k
    /\ VCluster \subseteq Place
  BY DEF Place, VCluster

LEMMA KeptInPlace ==
    ASSUME NEW d, NEW f, NEW c
    PROVE  PathsThrough(d, f, c) \in SUBSET Place
  BY DEF PathsThrough, Place

LEMMA ActiveFacts ==
    ASSUME NEW s, NEW c
    PROVE  /\ Active(s, c) \in SUBSET Place
           /\ \A i \in L1Index : <<i>> \in Active(s, c) <=> Names(s, i, c)
           /\ \A v \in VCluster :
                v \in Active(s, c) <=> \E e \in L2Entry : Has(s, v, e) /\ Reaches(e, c)
<1>1. ASSUME NEW i \in L1Index PROVE <<i>> \in Active(s, c) <=> Names(s, i, c)
  BY PlacesApart DEF Active, Leads
<1>2. ASSUME NEW v \in VCluster
      PROVE  v \in Active(s, c) <=> \E e \in L2Entry : Has(s, v, e) /\ Reaches(e, c)
  BY PlacesApart DEF Active, Leads
<1>3. QED
  BY <1>1, <1>2 DEF Active

LEMMA CostTyped ==
    ASSUME NEW s, NEW held, NEW c
    PROVE  /\ Cost(s, held, c) \in Nat
           /\ Cardinality(Active(s, c)) \in Nat /\ Cardinality(Kept(s, c)) \in Nat
  BY Counting, ActiveFacts, KeptInPlace DEF Cost, Kept

LEMMA CostLess ==
    ASSUME NEW s, NEW x, NEW held, NEW less, NEW c, x.img = s.img,
           Active(x, c) \subseteq Active(s, c), c \in less => c \in held
    PROVE  Cost(x, less, c) <= Cost(s, held, c)
<1>1. Cardinality(Active(x, c)) <= Cardinality(Active(s, c)) /\ Kept(x, c) = Kept(s, c)
  BY Counting, ActiveFacts DEF Kept
<1>2. QED
  BY <1>1, CostTyped DEF Cost

(* A reference given up pays for holding the cluster it was to.            *)
LEMMA CostMoves ==
    ASSUME NEW s, NEW x, NEW held, NEW less, NEW c, x.img = s.img, NEW p \in Active(s, c),
           Active(x, c) \subseteq Active(s, c) \ {p}
    PROVE  Cost(x, less, c) <= Cost(s, held, c)
<1>1. Cardinality(Active(x, c)) + 1 <= Cardinality(Active(s, c)) /\ Kept(x, c) = Kept(s, c)
  BY Counting, ActiveFacts DEF Kept
<1>2. QED
  BY <1>1, CostTyped DEF Cost

(* A held cluster pays for the reference that publishes it.                *)
LEMMA CostPublished ==
    ASSUME NEW s, NEW x, NEW held, NEW less, NEW c \in held, c \notin less, x.img = s.img,
           NEW p \in Place, Active(x, c) \subseteq Active(s, c) \cup {p}
    PROVE  Cost(x, less, c) <= Cost(s, held, c)
<1> DEFINE B == Active(s, c) \cup {p}
<1>1. B \in SUBSET Place /\ Cardinality(B) <= Cardinality(Active(s, c)) + 1
  BY Counting, ActiveFacts
<1>2. Cardinality(Active(x, c)) <= Cardinality(B) /\ Cardinality(B) \in Nat
  BY <1>1, Counting
<1>3. Kept(x, c) = Kept(s, c)
  BY DEF Kept
<1> HIDE DEF B
<1>4. QED
  BY <1>1, <1>2, <1>3, CostTyped DEF Cost

LEMMA CostFreed ==
    ASSUME NEW s, NEW x, NEW held, NEW less, NEW c \in held, c \notin less, x.img = s.img,
           Active(x, c) \subseteq Active(s, c)
    PROVE  Cost(x, less, c) + 1 <= Cost(s, held, c)
<1>1. Cardinality(Active(x, c)) <= Cardinality(Active(s, c)) /\ Kept(x, c) = Kept(s, c)
  BY Counting, ActiveFacts DEF Kept
<1>2. QED
  BY <1>1, CostTyped DEF Cost

LEMMA CostZero ==
    ASSUME NEW s, NEW held, NEW c, Cost(s, held, c) <= 0
    PROVE  Active(s, c) = {} /\ Kept(s, c) = {} /\ c \notin held
<1>1. Cardinality(Active(s, c)) = 0 /\ Cardinality(Kept(s, c)) = 0 /\ c \notin held
  BY CostTyped DEF Cost
<1>2. QED
  BY <1>1, Counting, ActiveFacts, KeptInPlace DEF Kept

LEMMA CostOne ==
    ASSUME NEW s, NEW held, NEW c, Cost(s, held, c) <= 1
    PROVE  /\ Active(s, c) # {} => Kept(s, c) = {} /\ c \notin held
           /\ c \in held => Active(s, c) = {} /\ Kept(s, c) = {}
<1>1. ASSUME Active(s, c) # {} PROVE Kept(s, c) = {} /\ c \notin held
  <2>1. Cardinality(Active(s, c)) # 0
    BY <1>1, Counting, ActiveFacts
  <2>2. Cardinality(Kept(s, c)) = 0 /\ c \notin held
    BY <2>1, CostTyped DEF Cost
  <2>3. QED
    BY <2>2, Counting, KeptInPlace DEF Kept
<1>2. ASSUME c \in held PROVE Active(s, c) = {} /\ Kept(s, c) = {}
  <2>1. Cardinality(Active(s, c)) = 0 /\ Cardinality(Kept(s, c)) = 0
    BY <1>2, CostTyped DEF Cost
  <2>2. QED
    BY <2>1, Counting, ActiveFacts, KeptInPlace DEF Kept
<1>3. QED
  BY <1>1, <1>2

LEMMA RcTyped ==
    ASSUME NEW s, IsStore(s), NEW c \in Cluster
    PROVE  s.dev.rc[c] \in Nat /\ s.durable.rc[c] \in Nat
  BY DEF IsStore, Device

(***************************************************************************)
(* Steps that name nothing new                                             *)
(***************************************************************************)
(* x gives every L1 index and every virtual cluster no entry it could not  *)
(* have had in s.                                                          *)
Within(x, s) ==
    /\ x.img = s.img
    /\ \A i \in L1Index : Roots(x, i) \subseteq Roots(s, i)
    /\ \A v \in VCluster, e \in L2Entry : Has(x, v, e) => Has(s, v, e)

LEMMA WithinActive ==
    ASSUME NEW s, NEW x, Within(x, s), NEW c
    PROVE  Active(x, c) \subseteq Active(s, c)
<1>1. ASSUME NEW i \in L1Index, Names(x, i, c) PROVE Names(s, i, c)
  BY <1>1 DEF Within, Names
<1>2. ASSUME NEW p \in Place, Leads(x, p, c) PROVE Leads(s, p, c)
  BY <1>1, <1>2 DEF Leads, Within
<1>3. QED
  BY <1>2 DEF Active

LEMMA WithinSound ==
    ASSUME NEW s, NEW x, NEW held, NEW less, IsStore(s), IsStore(x), Within(x, s),
           \A c \in Cluster : c \in less => c \in held,
           \A c \in Cluster : /\ x.dev.rc[c] \in {s.dev.rc[c], s.durable.rc[c]}
                              /\ x.durable.rc[c] \in {s.dev.rc[c], s.durable.rc[c]},
           Sound(s, held)
    PROVE  Covered(x, less) /\ TablesOnce(x) /\ RootsTrue(x) /\ EntriesTrue(x)
<1>1. \A c : Active(x, c) \subseteq Active(s, c)
  BY WithinActive
<1>2. \A c \in Cluster : One(s, c) => One(x, c)
  BY DEF One
<1>3. Covered(x, less)
  <2> SUFFICES ASSUME NEW c \in Cluster
               PROVE  Cost(x, less, c) <= x.dev.rc[c] /\ Cost(x, less, c) <= x.durable.rc[c]
    BY DEF Covered
  <2>1. Cost(x, less, c) <= Cost(s, held, c)
    BY <1>1, CostLess DEF Within
  <2>2. Cost(s, held, c) <= s.dev.rc[c] /\ Cost(s, held, c) <= s.durable.rc[c]
    BY DEF Sound, Covered
  <2>3. QED
    BY <2>1, <2>2, CostTyped, RcTyped
<1>4. TablesOnce(x)
  <2> SUFFICES ASSUME NEW i \in L1Index, NEW c \in Cluster, Names(x, i, c)
               PROVE  Active(x, c) = {<<i>>}
    BY DEF TablesOnce
  <2>1. Names(s, i, c)
    BY DEF Within, Names
  <2>2. Active(s, c) = {<<i>>} /\ <<i>> \in Active(x, c)
    BY <2>1, ActiveFacts DEF Sound, TablesOnce
  <2>3. QED
    BY <1>1, <2>2
<1>5. RootsTrue(x)
  BY <1>2 DEF Sound, RootsTrue, Within
<1>6. EntriesTrue(x)
  BY <1>2 DEF Sound, EntriesTrue, Within
<1>7. QED
  BY <1>3, <1>4, <1>5, <1>6

(* A store that names and holds no other entries than s does.              *)
LEMMA NoMoreIsWithin ==
    ASSUME NEW s, NEW x, x.img = s.img, x.cache = s.cache,
           \A i \in L1Index : Roots(x, i) \subseteq Roots(s, i),
           \A a \in Cluster :
               /\ x.dev.table[a] \in {s.dev.table[a], s.durable.table[a]}
               /\ x.durable.table[a] \in {s.dev.table[a], s.durable.table[a]}
    PROVE  Within(x, s)
<1>1. ASSUME NEW v \in VCluster, NEW e \in L2Entry, Has(x, v, e) PROVE Has(s, v, e)
  <2>1. ASSUME NEW a \in Cluster, Names(x, v[1], a),
               e = x.dev.table[a][v[2]] \/ e = x.durable.table[a][v[2]]
        PROVE  Has(s, v, e)
    <3>1. v[1] \in L1Index
      BY DEF VCluster
    <3>2. Names(s, v[1], a)
      <4>1. PICK root \in Roots(x, v[1]) : root.at = a
        BY <2>1 DEF Names
      <4>2. root \in Roots(s, v[1])
        BY <3>1
      <4>3. QED
        BY <4>1, <4>2 DEF Names
    <3>3. e = s.dev.table[a][v[2]] \/ e = s.durable.table[a][v[2]]
      BY <2>1
    <3>4. QED
      BY <3>2, <3>3 DEF Has
  <2>2. CASE x.cache # <<>> /\ x.cache[1] = v[1] /\ e = x.cache[2][v[2]]
    BY <2>2 DEF Has
  <2>3. QED
    BY <1>1, <2>1, <2>2 DEF Has
<1>2. QED
  BY <1>1 DEF Within

(* The snapshot's tables and clusters are not written.                     *)
LEMMA SnapStays ==
    ASSUME NEW s, NEW x, SnapKept(s), x.img = s.img,
           \A i \in L1Index : s.img.snap[i] \in Cluster =>
               /\ x.dev.table[s.img.snap[i]] \in {s.dev.table[s.img.snap[i]], s.durable.table[s.img.snap[i]]}
               /\ x.durable.table[s.img.snap[i]] \in {s.dev.table[s.img.snap[i]], s.durable.table[s.img.snap[i]]},
           \A c \in Cluster : Kept(s, c) # {} =>
               /\ x.dev.data[c] \in {s.dev.data[c], s.durable.data[c]}
               /\ x.durable.data[c] \in {s.dev.data[c], s.durable.data[c]}
    PROVE  SnapKept(x)
<1>1. \A c : Kept(x, c) = Kept(s, c)
  BY DEF Kept
<1>2. ASSUME NEW i \in L1Index, x.img.snap[i] \in Cluster
      PROVE  /\ x.dev.table[x.img.snap[i]] = x.img.dev.table[x.img.snap[i]]
             /\ x.durable.table[x.img.snap[i]] = x.img.dev.table[x.img.snap[i]]
  <2> DEFINE a == s.img.snap[i]
  <2>1. a \in Cluster /\ x.img = s.img
    BY <1>2
  <2>2. s.dev.table[a] = s.img.dev.table[a] /\ s.durable.table[a] = s.img.dev.table[a]
    BY <2>1 DEF SnapKept
  <2>3. /\ x.dev.table[a] \in {s.dev.table[a], s.durable.table[a]}
        /\ x.durable.table[a] \in {s.dev.table[a], s.durable.table[a]}
    BY <2>1
  <2> HIDE DEF a
  <2>4. x.dev.table[a] = s.img.dev.table[a] /\ x.durable.table[a] = s.img.dev.table[a]
    BY <2>2, <2>3
  <2>5. QED
    BY <2>1, <2>4 DEF a
<1>3. ASSUME NEW c \in Cluster, Kept(x, c) # {}
      PROVE  x.dev.data[c] = x.img.dev.data[c] /\ x.durable.data[c] = x.img.dev.data[c]
  <2>1. s.dev.data[c] = s.img.dev.data[c] /\ s.durable.data[c] = s.img.dev.data[c]
    BY <1>1, <1>3 DEF SnapKept
  <2>2. QED
    BY <1>1, <1>3, <2>1
<1>4. QED
  BY <1>2, <1>3 DEF SnapKept

(* The same store, and less of it held.                                    *)
LEMMA HoldLess ==
    ASSUME NEW s, NEW held, NEW less, IsStore(s), Sound(s, held),
           \A c \in Cluster : c \in less => c \in held
    PROVE  Sound(s, less)
<1>1. Within(s, s)
  BY DEF Within
<1>2. Covered(s, less)
  BY <1>1, WithinSound
<1>3. QED
  BY <1>2 DEF Sound

(* A flush: what was written becomes durable.                              *)
LEMMA FlushKeeps ==
    ASSUME NEW s, NEW x, NEW held, IsStore(s), Sound(s, held),
           IsStore(x), x.img = s.img, x.dev = s.dev, x.durable = s.dev, x.l1 = s.l1, x.cache = s.cache
    PROVE  /\ Sound(x, held) /\ Within(x, s)
           /\ \A c \in Cluster : One(s, c) \/ s.dev.rc[c] = 1 => One(x, c)
<1>1. Within(x, s)
  BY NoMoreIsWithin DEF Roots
<1>2. Covered(x, held) /\ TablesOnce(x) /\ RootsTrue(x) /\ EntriesTrue(x)
  BY <1>1, WithinSound
<1>3. StaleIsShared(x)
  BY DEF Sound, StaleIsShared, Roots
<1>4. SnapKept(x)
  BY SnapStays DEF Sound
<1>5. QED
  BY <1>1, <1>2, <1>3, <1>4 DEF Sound, One

(***************************************************************************)
(* The writer's steps on the store                                         *)
(***************************************************************************)
(* Counted once, and named by nothing: as written, and as durable too.     *)
Taken(s, c) ==
    c \in Cluster /\ s.dev.rc[c] = 1 /\ Active(s, c) = {} /\ Kept(s, c) = {}

Unused(s, c) == Taken(s, c) /\ One(s, c)

NotRoot(s, c) == \A i \in L1Index : ~Names(s, i, c)

(* The L2 cache is dropped, or reloaded from the table memory names.       *)
LEMMA CacheKeeps ==
    ASSUME NEW s, NEW x, NEW held, IsStore(s), IsStore(x), Sound(s, held),
           x.img = s.img, x.dev = s.dev, x.durable = s.durable, x.l1 = s.l1,
           \/ x.cache = <<>>
           \/ x.cache = s.cache
           \/ \E i \in L1Index : /\ s.l1[i].at \in Cluster
                                 /\ x.cache = <<i, s.dev.table[s.l1[i].at]>>
    PROVE  Sound(x, held) /\ Within(x, s)
<1>1. ASSUME NEW v \in VCluster, NEW e \in L2Entry, Has(x, v, e) PROVE Has(s, v, e)
  <2>1. CASE \E a \in Cluster : /\ Names(x, v[1], a)
                                /\ e = x.dev.table[a][v[2]] \/ e = x.durable.table[a][v[2]]
    BY <2>1 DEF Has, Names, Roots
  <2>2. CASE x.cache # <<>> /\ x.cache[1] = v[1] /\ e = x.cache[2][v[2]]
    <3>1. CASE x.cache = s.cache
      BY <2>2, <3>1 DEF Has
    <3>2. CASE \E i \in L1Index : /\ s.l1[i].at \in Cluster
                                  /\ x.cache = <<i, s.dev.table[s.l1[i].at]>>
      <4>1. PICK i \in L1Index : /\ s.l1[i].at \in Cluster
                                 /\ x.cache = <<i, s.dev.table[s.l1[i].at]>>
        BY <3>2
      <4>2. v[1] = i /\ e = s.dev.table[s.l1[i].at][v[2]]
        <5> HIDE DEF L1Index
        <5>1. x.cache[1] = i /\ x.cache[2] = s.dev.table[s.l1[i].at]
          BY <4>1
        <5>2. QED
          BY <2>2, <5>1
      <4>3. Names(s, v[1], s.l1[i].at)
        BY <4>2 DEF Names, Roots
      <4>4. QED
        BY <4>1, <4>2, <4>3 DEF Has
    <3>3. QED
      BY <2>2, <3>1, <3>2
  <2>3. QED
    BY <1>1, <2>1, <2>2 DEF Has
<1>2. Within(x, s)
  BY <1>1 DEF Within, Roots
<1>3. Covered(x, held) /\ TablesOnce(x) /\ RootsTrue(x) /\ EntriesTrue(x)
  BY <1>2, WithinSound
<1>4. StaleIsShared(x)
  BY DEF Sound, StaleIsShared, Roots
<1>5. SnapKept(x)
  BY SnapStays DEF Sound
<1>6. QED
  BY <1>2, <1>3, <1>4, <1>5 DEF Sound

(* Data is written where the snapshot sees nothing.                        *)
LEMMA DataKeeps ==
    ASSUME NEW s, NEW x, NEW held, IsStore(s), IsStore(x), Sound(s, held),
           x.img = s.img, x.l1 = s.l1, x.cache = s.cache,
           x.dev.l1 = s.dev.l1, x.dev.rc = s.dev.rc, x.dev.table = s.dev.table,
           x.durable.l1 = s.durable.l1, x.durable.rc = s.durable.rc,
           x.durable.table = s.durable.table,
           \A c \in Cluster : Kept(s, c) # {} =>
               x.dev.data[c] = s.dev.data[c] /\ x.durable.data[c] = s.durable.data[c]
    PROVE  Sound(x, held) /\ Within(x, s)
<1>1. Within(x, s)
  BY NoMoreIsWithin DEF Roots
<1>2. Covered(x, held) /\ TablesOnce(x) /\ RootsTrue(x) /\ EntriesTrue(x)
  BY <1>1, WithinSound
<1>3. StaleIsShared(x)
  BY DEF Sound, StaleIsShared, Roots
<1>4. SnapKept(x)
  BY SnapStays DEF Sound
<1>5. QED
  BY <1>1, <1>2, <1>3, <1>4 DEF Sound

(* A table nothing names is written.                                       *)
LEMMA RowKeeps ==
    ASSUME NEW s, NEW x, NEW held, IsStore(s), IsStore(x), Sound(s, held),
           x.img = s.img, x.l1 = s.l1, x.cache = s.cache, x.durable = s.durable,
           x.dev.l1 = s.dev.l1, x.dev.rc = s.dev.rc, x.dev.data = s.dev.data,
           NEW T \in Cluster, Active(s, T) = {}, Kept(s, T) = {},
           \A a \in Cluster : a # T => x.dev.table[a] = s.dev.table[a]
    PROVE  Sound(x, held) /\ Within(x, s)
<1>1. NotRoot(s, T)
  BY ActiveFacts DEF NotRoot
<1>2. ASSUME NEW v \in VCluster, NEW e \in L2Entry, Has(x, v, e) PROVE Has(s, v, e)
  <2>1. v[1] \in L1Index
    BY DEF VCluster
  <2>2. \A a \in Cluster : Names(x, v[1], a) => Names(s, v[1], a) /\ a # T
    BY <1>1, <2>1 DEF Names, Roots, NotRoot
  <2>3. QED
    BY <1>2, <2>2 DEF Has
<1>3. Within(x, s)
  BY <1>2 DEF Within, Roots
<1>4. Covered(x, held) /\ TablesOnce(x) /\ RootsTrue(x) /\ EntriesTrue(x)
  BY <1>3, WithinSound
<1>5. StaleIsShared(x)
  BY DEF Sound, StaleIsShared, Roots
<1>6. ASSUME NEW i \in L1Index, s.img.snap[i] \in Cluster PROVE s.img.snap[i] # T
  <2>1. s.img.snap[i] = T => <<i>> \in PathsThrough(s.img.dev, s.img.snap, T)
    BY DEF PathsThrough
  <2>2. QED
    BY <2>1 DEF Kept
<1>7. SnapKept(x)
  BY <1>6, SnapStays DEF Sound
<1>8. QED
  BY <1>3, <1>4, <1>5, <1>7 DEF Sound

(* A free cluster is counted.                                              *)
LEMMA AllocateKeeps ==
    ASSUME NEW s, NEW x, NEW held, IsStore(s), IsStore(x), Sound(s, held),
           x.img = s.img, x.l1 = s.l1, x.cache = s.cache, x.durable = s.durable,
           x.dev.l1 = s.dev.l1, x.dev.table = s.dev.table, x.dev.data = s.dev.data,
           NEW c \in Cluster, s.dev.rc[c] = 0, x.dev.rc = [s.dev.rc EXCEPT ![c] = 1]
    PROVE  Sound(x, held) /\ Within(x, s) /\ Taken(x, c) /\ c \notin held
<1>1. Within(x, s) /\ \A d : Active(x, d) \subseteq Active(s, d) /\ Kept(x, d) = Kept(s, d)
  <2>1. Within(x, s)
    BY NoMoreIsWithin DEF Roots
  <2>2. QED
    BY <2>1, WithinActive DEF Kept
<1>2. Active(s, c) = {} /\ Kept(s, c) = {} /\ c \notin held
  BY CostZero DEF Sound, Covered
<1>3. x.dev.rc[c] = 1 /\ \A d \in Cluster : d # c => x.dev.rc[d] = s.dev.rc[d]
  BY DEF IsStore, Device
<1>4. Taken(x, c)
  BY <1>1, <1>2, <1>3 DEF Taken
<1>5. Covered(x, held)
  <2> SUFFICES ASSUME NEW d \in Cluster
               PROVE  Cost(x, held, d) <= x.dev.rc[d] /\ Cost(x, held, d) <= x.durable.rc[d]
    BY DEF Covered
  <2>1. Cost(x, held, d) <= Cost(s, held, d)
    BY <1>1, CostLess DEF Within
  <2>2. Cost(s, held, d) <= s.dev.rc[d] /\ Cost(s, held, d) <= s.durable.rc[d]
    BY DEF Sound, Covered
  <2>3. s.dev.rc[d] <= x.dev.rc[d]
    BY <1>3, RcTyped
  <2>4. QED
    BY <2>1, <2>2, <2>3, CostTyped, RcTyped
<1>6. \A d \in Cluster : One(s, d) => One(x, d)
  BY <1>3 DEF One
<1>7. TablesOnce(x)
  <2> SUFFICES ASSUME NEW i \in L1Index, NEW d \in Cluster, Names(x, i, d)
               PROVE  Active(x, d) = {<<i>>}
    BY DEF TablesOnce
  <2>1. Active(s, d) = {<<i>>} /\ <<i>> \in Active(x, d)
    BY <1>1, ActiveFacts DEF Sound, TablesOnce, Within, Names
  <2>2. QED
    BY <1>1, <2>1
<1>8. RootsTrue(x) /\ EntriesTrue(x)
  BY <1>1, <1>6 DEF Sound, RootsTrue, EntriesTrue, Within
<1>9. StaleIsShared(x)
  <2>1. \A d \in Cluster : s.dev.rc[d] > 1 => x.dev.rc[d] > 1
    BY <1>3
  <2>2. QED
    BY <2>1 DEF Sound, StaleIsShared, Roots
<1>10. SnapKept(x)
  BY SnapStays DEF Sound
<1>11. QED
  BY <1>1, <1>2, <1>4, <1>5, <1>7, <1>8, <1>9, <1>10 DEF Sound

(* A cluster nothing names, its count durable, may be held.                *)
LEMMA HoldMore ==
    ASSUME NEW s, NEW held, NEW more, NEW c, IsStore(s), Sound(s, held), Unused(s, c),
           \A d \in Cluster : d \in more => d \in held \/ d = c
    PROVE  Sound(s, more)
<1>1. Covered(s, more)
  <2> SUFFICES ASSUME NEW d \in Cluster
               PROVE  Cost(s, more, d) <= s.dev.rc[d] /\ Cost(s, more, d) <= s.durable.rc[d]
    BY DEF Covered
  <2>1. CASE d = c
    <3>1. Cardinality(Active(s, d)) = 0 /\ Cardinality(Kept(s, d)) = 0 /\ One(s, d)
      BY <2>1, FS_EmptySet DEF Unused, Taken
    <3>2. QED
      BY <3>1 DEF Cost, One
  <2>2. CASE d # c
    <3>1. Cost(s, more, d) <= Cost(s, held, d)
      BY <2>2, CostLess
    <3>2. Cost(s, held, d) <= s.dev.rc[d] /\ Cost(s, held, d) <= s.durable.rc[d]
      BY DEF Sound, Covered
    <3>3. QED
      BY <3>1, <3>2, CostTyped, RcTyped
  <2>3. QED
    BY <2>1, <2>2
<1>2. QED
  BY <1>1 DEF Sound

LEMMA EntryForFacts ==
    ASSUME NEW c \in Cluster
    PROVE  /\ L1EntryFor(c) \in L1Entry /\ L1EntryFor(c).at = c
           /\ L2EntryFor(c) \in L2Entry /\ L2EntryFor(c).at = c
           /\ \A d : Reaches(L2EntryFor(c), d) <=> d = c
           /\ \A d \in Cluster : ~Reaches(NoEntry, d)
<1>1. L1EntryFor(c) \in L1Entry /\ L1EntryFor(c).at = c
  BY Numbers DEF L1EntryFor, L1Entry
<1>2. L2EntryFor(c) \in L2Entry /\ L2EntryFor(c).at = c /\ L2EntryFor(c).kind = "standard"
  BY Numbers, EntriesTyped DEF L2EntryFor, NoEntry
<1>3. NoEntry.at = None /\ NoEntry.kind = "standard"
  BY DEF NoEntry
<1>4. QED
  BY <1>1, <1>2, <1>3, Numbers DEF Reaches, LastOf

(* A table is installed on the device: memory follows, or the step fails.  *)
Installed(s, x, held, less, i, T) ==
    /\ x.img = s.img /\ x.l1 = s.l1 /\ x.cache = s.cache /\ x.durable = s.durable
    /\ x.dev.rc = s.dev.rc /\ x.dev.table = s.dev.table /\ x.dev.data = s.dev.data
    /\ T \in held /\ T \notin less /\ \A c \in Cluster : c \in less => c \in held
    /\ x.dev.l1[i] = L1EntryFor(T) /\ \A k \in L1Index : k # i => x.dev.l1[k] = s.dev.l1[k]
    /\ s.durable.table[T] = s.dev.table[T]
    /\ \A j \in L2Index : s.dev.table[T][j] = NoEntry \/ Has(s, <<i, j>>, s.dev.table[T][j])
    /\ s.l1[i].at # None =>
         ~s.l1[i].copied /\ (s.l1[i].at \in Cluster => s.dev.rc[s.l1[i].at] > 1)

LEMMA InstallKeeps ==
    ASSUME NEW s, NEW x, NEW held, NEW less, IsStore(s), IsStore(x), Sound(s, held),
           NEW i \in L1Index, NEW T, Unused(s, T), Installed(s, x, held, less, i, T)
    PROVE  /\ Sound(x, less)
           /\ \A c \in Cluster : c # T => Active(x, c) \subseteq Active(s, c)
           /\ \A c \in Cluster : One(s, c) => One(x, c)
<1>0. /\ x.img = s.img /\ x.l1 = s.l1 /\ x.cache = s.cache /\ x.durable = s.durable
      /\ x.dev.rc = s.dev.rc /\ x.dev.table = s.dev.table /\ x.dev.data = s.dev.data
      /\ T \in held /\ T \notin less /\ \A c \in Cluster : c \in less => c \in held
      /\ x.dev.l1[i] = L1EntryFor(T) /\ \A k \in L1Index : k # i => x.dev.l1[k] = s.dev.l1[k]
      /\ s.durable.table[T] = s.dev.table[T]
      /\ \A j \in L2Index : s.dev.table[T][j] = NoEntry \/ Has(s, <<i, j>>, s.dev.table[T][j])
      /\ s.l1[i].at # None =>
           ~s.l1[i].copied /\ (s.l1[i].at \in Cluster => s.dev.rc[s.l1[i].at] > 1)
  BY DEF Installed
<1> USE <1>0
<1> DEFINE E == L1EntryFor(T)
<1>1. /\ T \in Cluster /\ One(s, T) /\ Active(s, T) = {} /\ Kept(s, T) = {}
      /\ E \in L1Entry /\ E.at = T /\ <<i>> \in Place
  BY EntryForFacts, PlacesApart DEF Unused, Taken
<1> HIDE DEF E
<1>2. x.dev.l1[i] = E /\ \A k \in L1Index : k # i => x.dev.l1[k] = s.dev.l1[k]
  BY DEF E
<1>3. /\ \A k \in L1Index : \A e \in Roots(x, k) : e \in Roots(s, k) \/ (k = i /\ e = E)
      /\ \A k \in L1Index : \A c : Names(x, k, c) => Names(s, k, c) \/ (k = i /\ c = T)
  BY <1>1, <1>2 DEF Roots, Names
<1>4. ASSUME NEW v \in VCluster, NEW e \in L2Entry, Has(x, v, e)
      PROVE  Has(s, v, e) \/ e = NoEntry
  <2>1. v[1] \in L1Index /\ v[2] \in L2Index /\ v = <<v[1], v[2]>>
    BY DEF VCluster
  <2>2. CASE \E a \in Cluster : /\ Names(s, v[1], a)
                                /\ e = s.dev.table[a][v[2]] \/ e = s.durable.table[a][v[2]]
    BY <2>2 DEF Has
  <2>3. CASE v[1] = i /\ (e = s.dev.table[T][v[2]] \/ e = s.durable.table[T][v[2]])
    BY <2>1, <2>3
  <2>4. CASE x.cache # <<>> /\ x.cache[1] = v[1] /\ e = x.cache[2][v[2]]
    BY <2>4 DEF Has
  <2>5. ASSUME NEW a \in Cluster, Names(x, v[1], a),
               e = s.dev.table[a][v[2]] \/ e = s.durable.table[a][v[2]]
        PROVE  Has(s, v, e) \/ e = NoEntry
    BY <1>3, <2>1, <2>2, <2>3, <2>5
  <2>6. QED
    BY <1>4, <2>4, <2>5 DEF Has
<1>5. ASSUME NEW c \in Cluster, NEW p \in Place, Leads(x, p, c)
      PROVE  Leads(s, p, c) \/ (c = T /\ p = <<i>>)
  <2>1. ASSUME NEW e \in L2Entry, Reaches(e, c) PROVE e # NoEntry
    BY <1>1, <2>1, EntryForFacts
  <2>2. QED
    BY <1>3, <1>4, <1>5, <2>1 DEF Leads
<1>6. /\ \A c \in Cluster : c # T => Active(x, c) \subseteq Active(s, c)
      /\ Active(x, T) \subseteq {<<i>>}
  <2>1. ASSUME NEW c \in Cluster, c # T PROVE Active(x, c) \subseteq Active(s, c)
    BY <1>5, <2>1 DEF Active
  <2>2. \A p \in Active(x, T) : p \in Active(s, T) \/ p = <<i>>
    BY <1>1, <1>5 DEF Active
  <2>3. QED
    BY <1>1, <2>1, <2>2
<1>7. Covered(x, less)
  <2> SUFFICES ASSUME NEW c \in Cluster
               PROVE  Cost(x, less, c) <= x.dev.rc[c] /\ Cost(x, less, c) <= x.durable.rc[c]
    BY DEF Covered
  <2>1. Cost(x, less, c) <= Cost(s, held, c)
    <3>1. CASE c = T
      <4>1. Active(x, T) \subseteq Active(s, T) \cup {<<i>>}
        BY <1>6
      <4>2. QED
        BY <1>1, <3>1, <4>1, CostPublished
    <3>2. CASE c # T
      BY <1>6, <3>2, CostLess
    <3>3. QED
      BY <3>1, <3>2
  <2>2. Cost(s, held, c) <= s.dev.rc[c] /\ Cost(s, held, c) <= s.durable.rc[c]
    BY DEF Sound, Covered
  <2>3. QED
    BY <2>1, <2>2, CostTyped, RcTyped
<1>8. TablesOnce(x)
  <2> SUFFICES ASSUME NEW k \in L1Index, NEW c \in Cluster, Names(x, k, c)
               PROVE  Active(x, c) = {<<k>>}
    BY DEF TablesOnce
  <2>1. <<k>> \in Active(x, c)
    BY ActiveFacts
  <2>2. CASE c = T
    BY <1>6, <2>1, <2>2
  <2>3. CASE c # T
    <3>1. Active(s, c) = {<<k>>}
      BY <1>3, <2>3 DEF Sound, TablesOnce
    <3>2. QED
      BY <1>6, <2>1, <2>3, <3>1
  <2>4. QED
    BY <2>2, <2>3
<1>9. \A c \in Cluster : One(s, c) => One(x, c)
  BY DEF One
<1>10. RootsTrue(x)
  BY <1>1, <1>3, <1>9 DEF Sound, RootsTrue
<1>11. EntriesTrue(x)
  <2>1. NoEntry.at \notin Cluster
    BY Numbers DEF NoEntry
  <2>2. QED
    BY <1>4, <1>9, <2>1 DEF Sound, EntriesTrue
<1>12. StaleIsShared(x)
  <2> SUFFICES ASSUME NEW k \in L1Index, Roots(x, k) # {x.l1[k]}, x.l1[k].at # None
               PROVE  ~x.l1[k].copied /\ (x.l1[k].at \in Cluster => x.dev.rc[x.l1[k].at] > 1)
    BY DEF StaleIsShared
  <2>1. CASE k = i
    BY <2>1
  <2>2. CASE k # i
    <3>1. Roots(x, k) = Roots(s, k)
      BY <1>2, <2>2 DEF Roots
    <3>2. QED
      BY <3>1 DEF Sound, StaleIsShared
  <2>3. QED
    BY <2>1, <2>2
<1>13. SnapKept(x)
  BY SnapStays DEF Sound
<1>14. QED
  BY <1>6, <1>7, <1>8, <1>9, <1>10, <1>11, <1>12, <1>13 DEF Sound

(* The installed table is flushed and memory follows: the table memory     *)
(* named before is named no more, and is held until it is released.        *)
Followed(s, x, held, more, i, T) ==
    /\ x.img = s.img /\ x.dev = s.dev /\ x.durable = s.dev /\ x.cache = s.cache
    /\ s.dev.l1[i] = L1EntryFor(T) /\ x.l1[i] = L1EntryFor(T) /\ s.l1[i].at # T
    /\ \A k \in L1Index : k # i => x.l1[k] = s.l1[k]
    /\ \A c \in Cluster : c \in more => c \in held \/ c = s.l1[i].at

LEMMA FollowKeeps ==
    ASSUME NEW s, NEW x, NEW held, NEW more, IsStore(s), IsStore(x), Sound(s, held),
           NEW i \in L1Index, NEW T \in Cluster, Followed(s, x, held, more, i, T)
    PROVE  /\ Sound(x, more) /\ Within(x, s)
           /\ s.l1[i].at \in Cluster => Active(x, s.l1[i].at) = {}
           /\ x.l1[i] = L1EntryFor(T) /\ Roots(x, i) = {L1EntryFor(T)}
           /\ \A c \in Cluster : One(s, c) => One(x, c)
<1>0. /\ x.img = s.img /\ x.dev = s.dev /\ x.durable = s.dev /\ x.cache = s.cache
      /\ s.dev.l1[i] = L1EntryFor(T) /\ x.l1[i] = L1EntryFor(T) /\ s.l1[i].at # T
      /\ \A k \in L1Index : k # i => x.l1[k] = s.l1[k]
      /\ \A c \in Cluster : c \in more => c \in held \/ c = s.l1[i].at
  BY DEF Followed
<1> USE <1>0
<1> DEFINE E == L1EntryFor(T)
           T0 == s.l1[i].at
<1>1. E.at = T
  BY EntryForFacts
<1> HIDE DEF E
<1>2. x.l1[i] = E /\ Roots(x, i) = {E} /\ \A k \in L1Index : k # i => x.l1[k] = s.l1[k]
  BY DEF Roots, E
<1>3. \A k \in L1Index : Roots(x, k) \subseteq Roots(s, k)
  BY <1>2 DEF Roots, E
<1>4. Within(x, s)
  BY <1>3 DEF Within, Names, Has, VCluster
<1>5. \A c : Active(x, c) \subseteq Active(s, c)
  BY <1>4, WithinActive
<1>6. Covered(x, {}) /\ TablesOnce(x) /\ RootsTrue(x) /\ EntriesTrue(x)
  BY <1>4, WithinSound
<1>7. T0 \in Cluster => Active(s, T0) = {<<i>>} /\ Active(x, T0) = {}
  <2> SUFFICES ASSUME T0 \in Cluster PROVE Active(s, T0) = {<<i>>} /\ Active(x, T0) = {}
    OBVIOUS
  <2>1. Active(s, T0) = {<<i>>}
    BY DEF Sound, TablesOnce, Names, Roots
  <2>2. ~Names(x, i, T0)
    BY <1>1, <1>2 DEF Names
  <2>3. <<i>> \notin Active(x, T0)
    BY <2>2, ActiveFacts
  <2>4. QED
    BY <1>5, <2>1, <2>3
<1>8. Covered(x, more)
  <2> SUFFICES ASSUME NEW c \in Cluster
               PROVE  Cost(x, more, c) <= x.dev.rc[c] /\ Cost(x, more, c) <= x.durable.rc[c]
    BY DEF Covered
  <2>1. Cost(x, more, c) <= Cost(s, held, c)
    <3>1. CASE c = T0
      <4>1. <<i>> \in Active(s, c) /\ Active(x, c) \subseteq Active(s, c) \ {<<i>>}
        BY <1>7, <3>1
      <4>2. QED
        BY <4>1, CostMoves
    <3>2. CASE c # T0
      BY <1>5, <3>2, CostLess
    <3>3. QED
      BY <3>1, <3>2
  <2>2. Cost(s, held, c) <= s.dev.rc[c]
    BY DEF Sound, Covered
  <2>3. QED
    BY <2>1, <2>2, CostTyped, RcTyped
<1>9. StaleIsShared(x)
  <2> SUFFICES ASSUME NEW k \in L1Index, Roots(x, k) # {x.l1[k]}, x.l1[k].at # None
               PROVE  ~x.l1[k].copied /\ (x.l1[k].at \in Cluster => x.dev.rc[x.l1[k].at] > 1)
    BY DEF StaleIsShared
  <2>1. k # i
    BY <1>2
  <2>2. Roots(s, k) # {s.l1[k]} /\ x.l1[k] = s.l1[k]
    BY <1>2, <2>1 DEF Roots
  <2>3. QED
    BY <2>2 DEF Sound, StaleIsShared
<1>10. SnapKept(x)
  BY SnapStays DEF Sound
<1>11. \A c \in Cluster : One(s, c) => One(x, c)
  BY DEF One
<1>12. QED
  BY <1>2, <1>4, <1>6, <1>7, <1>8, <1>9, <1>10, <1>11 DEF Sound, E

(* The table of L1 index i is one nobody else may name, however the writes *)
(* to the L1 table come out.                                               *)
Own(s, i, T) == T \in Cluster /\ s.l1[i].at = T /\ Roots(s, i) = {s.l1[i]} /\ Kept(s, T) = {}

(* The new cluster is published in the L2 table.                           *)
LEMMA PublishKeeps ==
    ASSUME NEW s, NEW x, NEW held, NEW less, IsStore(s), IsStore(x), Sound(s, held),
           x.img = s.img, x.l1 = s.l1, x.cache = s.cache, x.durable = s.durable,
           x.dev.l1 = s.dev.l1, x.dev.rc = s.dev.rc, x.dev.data = s.dev.data,
           NEW i \in L1Index, NEW j \in L2Index, NEW T, Own(s, i, T),
           NEW N \in held, Unused(s, N), N \notin less,
           \A c \in Cluster : c \in less => c \in held,
           x.dev.table[T][j] = L2EntryFor(N),
           \A a \in Cluster : \A k \in L2Index :
               a # T \/ k # j => x.dev.table[a][k] = s.dev.table[a][k],
           \A a \in Cluster : a # T => x.dev.table[a] = s.dev.table[a]
    PROVE  /\ Sound(x, less)
           /\ Own(x, i, T) /\ x.dev.table[T][j] = L2EntryFor(N)
<1> DEFINE E == L2EntryFor(N)
           v == <<i, j>>
<1>1. /\ N \in Cluster /\ One(s, N) /\ Active(s, N) = {} /\ Kept(s, N) = {}
      /\ E \in L2Entry /\ E.at = N /\ v \in Place /\ v \in VCluster /\ T \in Cluster
      /\ \A d : Reaches(E, d) <=> d = N
  BY EntryForFacts, PlacesApart DEF Unused, Taken, VCluster, Own
<1>2. /\ x.dev.table[T][j] = E
      /\ \A a \in Cluster : \A k \in L2Index :
             a # T \/ k # j => x.dev.table[a][k] = s.dev.table[a][k]
  OBVIOUS
<1> HIDE DEF E
<1>3. \A k \in L1Index : Roots(x, k) = Roots(s, k)
  BY DEF Roots
<1>4. \A k \in L1Index : \A c : Names(x, k, c) <=> Names(s, k, c)
  BY <1>3 DEF Names
<1>5. \A k \in L1Index : Names(s, k, T) => k = i
  <2> SUFFICES ASSUME NEW k \in L1Index, Names(s, k, T) PROVE k = i
    OBVIOUS
  <2>1. Names(s, i, T)
    BY DEF Own, Names, Roots
  <2>2. Active(s, T) = {<<i>>} /\ Active(s, T) = {<<k>>}
    BY <1>1, <2>1 DEF Sound, TablesOnce
  <2>3. QED
    BY <2>2, PlacesApart
<1>6. ASSUME NEW u \in VCluster, NEW e \in L2Entry, Has(x, u, e)
      PROVE  Has(s, u, e) \/ (u = v /\ e = E)
  <2>1. u[1] \in L1Index /\ u[2] \in L2Index /\ u = <<u[1], u[2]>>
    BY DEF VCluster
  <2>2. CASE \E a \in Cluster : /\ Names(x, u[1], a)
                                /\ e = x.dev.table[a][u[2]] \/ e = x.durable.table[a][u[2]]
    <3>1. PICK a \in Cluster : /\ Names(s, u[1], a)
                               /\ e = x.dev.table[a][u[2]] \/ e = s.durable.table[a][u[2]]
      BY <1>4, <2>1, <2>2
    <3>2. CASE a = T /\ u[2] = j /\ e = x.dev.table[a][u[2]]
      <4>1. u[1] = i /\ e = E
        BY <1>2, <1>5, <2>1, <3>1, <3>2
      <4>2. QED
        BY <2>1, <3>2, <4>1
    <3>3. CASE ~(a = T /\ u[2] = j /\ e = x.dev.table[a][u[2]])
      <4>1. e = s.dev.table[a][u[2]] \/ e = s.durable.table[a][u[2]]
        BY <1>2, <2>1, <3>1, <3>3
      <4>2. QED
        BY <3>1, <4>1 DEF Has
    <3>4. QED
      BY <3>2, <3>3
  <2>3. CASE x.cache # <<>> /\ x.cache[1] = u[1] /\ e = x.cache[2][u[2]]
    BY <2>3 DEF Has
  <2>4. QED
    BY <1>6, <2>2, <2>3 DEF Has
<1>7. ASSUME NEW c \in Cluster, NEW p \in Place, Leads(x, p, c)
      PROVE  Leads(s, p, c) \/ (c = N /\ p = v)
  BY <1>1, <1>4, <1>6, <1>7 DEF Leads
<1>8. /\ \A c \in Cluster : c # N => Active(x, c) \subseteq Active(s, c)
      /\ Active(x, N) \subseteq Active(s, N) \cup {v}
  <2>1. ASSUME NEW c \in Cluster, c # N PROVE Active(x, c) \subseteq Active(s, c)
    BY <1>7, <2>1 DEF Active
  <2>2. \A p \in Active(x, N) : p \in Active(s, N) \/ p = v
    BY <1>1, <1>7 DEF Active
  <2>3. QED
    BY <2>1, <2>2
<1>9. Covered(x, less)
  <2> SUFFICES ASSUME NEW c \in Cluster
               PROVE  Cost(x, less, c) <= x.dev.rc[c] /\ Cost(x, less, c) <= x.durable.rc[c]
    BY DEF Covered
  <2>1. Cost(x, less, c) <= Cost(s, held, c)
    <3>1. CASE c = N
      BY <1>1, <1>8, <3>1, CostPublished
    <3>2. CASE c # N
      BY <1>8, <3>2, CostLess
    <3>3. QED
      BY <3>1, <3>2
  <2>2. Cost(s, held, c) <= s.dev.rc[c] /\ Cost(s, held, c) <= s.durable.rc[c]
    BY DEF Sound, Covered
  <2>3. QED
    BY <2>1, <2>2, CostTyped, RcTyped
<1>10. TablesOnce(x)
  <2> SUFFICES ASSUME NEW k \in L1Index, NEW c \in Cluster, Names(x, k, c)
               PROVE  Active(x, c) = {<<k>>}
    BY DEF TablesOnce
  <2>1. <<k>> \in Active(x, c)
    BY ActiveFacts
  <2>2. Active(s, c) = {<<k>>}
    BY <1>4 DEF Sound, TablesOnce
  <2>3. c # N
    BY <1>1, <2>2
  <2>4. QED
    BY <1>8, <2>1, <2>2, <2>3
<1>11. \A c \in Cluster : One(s, c) => One(x, c)
  BY DEF One
<1>12. RootsTrue(x)
  BY <1>3, <1>11 DEF Sound, RootsTrue
<1>13. EntriesTrue(x)
  BY <1>1, <1>6, <1>11 DEF Sound, EntriesTrue
<1>14. StaleIsShared(x)
  BY <1>3 DEF Sound, StaleIsShared
<1>15. SnapKept(x)
  <2>1. ASSUME NEW k \in L1Index, s.img.snap[k] \in Cluster
        PROVE  x.dev.table[s.img.snap[k]] = s.dev.table[s.img.snap[k]]
    <3>1. s.img.snap[k] = T => <<k>> \in PathsThrough(s.img.dev, s.img.snap, T)
      BY DEF PathsThrough
    <3>2. s.img.snap[k] # T
      BY <3>1 DEF Own, Kept
    <3>3. QED
      BY <2>1, <3>2
  <2>2. QED
    BY <2>1, SnapStays DEF Sound
<1>16. Own(x, i, T)
  BY <1>3 DEF Own, Kept
<1>17. QED
  BY <1>2, <1>9, <1>10, <1>12, <1>13, <1>14, <1>15, <1>16 DEF Sound, E

(* The cache that still led to the replaced cluster is dropped, and the    *)
(* cluster is held until it is released.                                   *)
LEMMA ForgetKeeps ==
    ASSUME NEW s, NEW x, NEW held, NEW more, IsStore(s), IsStore(x), Sound(s, held),
           x.img = s.img, x.dev = s.dev, x.durable = s.durable, x.l1 = s.l1, x.cache = <<>>,
           NEW i \in L1Index, NEW j \in L2Index, NEW T, Own(s, i, T),
           NEW N \in Cluster, s.dev.table[T][j] = L2EntryFor(N), s.durable.table[T][j] = L2EntryFor(N),
           NEW old \in Offset, old # N,
           old # None => /\ old \in Cluster /\ s.cache # <<>> /\ s.cache[1] = i
                         /\ s.cache[2][j].at = old,
           \A c \in Cluster : c \in more => c \in held \/ c = old
    PROVE  Sound(x, more) /\ (old # None => NotRoot(x, old))
<1> DEFINE v == <<i, j>>
<1>1. Sound(x, held) /\ Within(x, s)
  BY CacheKeeps
<1>2. \A c : Active(x, c) \subseteq Active(s, c)
  BY <1>1, WithinActive
<1>3. v \in VCluster /\ v[1] = i /\ v[2] = j
  BY DEF VCluster
<1>4. ASSUME old # None PROVE v \in Active(s, old) /\ v \notin Active(x, old)
  <2>1. s.cache[2][j] \in L2Entry /\ Has(s, v, s.cache[2][j]) /\ Reaches(s.cache[2][j], old)
    BY <1>3, <1>4 DEF IsStore, Has, Reaches
  <2>2. v \in Active(s, old)
    BY <1>3, <2>1, ActiveFacts
  <2>3. ASSUME NEW e \in L2Entry, Has(x, v, e) PROVE e = L2EntryFor(N)
    <3>1. PICK a \in Cluster : Names(x, i, a) /\ (e = s.dev.table[a][j] \/ e = s.durable.table[a][j])
      BY <1>3, <2>3 DEF Has
    <3>2. a = T
      BY <3>1 DEF Names, Roots, Own
    <3>3. QED
      BY <3>1, <3>2
  <2>4. ~Reaches(L2EntryFor(N), old)
    BY EntryForFacts
  <2>5. QED
    BY <1>3, <2>2, <2>3, <2>4, ActiveFacts
<1>5. ASSUME old # None PROVE NotRoot(x, old)
  <2> SUFFICES ASSUME NEW k \in L1Index, Names(x, k, old) PROVE FALSE
    BY DEF NotRoot
  <2>1. Active(s, old) = {<<k>>}
    BY <1>1, <1>5 DEF Within, Names, Sound, TablesOnce
  <2>2. QED
    BY <1>3, <1>4, <1>5, <2>1, PlacesApart
<1>6. Covered(x, more)
  <2> SUFFICES ASSUME NEW c \in Cluster
               PROVE  Cost(x, more, c) <= x.dev.rc[c] /\ Cost(x, more, c) <= x.durable.rc[c]
    BY DEF Covered
  <2>1. Cost(x, more, c) <= Cost(s, held, c)
    <3>1. CASE c = old
      <4>1. old # None
        BY <3>1, Numbers
      <4>2. Active(x, c) \subseteq Active(s, c) \ {v}
        BY <1>2, <1>4, <3>1, <4>1
      <4>3. QED
        BY <1>4, <3>1, <4>1, <4>2, CostMoves
    <3>2. CASE c # old
      BY <1>2, <3>2, CostLess
    <3>3. QED
      BY <3>1, <3>2
  <2>2. Cost(s, held, c) <= s.dev.rc[c] /\ Cost(s, held, c) <= s.durable.rc[c]
    BY DEF Sound, Covered
  <2>3. QED
    BY <2>1, <2>2, CostTyped, RcTyped
<1>7. QED
  BY <1>1, <1>5, <1>6 DEF Sound

(* A held cluster gives up one count.                                      *)
LEMMA ReleaseKeeps ==
    ASSUME NEW s, NEW x, NEW held, NEW less, IsStore(s), IsStore(x), Sound(s, held),
           x.img = s.img, x.l1 = s.l1, x.cache = s.cache, x.durable = s.durable,
           x.dev.l1 = s.dev.l1, x.dev.table = s.dev.table, x.dev.data = s.dev.data,
           NEW c \in held, c \in Cluster, NotRoot(s, c), c \notin less,
           \A d \in Cluster : d \in less => d \in held,
           s.dev.rc[c] > 0, x.dev.rc[c] = s.dev.rc[c] - 1,
           \A d \in Cluster : d # c => x.dev.rc[d] = s.dev.rc[d]
    PROVE  /\ Sound(x, less) /\ Within(x, s)
           /\ \A d \in Cluster : d # c /\ One(s, d) => One(x, d)
<1>1. Within(x, s) /\ \A d : Active(x, d) \subseteq Active(s, d)
  <2>1. Within(x, s)
    BY NoMoreIsWithin DEF Roots
  <2>2. QED
    BY <2>1, WithinActive
<1>2. /\ x.dev.rc[c] = s.dev.rc[c] - 1
      /\ \A d \in Cluster : d # c => x.dev.rc[d] = s.dev.rc[d]
  OBVIOUS
<1>3. Covered(x, less)
  <2> SUFFICES ASSUME NEW d \in Cluster
               PROVE  Cost(x, less, d) <= x.dev.rc[d] /\ Cost(x, less, d) <= x.durable.rc[d]
    BY DEF Covered
  <2>1. Cost(s, held, d) <= s.dev.rc[d] /\ Cost(s, held, d) <= s.durable.rc[d]
    BY DEF Sound, Covered
  <2>2. CASE d = c
    <3>1. Cost(x, less, d) + 1 <= Cost(s, held, d)
      BY <1>1, <2>2, CostFreed
    <3>2. QED
      BY <1>2, <2>1, <2>2, <3>1, CostTyped, RcTyped
  <2>3. CASE d # c
    <3>1. Cost(x, less, d) <= Cost(s, held, d)
      BY <1>1, CostLess
    <3>2. QED
      BY <1>2, <2>1, <2>3, <3>1, CostTyped, RcTyped
  <2>4. QED
    BY <2>2, <2>3
<1>4. One(s, c) => Active(s, c) = {}
  <2>1. Cost(s, held, c) <= s.dev.rc[c]
    BY DEF Sound, Covered
  <2>2. QED
    BY <2>1, CostOne DEF One
<1>5. \A d \in Cluster : d # c /\ One(s, d) => One(x, d)
  BY <1>2 DEF One
<1>6. TablesOnce(x)
  <2> SUFFICES ASSUME NEW i \in L1Index, NEW d \in Cluster, Names(x, i, d)
               PROVE  Active(x, d) = {<<i>>}
    BY DEF TablesOnce
  <2>1. Active(s, d) = {<<i>>} /\ <<i>> \in Active(x, d)
    BY <1>1, ActiveFacts DEF Sound, TablesOnce, Within, Names
  <2>2. QED
    BY <1>1, <2>1
<1>7. RootsTrue(x)
  <2> SUFFICES ASSUME NEW i \in L1Index, NEW e \in Roots(x, i), e.copied, e.at \in Cluster
               PROVE  One(x, e.at)
    BY DEF RootsTrue
  <2>1. One(s, e.at) /\ Names(s, i, e.at)
    BY <1>1 DEF Sound, RootsTrue, Within, Names
  <2>2. e.at # c
    BY <2>1 DEF NotRoot
  <2>3. QED
    BY <1>5, <2>1, <2>2
<1>8. EntriesTrue(x)
  <2> SUFFICES ASSUME NEW v \in VCluster, NEW e \in L2Entry, Has(x, v, e), e.copied, e.at \in Cluster
               PROVE  One(x, e.at)
    BY DEF EntriesTrue
  <2>1. One(s, e.at) /\ Has(s, v, e)
    BY <1>1 DEF Sound, EntriesTrue, Within
  <2>2. v \in Active(s, e.at)
    BY <2>1, ActiveFacts DEF Reaches
  <2>3. e.at # c
    BY <1>4, <2>1, <2>2
  <2>4. QED
    BY <1>5, <2>1, <2>3
<1>9. StaleIsShared(x)
  <2> SUFFICES ASSUME NEW i \in L1Index, Roots(x, i) # {x.l1[i]}, x.l1[i].at # None
               PROVE  ~x.l1[i].copied /\ (x.l1[i].at \in Cluster => x.dev.rc[x.l1[i].at] > 1)
    BY DEF StaleIsShared
  <2>1. s.l1[i].at # c
    BY DEF NotRoot, Names, Roots
  <2>2. Roots(s, i) # {s.l1[i]}
    BY DEF Roots
  <2>3. QED
    BY <1>2, <2>1, <2>2 DEF Sound, StaleIsShared
<1>10. SnapKept(x)
  BY SnapStays DEF Sound
<1>11. QED
  BY <1>1, <1>3, <1>5, <1>6, <1>7, <1>8, <1>9, <1>10 DEF Sound

(***************************************************************************)
(* Images: as opened, and as a crash leaves them                           *)
(***************************************************************************)
(* A store at rest: everything durable, nothing in the cache.              *)
AtRest(s) == s.durable = s.dev /\ s.l1 = s.dev.l1 /\ s.cache = <<>>

LEMMA AtRestFacts ==
    ASSUME NEW s, IsStore(s), AtRest(s)
    PROVE  /\ \A i \in L1Index : Roots(s, i) = {s.dev.l1[i]}
           /\ \A i \in L1Index : \A c : Names(s, i, c) <=> s.dev.l1[i].at = c
           /\ \A v \in VCluster, e \in L2Entry : Has(s, v, e) =>
                  e = EntryAt(s.dev, Targets(s.dev.l1), v)
           /\ \A c \in Cluster : Active(s, c) \subseteq PathsThrough(s.dev, Targets(s.dev.l1), c)
<1>1. \A i \in L1Index : Roots(s, i) = {s.dev.l1[i]}
  BY DEF AtRest, Roots
<1>2. \A i \in L1Index : \A c : Names(s, i, c) <=> s.dev.l1[i].at = c
  BY <1>1 DEF Names
<1>3. ASSUME NEW v \in VCluster, NEW e \in L2Entry, Has(s, v, e)
      PROVE  e = EntryAt(s.dev, Targets(s.dev.l1), v)
  <2>1. v[1] \in L1Index
    BY DEF VCluster
  <2>2. PICK a \in Cluster : Names(s, v[1], a) /\ e = s.dev.table[a][v[2]]
    BY <1>3 DEF Has, AtRest
  <2>3. a = s.dev.l1[v[1]].at
    BY <1>2, <2>1, <2>2
  <2>4. QED
    BY <2>1, <2>2, <2>3 DEF EntryAt, Targets
<1>4. ASSUME NEW c \in Cluster, NEW p \in Active(s, c)
      PROVE  p \in PathsThrough(s.dev, Targets(s.dev.l1), c)
  <2>1. Leads(s, p, c)
    BY DEF Active
  <2>2. CASE \E i \in L1Index : p = <<i>> /\ Names(s, i, c)
    BY <1>2, <2>2 DEF PathsThrough, Targets
  <2>3. CASE p \in VCluster /\ \E e \in L2Entry : Has(s, p, e) /\ Reaches(e, c)
    BY <1>3, <2>3 DEF PathsThrough, Reaches
  <2>4. QED
    BY <2>1, <2>2, <2>3 DEF Leads
<1>5. QED
  BY <1>1, <1>2, <1>3, <1>4

LEMMA OpenedSound ==
    ASSUME NEW s, IsStore(s), AtRest(s), s.dev = s.img.dev, SoundImage(s.img)
    PROVE  Sound(s, {})
<1> DEFINE L == Targets(s.dev.l1)
<1>1. /\ \A i \in L1Index : Roots(s, i) = {s.dev.l1[i]}
      /\ \A i \in L1Index : \A c : Names(s, i, c) <=> s.dev.l1[i].at = c
      /\ \A v \in VCluster, e \in L2Entry : Has(s, v, e) => e = EntryAt(s.dev, L, v)
      /\ \A c \in Cluster : Active(s, c) \subseteq PathsThrough(s.dev, L, c)
  BY AtRestFacts
<1> HIDE DEF L
<1>2. Covered(s, {})
  <2> SUFFICES ASSUME NEW c \in Cluster PROVE Cost(s, {}, c) <= s.dev.rc[c]
    BY DEF Covered, AtRest
  <2>1. /\ Cardinality(Active(s, c)) <= Cardinality(PathsThrough(s.dev, L, c))
        /\ Cardinality(PathsThrough(s.dev, L, c)) \in Nat
    BY <1>1, KeptInPlace, Counting
  <2>2. Cardinality(PathsThrough(s.dev, L, c)) + Cardinality(Kept(s, c)) <= s.dev.rc[c]
    BY DEF SoundImage, References, Kept, L
  <2>3. QED
    BY <2>1, <2>2, CostTyped, RcTyped DEF Cost
<1>3. TablesOnce(s)
  <2> SUFFICES ASSUME NEW i \in L1Index, NEW c \in Cluster, Names(s, i, c)
               PROVE  Active(s, c) = {<<i>>}
    BY DEF TablesOnce
  <2>1. PathsThrough(s.dev, L, c) = {<<i>>}
    BY <1>1 DEF SoundImage, L
  <2>2. <<i>> \in Active(s, c)
    BY ActiveFacts
  <2>3. QED
    BY <1>1, <2>1, <2>2
<1>4. RootsTrue(s)
  BY <1>1 DEF RootsTrue, SoundImage, One, AtRest
<1>5. EntriesTrue(s)
  BY <1>1 DEF EntriesTrue, SoundImage, One, AtRest, L
<1>6. StaleIsShared(s)
  BY <1>1 DEF StaleIsShared, AtRest
<1>7. SnapKept(s)
  BY DEF SnapKept, AtRest
<1>8. QED
  BY <1>2, <1>3, <1>4, <1>5, <1>6, <1>7 DEF Sound

(* d holds, place by place, what the device or the medium held.            *)
Mixes(d, s) ==
    /\ d \in Device
    /\ \A i \in L1Index : d.l1[i] \in {s.durable.l1[i], s.dev.l1[i]}
    /\ \A c \in Cluster : d.rc[c] \in {s.durable.rc[c], s.dev.rc[c]}
    /\ \A c \in Cluster : \A j \in L2Index :
           d.table[c][j] \in {s.durable.table[c][j], s.dev.table[c][j]}
    /\ \A c \in Cluster : \A w \in Word :
           d.data[c][w] \in {s.durable.data[c][w], s.dev.data[c][w]}

LEMMA CrashKeeps ==
    ASSUME NEW s, NEW x, NEW held, IsStore(s), IsStore(x), Sound(s, held),
           x.img = s.img, AtRest(x), Mixes(x.dev, s)
    PROVE  Sound(x, {})
<1>1. \A i \in L1Index : Roots(x, i) \subseteq Roots(s, i)
  BY DEF Roots, AtRest, Mixes
<1>2. \A i \in L1Index : \A c : Names(x, i, c) => Names(s, i, c)
  BY <1>1 DEF Names
<1>3. ASSUME NEW v \in VCluster, NEW e \in L2Entry, Has(x, v, e) PROVE Has(s, v, e)
  <2>1. v[1] \in L1Index /\ v[2] \in L2Index
    BY DEF VCluster
  <2>2. PICK a \in Cluster : Names(x, v[1], a) /\ e = x.dev.table[a][v[2]]
    BY <1>3 DEF Has, AtRest
  <2>3. Names(s, v[1], a) /\ (e = s.dev.table[a][v[2]] \/ e = s.durable.table[a][v[2]])
    BY <1>2, <2>1, <2>2 DEF Mixes
  <2>4. QED
    BY <2>3 DEF Has
<1>4. Within(x, s)
  BY <1>1, <1>3 DEF Within
<1>5. Covered(x, {}) /\ TablesOnce(x) /\ RootsTrue(x) /\ EntriesTrue(x)
  BY <1>4, WithinSound DEF Mixes, AtRest
<1>6. StaleIsShared(x)
  BY DEF StaleIsShared, Roots, AtRest
<1>7. SnapKept(x)
  <2>1. ASSUME NEW i \in L1Index, s.img.snap[i] \in Cluster
        PROVE  x.dev.table[s.img.snap[i]] = s.dev.table[s.img.snap[i]]
    <3> DEFINE a == s.img.snap[i]
    <3>1. s.dev.table[a] = s.durable.table[a] /\ a \in Cluster
      BY <2>1 DEF Sound, SnapKept
    <3> HIDE DEF a
    <3>2. s.dev.table[a] \in [L2Index -> L2Entry] /\ x.dev.table[a] \in [L2Index -> L2Entry]
      BY <3>1 DEF IsStore, Device
    <3>3. ASSUME NEW j \in L2Index PROVE x.dev.table[a][j] = s.dev.table[a][j]
      <4>1. x.dev.table[a][j] \in {s.dev.table[a][j], s.durable.table[a][j]}
        BY <3>1 DEF Mixes
      <4>2. QED
        BY <3>1, <4>1
    <3>4. QED
      BY <3>2, <3>3 DEF a
  <2>2. ASSUME NEW c \in Cluster, Kept(s, c) # {}
        PROVE  x.dev.data[c] = s.dev.data[c]
    <3>1. s.dev.data[c] = s.durable.data[c]
      BY <2>2 DEF Sound, SnapKept
    <3>2. s.dev.data[c] \in [Word -> Nat] /\ x.dev.data[c] \in [Word -> Nat]
      BY DEF IsStore, Device
    <3>3. ASSUME NEW w \in Word PROVE x.dev.data[c][w] = s.dev.data[c][w]
      <4>1. x.dev.data[c][w] \in {s.dev.data[c][w], s.durable.data[c][w]}
        BY DEF Mixes
      <4>2. QED
        BY <3>1, <4>1
    <3>4. QED
      BY <3>2, <3>3
  <2>3. QED
    BY <2>1, <2>2, SnapStays DEF Sound, AtRest
<1>8. QED
  BY <1>5, <1>6, <1>7 DEF Sound

(***************************************************************************)
(* What a sound store means                                                *)
(***************************************************************************)
LEMMA PathsAreActive ==
    ASSUME NEW s, IsStore(s), NEW c \in Cluster
    PROVE  PathsThrough(s.dev, Targets(s.dev.l1), c) \subseteq Active(s, c)
<1> DEFINE L == Targets(s.dev.l1)
<1>0. \A i \in L1Index : L[i] = s.dev.l1[i].at
  BY DEF Targets
<1> HIDE DEF L
<1> SUFFICES ASSUME NEW p \in PathsThrough(s.dev, L, c) PROVE p \in Active(s, c)
  BY DEF L
<1>1. CASE \E i \in L1Index : p = <<i>> /\ L[i] = c
  BY <1>0, <1>1, ActiveFacts DEF Names, Roots
<1>2. CASE p \in VCluster /\ c \in {EntryAt(s.dev, L, p).at, LastOf(EntryAt(s.dev, L, p))}
  <2>1. p[1] \in L1Index /\ p[2] \in L2Index
    BY <1>2 DEF VCluster
  <2>2. EntryAt(s.dev, L, p) # NoEntry
    BY <1>2, EntryForFacts DEF Reaches
  <2>3. L[p[1]] \in Cluster /\ EntryAt(s.dev, L, p) = s.dev.table[L[p[1]]][p[2]]
    BY <2>2 DEF EntryAt
  <2>4. Names(s, p[1], L[p[1]])
    BY <1>0, <2>1 DEF Names, Roots
  <2>5. EntryAt(s.dev, L, p) \in L2Entry
    BY <2>1, <2>3 DEF IsStore, Device
  <2>6. QED
    BY <1>2, <2>3, <2>4, <2>5, ActiveFacts DEF Has, Reaches
<1>3. QED
  BY <1>1, <1>2 DEF PathsThrough

(* The snapshot's tables being as they were, so are the paths through them.*)
LEMMA SnapEntries ==
    ASSUME NEW s, IsStore(s), SnapKept(s)
    PROVE  /\ \A v \in VCluster : EntryAt(s.dev, s.img.snap, v) = EntryAt(s.img.dev, s.img.snap, v)
           /\ \A c : PathsThrough(s.dev, s.img.snap, c) = Kept(s, c)
<1>1. ASSUME NEW v \in VCluster
      PROVE  EntryAt(s.dev, s.img.snap, v) = EntryAt(s.img.dev, s.img.snap, v)
  BY DEF EntryAt, SnapKept, VCluster
<1>2. QED
  BY <1>1 DEF PathsThrough, Kept

LEMMA SoundCounts ==
    ASSUME NEW s, NEW held, IsStore(s), Sound(s, held), NEW c \in Cluster
    PROVE  /\ References(s.dev, s.img.snap, c) \in Nat
           /\ References(s.dev, s.img.snap, c) <= s.dev.rc[c]
<1> DEFINE P == PathsThrough(s.dev, Targets(s.dev.l1), c)
<1>1. P \subseteq Active(s, c)
  BY PathsAreActive
<1>2. Cardinality(P) \in Nat /\ Cardinality(P) <= Cardinality(Active(s, c))
  BY <1>1, ActiveFacts, Counting
<1>3. References(s.dev, s.img.snap, c) = Cardinality(P) + Cardinality(Kept(s, c))
  BY SnapEntries DEF References, Sound
<1>4. Cost(s, held, c) <= s.dev.rc[c]
  BY DEF Sound, Covered
<1> HIDE DEF P
<1>5. QED
  BY <1>2, <1>3, <1>4, CostTyped, RcTyped DEF Cost

LEMMA ReferredTo ==
    ASSUME NEW s, NEW held, IsStore(s), Sound(s, held), NEW c \in Cluster, One(s, c),
           NEW p \in PathsThrough(s.dev, Targets(s.dev.l1), c)
    PROVE  s.dev.rc[c] = 1 /\ References(s.dev, s.img.snap, c) = 1
<1> DEFINE P == PathsThrough(s.dev, Targets(s.dev.l1), c)
           K == PathsThrough(s.dev, s.img.snap, c)
<1>1. P \in SUBSET Place /\ K \in SUBSET Place
  BY KeptInPlace
<1>2. Cardinality(P) \in Nat /\ Cardinality(P) # 0 /\ Cardinality(K) \in Nat
  BY <1>1, Counting
<1>3. References(s.dev, s.img.snap, c) = Cardinality(P) + Cardinality(K)
  BY DEF References
<1> HIDE DEF P, K
<1>4. QED
  BY <1>2, <1>3, SoundCounts DEF One

LEMMA SoundHonest ==
    ASSUME NEW s, NEW held, IsStore(s), Sound(s, held), NEW i \in L1Index,
           s.dev.l1[i].copied, s.dev.l1[i].at \in Cluster
    PROVE  /\ s.dev.rc[s.dev.l1[i].at] = 1
           /\ References(s.dev, s.img.snap, s.dev.l1[i].at) = 1
           /\ \A j \in L2Index :
                LET entry == s.dev.table[s.dev.l1[i].at][j] IN
                entry.copied /\ entry.at \in Cluster =>
                    s.dev.rc[entry.at] = 1 /\ References(s.dev, s.img.snap, entry.at) = 1
<1> DEFINE a == s.dev.l1[i].at
           L == Targets(s.dev.l1)
<1>1. One(s, a) /\ L[i] = a
  BY DEF Sound, RootsTrue, Roots, Targets
<1>2. <<i>> \in PathsThrough(s.dev, L, a)
  BY <1>1 DEF PathsThrough
<1>3. s.dev.rc[a] = 1 /\ References(s.dev, s.img.snap, a) = 1
  BY <1>1, <1>2, ReferredTo
<1>4. ASSUME NEW j \in L2Index, s.dev.table[a][j].copied, s.dev.table[a][j].at \in Cluster
      PROVE  /\ s.dev.rc[s.dev.table[a][j].at] = 1
             /\ References(s.dev, s.img.snap, s.dev.table[a][j].at) = 1
  <2> DEFINE e == s.dev.table[a][j]
             v == <<i, j>>
  <2>1. v \in VCluster /\ e \in L2Entry /\ v[1] = i /\ v[2] = j
    BY DEF VCluster, IsStore, Device
  <2>2. Has(s, v, e)
    BY <2>1 DEF Has, Names, Roots
  <2>3. One(s, e.at)
    BY <1>4, <2>1, <2>2 DEF Sound, EntriesTrue
  <2>4. EntryAt(s.dev, L, v) = e
    BY <1>1, <2>1 DEF EntryAt
  <2>5. v \in PathsThrough(s.dev, L, e.at)
    BY <2>1, <2>4 DEF PathsThrough
  <2>6. QED
    BY <1>4, <2>3, <2>5, ReferredTo
<1>5. QED
  BY <1>3, <1>4

LEMMA SoundSnapshot ==
    ASSUME NEW s, NEW held, IsStore(s), Sound(s, held)
    PROVE  ViewThrough(s.dev, s.img.snap, s.img.backing)
               = ViewThrough(s.img.dev, s.img.snap, s.img.backing)
<1> SUFFICES ASSUME NEW x \in VWord
             PROVE  LET map == MapOf(EntryAt(s.dev, s.img.snap, x[1]), FALSE)
                        was == MapOf(EntryAt(s.img.dev, s.img.snap, x[1]), FALSE)
                    IN  (IF map.last >= Outside THEN 0
                         ELSE ClusterWords(s.dev.data, s.img.backing, x[1], map)[x[2]])
                        = (IF was.last >= Outside THEN 0
                           ELSE ClusterWords(s.img.dev.data, s.img.backing, x[1], was)[x[2]])
  BY DEF ViewThrough
<1> DEFINE entry == EntryAt(s.img.dev, s.img.snap, x[1])
           map == MapOf(entry, FALSE)
<1>1. x[1] \in VCluster /\ x[1][1] \in L1Index /\ x[1][2] \in L2Index
  BY DEF VWord, VCluster
<1>2. EntryAt(s.dev, s.img.snap, x[1]) = entry
  BY <1>1, SnapEntries DEF Sound
<1>3. entry \in L2Entry
  <2>1. s.img.dev.table \in [Cluster -> [L2Index -> L2Entry]]
    BY DEF IsStore, Image, Device
  <2>2. CASE s.img.snap[x[1][1]] \notin Cluster
    BY <2>2, EntriesTyped DEF EntryAt
  <2>3. CASE s.img.snap[x[1][1]] \in Cluster
    <3>1. entry = s.img.dev.table[s.img.snap[x[1][1]]][x[1][2]]
      BY <2>3 DEF EntryAt
    <3>2. s.img.dev.table[s.img.snap[x[1][1]]] \in [L2Index -> L2Entry]
      BY <2>1, <2>3
    <3> HIDE DEF entry
    <3>3. QED
      BY <1>1, <3>1, <3>2
  <2>4. QED
    BY <2>2, <2>3
<1>4. map \in ClusterMap /\ map.host = entry.at /\ map.last = LastOf(entry)
  BY <1>3, MapTyped DEF MapOf
<1>5. \A c \in Cluster : c \in {entry.at, LastOf(entry)} => s.dev.data[c] = s.img.dev.data[c]
  <2>1. \A c : c \in {entry.at, LastOf(entry)} => x[1] \in Kept(s, c)
    BY <1>1 DEF Kept, PathsThrough
  <2>2. QED
    BY <2>1 DEF Sound, SnapKept
<1> HIDE DEF map, entry
<1>6. ASSUME ~(map.last >= Outside)
      PROVE  ClusterWords(s.dev.data, s.img.backing, x[1], map)
                 = ClusterWords(s.img.dev.data, s.img.backing, x[1], map)
  <2>1. Placed(map, Clusters)
    <3>1. map.last \in Nat
      BY <1>4, MapFacts, Numbers DEF Offset
    <3>2. QED
      BY <1>6, <3>1, Numbers DEF Placed, Outside
  <2>2. CASE map.case \in {"Plain", "Compressed"}
    <3>1. map.host \in Cluster /\ map.last \in Cluster
      BY <1>4, <2>1, <2>2, PlacedInCluster, Numbers
    <3>2. /\ s.dev.data[map.host] = s.img.dev.data[map.host]
          /\ s.dev.data[map.last] = s.img.dev.data[map.last]
      BY <1>4, <1>5, <3>1
    <3>3. Decompressed(s.dev.data, map) = Decompressed(s.img.dev.data, map)
      BY <3>2 DEF Decompressed, Payload
    <3>4. QED
      BY <2>2, <3>2, <3>3 DEF ClusterWords
  <2>3. CASE map.case \in {"Zero", "Unallocated"}
    BY <2>3 DEF ClusterWords
  <2>4. QED
    BY <1>4, <2>2, <2>3, MapFacts
<1>7. QED
  BY <1>2, <1>6 DEF map, entry

(***************************************************************************)
(* The writer                                                              *)
(***************************************************************************)
(* Where a new table is counted and not yet named.                         *)
ShadowSteps == {"zero", "zeroFlush", "copy", "copyFlush", "l1Write"}

(* Where the new cluster is counted and not yet named.                     *)
FilledSteps == {"fill", "fillFlush", "repoint", "l1Flush", "entry"} \cup ShadowSteps

ForTable(step, r) == step \in {"allocate", "allocateFlush"} /\ r.why # "data"

AfterCopy(step, r) == step \in ReleaseSteps /\ r.why = "copy"

HasNew(step, r) == step \in FilledSteps \/ ForTable(step, r) \/ AfterCopy(step, r)

LastRelease(step, r) == step = "release" /\ r.why # "copy"

(* The clusters a writer at `step`, with locals r, must publish or release.*)
Mine(step, r) ==
    {c \in Cluster :
        \/ c = r.new /\ HasNew(step, r)
        \/ c = r.table /\ step \in ShadowSteps
        \/ c = r.l1Entry.at /\ step = "release" /\ r.why = "copy"
        \/ c = r.old /\ (step = "forgetData" \/ LastRelease(step, r))}

CachedAt(s, v, c) == s.cache # <<>> /\ s.cache[1] = v[1] /\ s.cache[2][v[2]].at = c

(* The cluster to release is the one the cache still has for this chunk.   *)
OldCached(s, r) == r.old # None => r.old \in Cluster /\ CachedAt(s, r.at, r.old)

(* The table to replace: none, or one that is shared.                      *)
Replaced(s, r) ==
    LET e == s.l1[r.at[1]] IN
    /\ r.l1Entry = e
    /\ IF r.why = "copy" THEN e.at \in Cluster /\ ~e.copied /\ s.dev.rc[e.at] > 1
       ELSE e.at = None

(* The new table gives no virtual cluster an entry it did not have.        *)
RowReady(s, r) ==
    LET a == s.l1[r.at[1]].at IN
    \A j \in L2Index : \/ s.dev.table[r.table][j] = NoEntry
                       \/ a \in Cluster /\ s.dev.table[r.table][j] = s.dev.table[a][j]

Working(s, step, r) ==
    LET i == r.at[1]
        j == r.at[2]
    IN
    /\ step = "l2" => r.l1Entry = s.l1[i]
    /\ step = "plan" /\ r.map.case \in {"Plain", "Compressed"} =>
        CachedAt(s, r.at, r.map.host) /\ (r.map.copied => s.cache[2][j].copied)
    /\ step = "inPlace" => Kept(s, r.map.host) = {}
    /\ \/ step \in FilledSteps \cup {"allocate", "allocateFlush", "entryFlush", "forgetL2"}
       \/ AfterCopy(step, r)
       => OldCached(s, r)
    /\ HasNew(step, r) => Unused(s, r.new)
    /\ step = "allocateFlush" =>
        IF r.why = "data" THEN Taken(s, r.new) ELSE Taken(s, r.table) /\ r.table # r.new
    /\ step \in ShadowSteps => Unused(s, r.table) /\ r.table # r.new
    /\ ForTable(step, r) \/ step \in ShadowSteps \cup {"l1Flush"} => Replaced(s, r)
    /\ step \in {"zeroFlush", "copyFlush", "l1Write"} => RowReady(s, r)
    /\ step = "l1Write" => s.durable.table[r.table] = s.dev.table[r.table]
    /\ step = "l1Flush" =>
        /\ r.table \in Cluster /\ s.dev.l1[i] = L1EntryFor(r.table)
        /\ s.l1[i].at # r.table /\ Kept(s, r.table) = {}
    /\ step \in {"entry", "entryFlush", "forgetL2"} \/ AfterCopy(step, r) => Own(s, i, r.table)
    /\ step \in {"entryFlush", "forgetL2"} =>
        /\ r.new \in Cluster /\ r.old # r.new
        /\ s.dev.table[r.table][j] = L2EntryFor(r.new)
    /\ step = "forgetL2" => s.durable.table[r.table][j] = L2EntryFor(r.new)
    /\ step = "release" /\ r.why = "copy" =>
        r.l1Entry.at \in Cluster /\ NotRoot(s, r.l1Entry.at) /\ r.l1Entry.at # r.new
    /\ step = "forgetData" /\ r.old # None => r.old \in Cluster /\ NotRoot(s, r.old)
    /\ LastRelease(step, r) => r.old \in Cluster /\ NotRoot(s, r.old)

Held == {c \in Cluster : \E t \in Writers : c \in Mine(pc[t], reg[t])}

(* The inductive invariant.                                                *)
CountsInv == Sound(Stored, Held) /\ \A t \in Writers : Working(Stored, pc[t], reg[t])

Resting == {"idle", "lock", "l1", "next"}

LEMMA RestingFacts ==
    ASSUME NEW s, NEW step \in Resting, NEW r
    PROVE  Mine(step, r) = {} /\ Working(s, step, r)
<1>1. /\ step \notin FilledSteps \cup ShadowSteps \cup ReleaseSteps
      /\ step \notin {"l2", "plan", "inPlace", "allocate", "allocateFlush", "entryFlush", "forgetL2",
                      "forgetData", "release", "l1Flush", "entry", "zeroFlush", "copyFlush", "l1Write"}
  BY DEF Resting, FilledSteps, ShadowSteps, ReleaseSteps
<1>2. ~HasNew(step, r) /\ ~ForTable(step, r) /\ ~AfterCopy(step, r) /\ ~LastRelease(step, r)
  BY <1>1 DEF HasNew, ForTable, AfterCopy, LastRelease
<1>3. QED
  BY <1>1, <1>2 DEF Mine, Working

LEMMA StoredTyped == Typed => IsStore(Stored)
  BY TypedParts, WriteAssumption DEF Stored, IsStore, StoreTyped, CachesTyped

StoredIs == IsStore(Stored)

LEMMA StoredNext == Typed' => IsStore(Stored')
<1>1. Typed => StoredIs
  BY StoredTyped DEF StoredIs
<1>2. Typed' => StoredIs'
  BY <1>1, PTL
<1>3. QED
  BY <1>2 DEF StoredIs

(* Only the writer that has the write lock holds anything.                 *)
LEMMA OneHolds ==
    ASSUME Serial, NEW t \in Writers, pc[t] \notin {"idle", "lock"}
    PROVE  Held = Mine(pc[t], reg[t])
<1>1. ASSUME NEW u \in Writers, u # t PROVE pc[u] \in Resting
  BY <1>1 DEF Serial, Resting
<1>2. ASSUME NEW u \in Writers, u # t PROVE Mine(pc[u], reg[u]) = {}
  BY <1>1, <1>2, RestingFacts
<1>3. QED
  BY <1>2 DEF Held, Mine

LEMMA Begin ==
    ASSUME Typed, Serial, CountsInv, NEW t \in Writers, pc[t] \notin {"idle", "lock"}
    PROVE  /\ IsStore(Stored) /\ Sound(Stored, Mine(pc[t], reg[t]))
           /\ Working(Stored, pc[t], reg[t])
           /\ t \in Threads /\ reg[t] \in Local /\ pc[t] \in Steps /\ LocalsGood(t)
           /\ reg[t].at \in VCluster /\ reg[t].at[1] \in L1Index /\ reg[t].at[2] \in L2Index
           /\ reg[t].map \in ClusterMap
<1>1. IsStore(Stored) /\ Sound(Stored, Mine(pc[t], reg[t])) /\ Working(Stored, pc[t], reg[t])
  BY OneHolds, StoredTyped DEF CountsInv
<1>2. t \in Threads /\ reg[t] \in Local /\ pc[t] \in Steps /\ LocalsGood(t)
  BY TypedParts
<1>3. QED
  BY <1>1, <1>2 DEF Local, VCluster

(* What a step of the writer at work must give.                            *)
StepFine(t) ==
    Sound(Stored', Mine(pc'[t], reg'[t])) /\ Working(Stored', pc'[t], reg'[t])

LEMMA End ==
    ASSUME Typed, Serial, CountsInv, NEW t \in Writers, pc[t] \notin {"idle", "lock"},
           \A u \in Threads : u # t => pc'[u] = pc[u] /\ reg'[u] = reg[u],
           StepFine(t)
    PROVE  CountsInv'
<1>1. ASSUME NEW u \in Writers, u # t PROVE pc'[u] \in Resting
  <2>1. pc[u] \in {"idle", "lock"}
    BY <1>1 DEF Serial
  <2>2. QED
    BY <1>1, <2>1, TypedParts DEF Resting
<1>2. ASSUME NEW u \in Writers, u # t
      PROVE  Mine(pc'[u], reg'[u]) = {} /\ Working(Stored', pc'[u], reg'[u])
  BY <1>1, <1>2, RestingFacts
<1>3. Held' = Mine(pc'[t], reg'[t])
  BY <1>2 DEF Held, Mine
<1>4. \A u \in Writers : Working(Stored', pc'[u], reg'[u])
  BY <1>2 DEF StepFine
<1>5. QED
  BY <1>3, <1>4 DEF CountsInv, StepFine

(* A step that stores nothing.                                             *)
LEMMA QuietFine ==
    ASSUME Typed, Serial, CountsInv, NEW t \in Writers, pc[t] \notin {"idle", "lock"},
           Stored' = Stored,
           \A c \in Cluster : c \in Mine(pc'[t], reg'[t]) => c \in Mine(pc[t], reg[t]),
           Working(Stored, pc'[t], reg'[t])
    PROVE  StepFine(t)
<1>1. IsStore(Stored) /\ Sound(Stored, Mine(pc[t], reg[t]))
  BY Begin
<1>2. Sound(Stored, Mine(pc'[t], reg'[t]))
  BY <1>1, HoldLess
<1>3. QED
  BY <1>2 DEF StepFine

(* A call that ends keeps no hold on anything.                             *)
LEMMA LeaveFine ==
    ASSUME Typed, Typed', NEW t \in Writers, Leave(t), NEW held, Sound(Stored', held)
    PROVE  StepFine(t)
<1>1. pc'[t] \in Resting
  BY TypedParts DEF Leave, Go, Resting
<1>2. Mine(pc'[t], reg'[t]) = {} /\ Working(Stored', pc'[t], reg'[t])
  BY <1>1, RestingFacts
<1>3. IsStore(Stored')
  BY StoredNext
<1>4. Sound(Stored', {})
  BY <1>3, HoldLess
<1>5. QED
  BY <1>2, <1>4 DEF StepFine

LEMMA RestFine ==
    ASSUME Typed, Typed', NEW t \in Writers, pc'[t] \in Resting, NEW held, Sound(Stored', held)
    PROVE  StepFine(t)
<1>2. Mine(pc'[t], reg'[t]) = {} /\ Working(Stored', pc'[t], reg'[t])
  BY RestingFacts
<1>3. IsStore(Stored')
  BY StoredNext
<1>4. Sound(Stored', {})
  BY <1>3, HoldLess
<1>5. QED
  BY <1>2, <1>4 DEF StepFine

LEMMA LeavingFine ==
    ASSUME Typed, Typed', Serial, CountsInv, NEW t \in Writers,
           Undecodable(t) \/ NoRoom(t) \/ EndWrite(t) \/ DeviceError(t)
    PROVE  StepFine(t)
<1>1. Leave(t) /\ Stored' = Stored
  BY DEF Undecodable, NoRoom, EndWrite, DeviceError, memory, Stored
<1>2. Sound(Stored, Held)
  BY DEF CountsInv
<1>3. QED
  BY <1>1, <1>2, LeaveFine

LEMMA GoSet ==
    ASSUME Typed, NEW t \in Writers
    PROVE  /\ \A step : Go(t, step) => pc'[t] = step
           /\ \A locals : Set(t, locals) => reg'[t] = locals
           /\ UNCHANGED reg => reg'[t] = reg[t]
  BY TypedParts DEF Go, Set

LEMMA LookupL1Fine ==
    ASSUME Typed, Typed', Serial, CountsInv, NEW t \in Writers, LookupL1(t)
    PROVE  StepFine(t)
<1> DEFINE entry == l1[reg[t].at[1]]
<1>1. pc[t] = "l1" /\ Stored' = Stored
  BY DEF LookupL1, memory, Stored
<1>2. CASE Leave(t)
  BY <1>1, <1>2, LeaveFine DEF CountsInv
<1>3. CASE /\ Set(t, [reg[t] EXCEPT !.l1Entry = entry, !.map = Unallocated])
           /\ Go(t, IF entry.at = None THEN Looked(t) ELSE "l2")
  <2>1. reg[t] \in Local /\ reg'[t] = [reg[t] EXCEPT !.l1Entry = entry, !.map = Unallocated]
    BY <1>1, <1>3, Begin, GoSet
  <2>2. reg'[t].l1Entry = entry /\ reg'[t].map = Unallocated /\ reg'[t].at = reg[t].at
    BY <2>1 DEF Local
  <2>3. pc'[t] \in {"plan", "l2"}
    BY <1>3, GoSet DEF Looked
  <2>4. Mine(pc'[t], reg'[t]) = {}
    BY <2>3 DEF Mine, HasNew, FilledSteps, ShadowSteps, ForTable, AfterCopy, ReleaseSteps, LastRelease
  <2>5. Working(Stored, pc'[t], reg'[t])
    BY <2>2, <2>3, PlainTyped
      DEF Working, Stored, HasNew, FilledSteps, ShadowSteps, ForTable, AfterCopy, ReleaseSteps,
          LastRelease
  <2>6. QED
    BY <1>1, <2>4, <2>5, QuietFine
<1>4. QED
  BY <1>2, <1>3 DEF LookupL1

LEMMA LookupL2Fine ==
    ASSUME Typed, Typed', Serial, CountsInv, NEW t \in Writers, LookupL2(t)
    PROVE  StepFine(t)
<1> DEFINE v == reg[t].at
           cache == Cached(v[1], reg[t].l1Entry.at)
           map == MapOf(cache[2][v[2]], reg[t].l1Entry.copied)
<1>1. pc[t] = "l2"
  BY DEF LookupL2
<1>2. /\ IsStore(Stored) /\ Sound(Stored, Mine(pc[t], reg[t])) /\ reg[t] \in Local
      /\ v \in VCluster /\ v[1] \in L1Index /\ v[2] \in L2Index
      /\ reg[t].l1Entry = l1[v[1]] /\ reg[t].l1Entry.at \in Cluster
  BY <1>1, Begin DEF Working, Stored, LocalsGood, GoodAt
<1>3. IsStore(Stored') /\ Stored' = [Stored EXCEPT !.cache = cache]
  <2>1. UNCHANGED <<img, dev, durable, l1>> /\ l2Cache' = cache
    BY DEF LookupL2
  <2>2. QED
    BY <2>1, StoredNext DEF Stored
<1>4. /\ Stored'.img = Stored.img /\ Stored'.dev = Stored.dev /\ Stored'.durable = Stored.durable
      /\ Stored'.l1 = Stored.l1 /\ Stored'.cache = cache
  BY <1>3 DEF Stored
<1>5. \/ cache = Stored.cache
      \/ \E i \in L1Index : /\ Stored.l1[i].at \in Cluster
                            /\ cache = <<i, Stored.dev.table[Stored.l1[i].at]>>
  BY <1>2 DEF Cached, Stored
<1>6. Sound(Stored', Mine(pc[t], reg[t]))
  BY <1>2, <1>3, <1>4, <1>5, CacheKeeps
<1>7. CASE Leave(t)
  BY <1>6, <1>7, LeaveFine
<1>8. CASE Set(t, [reg[t] EXCEPT !.map = map]) /\ Go(t, Looked(t))
  <2>1. reg'[t].map = map /\ reg'[t].at = v /\ pc'[t] = "plan"
    <3>1. reg'[t] = [reg[t] EXCEPT !.map = map] /\ pc'[t] = "plan"
      BY <1>8, GoSet DEF Looked
    <3>2. QED
      BY <1>2, <3>1 DEF Local
  <2>2. cache # <<>> /\ cache[1] = v[1]
    BY DEF Cached
  <2>3. map.host = cache[2][v[2]].at /\ (map.copied => cache[2][v[2]].copied)
    BY DEF MapOf
  <2> HIDE DEF map, cache
  <2>4. Working(Stored', pc'[t], reg'[t])
    BY <1>4, <2>1, <2>2, <2>3
      DEF Working, CachedAt, HasNew, FilledSteps, ShadowSteps, ForTable, AfterCopy, ReleaseSteps,
          LastRelease
  <2>5. Mine(pc'[t], reg'[t]) = {}
    BY <2>1 DEF Mine, HasNew, FilledSteps, ShadowSteps, ForTable, AfterCopy, ReleaseSteps, LastRelease
  <2>6. Sound(Stored', {})
    BY <1>3, <1>6, HoldLess
  <2>7. QED
    BY <2>4, <2>5, <2>6 DEF StepFine
<1>9. QED
  BY <1>7, <1>8 DEF LookupL2

(* The mapping of a cluster that is about to be written.                   *)
LEMMA Mapped ==
    ASSUME Typed, Serial, CountsInv, NEW t \in Writers, pc[t] = "plan",
           reg[t].map.case \in {"Plain", "Compressed"}
    PROVE  /\ reg[t].map.host \in Cluster /\ CachedAt(Stored, reg[t].at, reg[t].map.host)
           /\ reg[t].at \in Active(Stored, reg[t].map.host)
           /\ reg[t].map.copied => One(Stored, reg[t].map.host)
<1> DEFINE v == reg[t].at
           map == reg[t].map
           e == Stored.cache[2][v[2]]
<1>1. /\ IsStore(Stored) /\ Sound(Stored, Mine(pc[t], reg[t])) /\ LocalsGood(t)
      /\ Working(Stored, pc[t], reg[t])
      /\ v \in VCluster /\ v[1] \in L1Index /\ v[2] \in L2Index /\ map \in ClusterMap
  BY Begin
<1>2. CachedAt(Stored, v, map.host) /\ (map.copied => e.copied)
  BY <1>1 DEF Working
<1>3. map.host \in Cluster
  <2>1. imageLen \in 0 .. Clusters /\ Placed(map, imageLen)
    BY <1>1, TypedParts DEF LocalsGood, GoodAt
  <2>2. QED
    BY <1>1, <2>1, PlacedInCluster
<1>4. e \in L2Entry /\ Has(Stored, v, e) /\ e.at = map.host
  BY <1>1, <1>2 DEF CachedAt, IsStore, Has
<1>5. v \in Active(Stored, map.host)
  BY <1>1, <1>4, ActiveFacts DEF Reaches
<1>6. map.copied => One(Stored, map.host)
  BY <1>1, <1>2, <1>3, <1>4 DEF Sound, EntriesTrue
<1>7. QED
  BY <1>2, <1>3, <1>5, <1>6

LEMMA PlanInPlaceFine ==
    ASSUME Typed, Typed', Serial, CountsInv, NEW t \in Writers, PlanInPlace(t)
    PROVE  StepFine(t)
<1> DEFINE host == reg[t].map.host
<1>1. /\ pc[t] = "plan" /\ pc'[t] = "inPlace" /\ reg'[t] = reg[t] /\ Stored' = Stored
      /\ reg[t].map.case = "Plain" /\ (reg[t].map.copied \/ ~(dev.rc[host] > 1))
  BY GoSet DEF PlanInPlace, Stored, memory, InPlace, Shared
<1>2. IsStore(Stored) /\ Sound(Stored, Mine(pc[t], reg[t]))
  BY <1>1, Begin
<1>3. /\ host \in Cluster /\ reg[t].at \in Active(Stored, host)
      /\ reg[t].map.copied => One(Stored, host)
  BY <1>1, Mapped
<1>4. Kept(Stored, host) = {}
  <2>1. Stored.dev.rc[host] <= 1
    BY <1>1, <1>2, <1>3, RcTyped DEF One, Stored
  <2>2. Cost(Stored, Mine(pc[t], reg[t]), host) <= 1
    BY <1>2, <1>3, <2>1, CostTyped, RcTyped DEF Sound, Covered
  <2>3. QED
    BY <1>3, <2>2, CostOne
<1>5. Working(Stored, "inPlace", reg[t]) /\ Mine("inPlace", reg[t]) = {}
  BY <1>4 DEF Working, Mine, HasNew, FilledSteps, ShadowSteps, ForTable, AfterCopy, ReleaseSteps,
              LastRelease
<1>6. QED
  BY <1>1, <1>5, QuietFine

LEMMA PlanReallocateFine ==
    ASSUME Typed, Typed', Serial, CountsInv, NEW t \in Writers, PlanReallocate(t)
    PROVE  StepFine(t)
<1> DEFINE map == reg[t].map
<1>1. pc[t] = "plan" /\ pc'[t] = "allocate" /\ Stored' = Stored
  BY GoSet DEF PlanReallocate, Stored
<1>2. reg[t] \in Local /\ map \in ClusterMap
  BY <1>1, Begin
<1>3. PICK full : reg'[t] = [reg[t] EXCEPT !.full = full, !.old = ReleaseOf(map), !.why = "data"]
  BY GoSet DEF PlanReallocate
<1>4. reg'[t].at = reg[t].at /\ reg'[t].old = ReleaseOf(map) /\ reg'[t].why = "data"
  BY <1>2, <1>3 DEF Local
<1>5. OldCached(Stored, reg'[t])
  <2>1. CASE map.case \in {"Plain", "Compressed"}
    <3>1. map.host \in Cluster /\ CachedAt(Stored, reg[t].at, map.host)
      BY <1>1, <2>1, Mapped
    <3>2. QED
      BY <1>4, <2>1, <3>1 DEF OldCached, ReleaseOf
  <2>2. CASE map.case \notin {"Plain", "Compressed"}
    BY <1>4, <2>2 DEF OldCached, ReleaseOf
  <2>3. QED
    BY <2>1, <2>2
<1>6. Working(Stored, "allocate", reg'[t])
  BY <1>4, <1>5 DEF Working, HasNew, FilledSteps, ShadowSteps, ForTable, AfterCopy, ReleaseSteps,
                    LastRelease
<1>7. Mine("allocate", reg'[t]) = {}
  BY <1>4 DEF Mine, HasNew, FilledSteps, ShadowSteps, ForTable, AfterCopy, ReleaseSteps, LastRelease
<1>8. QED
  BY <1>1, <1>6, <1>7, QuietFine

LEMMA WriteInPlaceFine ==
    ASSUME Typed, Typed', Serial, CountsInv, NEW t \in Writers, WriteInPlace(t)
    PROVE  StepFine(t)
<1> DEFINE host == reg[t].map.host
<1>1. pc[t] = "inPlace"
  BY DEF WriteInPlace
<1>2. /\ IsStore(Stored) /\ Sound(Stored, Mine(pc[t], reg[t])) /\ Kept(Stored, host) = {}
      /\ IsStore(Stored')
  BY <1>1, Begin, StoredNext DEF Working
<1>3. PICK after, words : /\ dev' = [dev EXCEPT !.data[host] = after]
                          /\ durable' = [durable EXCEPT !.data[host] = words]
  BY DEF WriteInPlace
<1>4. /\ dev'.l1 = dev.l1 /\ dev'.rc = dev.rc /\ dev'.table = dev.table
      /\ durable'.l1 = durable.l1 /\ durable'.rc = durable.rc /\ durable'.table = durable.table
      /\ \A c \in Cluster : c # host => dev'.data[c] = dev.data[c] /\ durable'.data[c] = durable.data[c]
  <2>1. dev \in Device /\ durable \in Device
    BY <1>2 DEF Stored, IsStore
  <2>2. QED
    BY <1>3, <2>1 DEF Device
<1>5. UNCHANGED <<img, l1, l2Cache>>
  BY DEF WriteInPlace
<1>6. Sound(Stored', Mine(pc[t], reg[t]))
  <2>1. \A c \in Cluster : Kept(Stored, c) # {} => c # host
    BY <1>2
  <2>2. /\ Stored'.img = Stored.img /\ Stored'.l1 = Stored.l1 /\ Stored'.cache = Stored.cache
        /\ Stored'.dev = dev' /\ Stored'.durable = durable' /\ Stored.dev = dev /\ Stored.durable = durable
    BY <1>5 DEF Stored
  <2>3. QED
    BY <1>2, <1>4, <2>1, <2>2, DataKeeps
<1>7. CASE Leave(t)
  BY <1>6, <1>7, LeaveFine
<1>8. CASE Go(t, "next")
  BY <1>6, <1>8, GoSet, RestFine DEF Resting
<1>9. QED
  BY <1>7, <1>8 DEF WriteInPlace, WrittenTo

LEMMA UnusedStays ==
    ASSUME NEW s, NEW x, Within(x, s), NEW c, Unused(s, c), One(x, c)
    PROVE  Unused(x, c)
<1>1. Active(x, c) \subseteq Active(s, c) /\ Kept(x, c) = Kept(s, c)
  BY WithinActive DEF Within, Kept
<1>2. QED
  BY <1>1 DEF Unused, Taken, One

LEMMA NotRootStays ==
    ASSUME NEW s, NEW x, Within(x, s), NEW c, NotRoot(s, c)
    PROVE  NotRoot(x, c)
  BY DEF NotRoot, Within, Names

LEMMA AllocateFine ==
    ASSUME Typed, Typed', Serial, CountsInv, NEW t \in Writers, Allocate(t)
    PROVE  StepFine(t)
<1> DEFINE H == Mine(pc[t], reg[t])
           s == Stored
           x == Stored'
           r == reg[t]
<1>1. pc[t] = "allocate"
  BY DEF Allocate
<1>2. /\ IsStore(s) /\ Sound(s, H) /\ r \in Local /\ IsStore(x)
      /\ Working(s, "allocate", r) /\ r.at[1] \in L1Index
  BY <1>1, Begin, StoredNext
<1>3. PICK c \in Cluster :
        /\ FreeCluster(c)
        /\ dev' = [dev EXCEPT !.rc[c] = 1, !.len = Longer(c)]
        /\ \/ /\ Set(t, IF r.why = "data" THEN [r EXCEPT !.new = c] ELSE [r EXCEPT !.table = c])
              /\ Go(t, "allocateFlush")
           \/ Leave(t)
  BY DEF Allocate
<1>4. /\ x.img = s.img /\ x.l1 = s.l1 /\ x.cache = s.cache /\ x.durable = s.durable
      /\ x.dev.l1 = s.dev.l1 /\ x.dev.table = s.dev.table /\ x.dev.data = s.dev.data
      /\ s.dev.rc[c] = 0 /\ x.dev.rc = [s.dev.rc EXCEPT ![c] = 1]
  BY <1>2, <1>3 DEF Allocate, Stored, memory, IsStore, Device, FreeCluster
<1> HIDE DEF s, x
<1>5. Sound(x, H) /\ Within(x, s) /\ Taken(x, c) /\ c \notin H
  BY <1>2, <1>4, AllocateKeeps
<1>6. CASE Leave(t)
  BY <1>5, <1>6, LeaveFine DEF x
<1>7. CASE /\ Set(t, IF r.why = "data" THEN [r EXCEPT !.new = c] ELSE [r EXCEPT !.table = c])
           /\ Go(t, "allocateFlush")
  <2> DEFINE q == reg'[t]
  <2>1. /\ pc'[t] = "allocateFlush" /\ q.at = r.at /\ q.old = r.old /\ q.why = r.why
        /\ q.l1Entry = r.l1Entry
        /\ IF r.why = "data" THEN q.new = c ELSE q.table = c /\ q.new = r.new
    BY <1>2, <1>7, GoSet DEF Local
  <2> HIDE DEF q
  <2>2. /\ x.dev.rc[c] = 1 /\ \A d \in Cluster : d # c => x.dev.rc[d] = s.dev.rc[d]
    BY <1>2, <1>4 DEF IsStore, Device
  <2>3. ASSUME r.why # "data"
        PROVE  Unused(x, q.new) /\ q.table # q.new /\ Replaced(x, q)
    <3>1. Unused(s, r.new) /\ Replaced(s, r)
      BY <1>2, <2>3 DEF Working, HasNew, ForTable
    <3>2. s.dev.rc[r.new] = 1 /\ r.new # c
      BY <1>4, <3>1 DEF Unused, One
    <3>3. One(x, r.new)
      BY <1>4, <2>2, <3>1, <3>2 DEF Unused, Taken, One
    <3>4. Unused(x, r.new)
      BY <1>5, <3>1, <3>3, UnusedStays
    <3>5. Replaced(x, q)
      <4>1. x.l1 = s.l1 /\ q.at = r.at /\ q.why = r.why /\ q.l1Entry = r.l1Entry
        BY <1>4, <2>1
      <4>2. \A d \in Cluster : s.dev.rc[d] > 1 => x.dev.rc[d] = s.dev.rc[d]
        BY <1>4, <2>2
      <4>3. QED
        BY <3>1, <4>1, <4>2 DEF Replaced
    <3>6. QED
      BY <2>1, <2>3, <3>2, <3>4, <3>5
  <2>4. OldCached(x, q)
    BY <1>2, <1>4, <2>1 DEF Working, OldCached, CachedAt
  <2>5. Working(x, "allocateFlush", q)
    BY <1>5, <2>1, <2>3, <2>4
      DEF Working, HasNew, FilledSteps, ShadowSteps, ForTable, AfterCopy, ReleaseSteps, LastRelease
  <2>6. \A d \in Cluster : d \in Mine("allocateFlush", q) => d \in H
    BY <1>1, <2>1
      DEF Mine, HasNew, FilledSteps, ShadowSteps, ForTable, AfterCopy, ReleaseSteps, LastRelease
  <2>7. Sound(x, Mine("allocateFlush", q))
    BY <1>2, <1>5, <2>6, HoldLess
  <2>8. QED
    BY <2>1, <2>5, <2>7 DEF StepFine, q, x
<1>8. QED
  BY <1>3, <1>6, <1>7

(***************************************************************************)
(* Flushes, the writer's and anybody's                                     *)
(***************************************************************************)
LEMMA FlushWorking ==
    ASSUME NEW s, NEW x, NEW held, IsStore(s), Sound(s, held),
           IsStore(x), x.img = s.img, x.dev = s.dev, x.durable = s.dev, x.l1 = s.l1, x.cache = s.cache,
           NEW step, NEW r, r.at \in VCluster, Working(s, step, r)
    PROVE  Working(x, step, r)
<1>1. /\ Within(x, s)
      /\ \A c \in Cluster : One(s, c) => One(x, c)
  BY FlushKeeps
<1>2. \A c : /\ Unused(s, c) => Unused(x, c)
             /\ Taken(s, c) => Taken(x, c)
             /\ NotRoot(s, c) => NotRoot(x, c)
             /\ Kept(x, c) = Kept(s, c)
  <2>1. ASSUME NEW c, Unused(s, c) PROVE Unused(x, c)
    BY <1>1, <2>1, UnusedStays DEF Unused, Taken
  <2>2. ASSUME NEW c, Taken(s, c) PROVE Taken(x, c)
    BY <1>1, <2>2, WithinActive DEF Taken, Kept
  <2>3. QED
    BY <1>1, <2>1, <2>2, NotRootStays DEF Kept
<1>3. r.at[1] \in L1Index
  BY DEF VCluster
<1>4. \A T : Own(s, r.at[1], T) => Own(x, r.at[1], T)
  BY <1>2, <1>3 DEF Own, Roots
<1>5. OldCached(x, r) <=> OldCached(s, r)
  BY DEF OldCached, CachedAt
<1>6. Replaced(x, r) <=> Replaced(s, r)
  BY DEF Replaced
<1>7. RowReady(x, r) <=> RowReady(s, r)
  BY DEF RowReady
<1>8. \A v, c : CachedAt(x, v, c) <=> CachedAt(s, v, c)
  BY DEF CachedAt
<1>9. QED
  BY <1>2, <1>4, <1>5, <1>6, <1>7, <1>8 DEF Working

LEMMA FlushedFine ==
    ASSUME Typed, Typed', Serial, CountsInv, NEW t \in Writers, pc[t] \notin {"idle", "lock"},
           UNCHANGED <<img, dev, memory, reg>>, durable' = dev
    PROVE  /\ IsStore(Stored') /\ Sound(Stored', Mine(pc[t], reg[t]))
           /\ Working(Stored', pc[t], reg[t]) /\ Stored'.durable = Stored'.dev
           /\ \A c \in Cluster : Stored'.dev.rc[c] = 1 => One(Stored', c)
<1> DEFINE s == Stored
           x == Stored'
<1>1. /\ IsStore(s) /\ Sound(s, Mine(pc[t], reg[t])) /\ Working(s, pc[t], reg[t])
      /\ reg[t].at \in VCluster /\ IsStore(x)
  BY Begin, StoredNext
<1>2. /\ x.img = s.img /\ x.dev = s.dev /\ x.durable = s.dev /\ x.l1 = s.l1
      /\ x.cache = s.cache
  BY DEF Stored, memory
<1> HIDE DEF s, x
<1>3. Sound(x, Mine(pc[t], reg[t])) /\ Working(x, pc[t], reg[t])
  BY <1>1, <1>2, FlushKeeps, FlushWorking
<1>4. QED
  BY <1>1, <1>2, <1>3 DEF One, s, x

LEMMA FlushAllocateFine ==
    ASSUME Typed, Typed', Serial, CountsInv, NEW t \in Writers, FlushAllocate(t)
    PROVE  StepFine(t)
<1> DEFINE x == Stored'
           r == reg[t]
           c == IF r.why = "data" THEN r.new ELSE r.table
<1>1. /\ pc[t] = "allocateFlush" /\ durable' = dev /\ UNCHANGED <<img, dev, memory, reg>>
      /\ Go(t, CASE r.why = "data" -> "fill" [] r.why = "table" -> "zero" [] r.why = "copy" -> "copy")
  BY DEF FlushAllocate, FlushThen
<1>2. /\ IsStore(x) /\ Sound(x, Mine(pc[t], r)) /\ Working(x, pc[t], r)
      /\ \A d \in Cluster : x.dev.rc[d] = 1 => One(x, d)
  BY <1>1, FlushedFine
<1>3. r.why \in {"data", "table", "copy"}
  BY <1>1, Begin DEF LocalsGood, GoodAt
<1>4. /\ pc'[t] = IF r.why = "data" THEN "fill" ELSE IF r.why = "table" THEN "zero" ELSE "copy"
      /\ reg'[t] = r
  BY <1>1, <1>3, GoSet
<1> HIDE DEF x, r
<1>5. Taken(x, c) /\ Unused(x, c) /\ (r.why # "data" => r.table # r.new)
  BY <1>1, <1>2 DEF Working, Unused, Taken
<1>6. Working(x, pc'[t], r)
  BY <1>1, <1>2, <1>3, <1>4, <1>5
    DEF Working, HasNew, FilledSteps, ShadowSteps, ForTable, AfterCopy, ReleaseSteps, LastRelease
<1>7. \A d \in Cluster : d \in Mine(pc'[t], r) => d \in Mine(pc[t], r) \/ d = c
  BY <1>1, <1>3, <1>4
    DEF Mine, HasNew, FilledSteps, ShadowSteps, ForTable, AfterCopy, ReleaseSteps, LastRelease
<1>8. Sound(x, Mine(pc'[t], r))
  BY <1>2, <1>5, <1>7, HoldMore
<1>9. QED
  BY <1>4, <1>6, <1>8 DEF StepFine, x

LEMMA FlushOnFine ==
    ASSUME Typed, Typed', Serial, CountsInv, NEW t \in Writers,
           FlushFill(t) \/ FlushZero(t) \/ FlushCopy(t) \/ FlushEntry(t) \/ FlushRelease(t)
    PROVE  StepFine(t)
<1> DEFINE x == Stored'
           r == reg[t]
<1>1. /\ pc[t] \in {"fillFlush", "zeroFlush", "copyFlush", "entryFlush", "releaseFlush"}
      /\ durable' = dev /\ UNCHANGED <<img, dev, memory, reg>>
      /\ Go(t, CASE pc[t] = "fillFlush" -> "repoint" [] pc[t] = "zeroFlush" -> "l1Write"
                 [] pc[t] = "copyFlush" -> "l1Write" [] pc[t] = "entryFlush" -> "forgetL2"
                 [] pc[t] = "releaseFlush" -> IF r.why = "copy" THEN "entry" ELSE "next")
  BY DEF FlushFill, FlushZero, FlushCopy, FlushEntry, FlushRelease, FlushThen, AfterRelease
<1>2. /\ IsStore(x) /\ Sound(x, Mine(pc[t], r)) /\ Working(x, pc[t], r) /\ x.durable = x.dev
  BY <1>1, FlushedFine
<1>3. /\ pc'[t] = IF pc[t] = "fillFlush" THEN "repoint"
                  ELSE IF pc[t] \in {"zeroFlush", "copyFlush"} THEN "l1Write"
                  ELSE IF pc[t] = "entryFlush" THEN "forgetL2"
                  ELSE IF r.why = "copy" THEN "entry" ELSE "next"
      /\ reg'[t] = r
  BY <1>1, GoSet
<1> HIDE DEF x, r
<1>4. Working(x, pc'[t], r)
  BY <1>1, <1>2, <1>3
    DEF Working, HasNew, FilledSteps, ShadowSteps, ForTable, AfterCopy, ReleaseSteps, LastRelease
<1>5. \A d \in Cluster : d \in Mine(pc'[t], r) => d \in Mine(pc[t], r)
  BY <1>1, <1>3
    DEF Mine, HasNew, FilledSteps, ShadowSteps, ForTable, AfterCopy, ReleaseSteps, LastRelease
<1>6. Sound(x, Mine(pc'[t], r))
  BY <1>2, <1>5, HoldLess
<1>7. QED
  BY <1>3, <1>4, <1>6 DEF StepFine, x

(***************************************************************************)
(* The new cluster and the new table are filled                            *)
(***************************************************************************)
LEMMA FillFine ==
    ASSUME Typed, Typed', Serial, CountsInv, NEW t \in Writers, Fill(t)
    PROVE  StepFine(t)
<1> DEFINE s == Stored
           x == Stored'
           r == reg[t]
           H == Mine(pc[t], reg[t])
<1>1. pc[t] = "fill"
  BY DEF Fill
<1>2. IsStore(s) /\ Sound(s, H) /\ Working(s, "fill", r) /\ IsStore(x) /\ r.new \in Cluster
  BY <1>1, Begin, StoredNext DEF LocalsGood, GoodAt
<1>3. /\ x.img = s.img /\ x.l1 = s.l1 /\ x.cache = s.cache /\ x.durable = s.durable
      /\ x.dev.l1 = s.dev.l1 /\ x.dev.rc = s.dev.rc /\ x.dev.table = s.dev.table
      /\ \A c \in Cluster : c # r.new => x.dev.data[c] = s.dev.data[c]
  <2>1. dev' = [dev EXCEPT !.data[r.new] = r.full] /\ UNCHANGED <<img, durable, l1, l2Cache>>
    BY DEF Fill
  <2>2. dev \in Device
    BY <1>2 DEF Stored, IsStore
  <2>3. /\ dev'.l1 = dev.l1 /\ dev'.rc = dev.rc /\ dev'.table = dev.table
        /\ \A c \in Cluster : c # r.new => dev'.data[c] = dev.data[c]
    BY <2>1, <2>2 DEF Device
  <2>4. QED
    BY <2>1, <2>3 DEF Stored
<1> HIDE DEF s, x
<1>4. Unused(s, r.new) /\ OldCached(s, r)
  BY <1>2 DEF Working, HasNew, FilledSteps
<1>5. Sound(x, H) /\ Within(x, s)
  <2>1. \A c \in Cluster : Kept(s, c) # {} => c # r.new
    BY <1>4 DEF Unused, Taken
  <2>2. QED
    BY <1>2, <1>3, <2>1, DataKeeps
<1>6. CASE Leave(t)
  BY <1>5, <1>6, LeaveFine DEF x
<1>7. CASE Go(t, "fillFlush") /\ UNCHANGED reg
  <2>1. pc'[t] = "fillFlush" /\ reg'[t] = r
    BY <1>7, GoSet
  <2>2. Unused(x, r.new) /\ OldCached(x, r)
    BY <1>3, <1>4, <1>5, UnusedStays DEF Unused, One, OldCached, CachedAt
  <2>3. Working(x, "fillFlush", r)
    BY <2>2 DEF Working, HasNew, FilledSteps, ShadowSteps, ForTable, AfterCopy, ReleaseSteps,
                LastRelease
  <2>4. \A c \in Cluster : c \in Mine("fillFlush", r) => c \in H
    BY <1>1 DEF Mine, HasNew, FilledSteps, ShadowSteps, ForTable, AfterCopy, ReleaseSteps,
                LastRelease
  <2>5. Sound(x, Mine("fillFlush", r))
    BY <1>2, <1>5, <2>4, HoldLess
  <2>6. QED
    BY <2>1, <2>3, <2>5 DEF StepFine, x
<1>8. QED
  BY <1>6, <1>7 DEF Fill, WrittenTo

LEMMA ShadowFine ==
    ASSUME Typed, Typed', Serial, CountsInv, NEW t \in Writers, Zero(t) \/ CopyTable(t)
    PROVE  StepFine(t)
<1> DEFINE s == Stored
           x == Stored'
           r == reg[t]
           T == reg[t].table
           a == l1[reg[t].at[1]].at
           H == Mine(pc[t], reg[t])
           flush == IF pc[t] = "zero" THEN "zeroFlush" ELSE "copyFlush"
<1>1. pc[t] \in {"zero", "copy"}
  BY DEF Zero, CopyTable
<1>2. /\ IsStore(s) /\ Sound(s, H) /\ Working(s, pc[t], r) /\ IsStore(x) /\ r.at[1] \in L1Index
      /\ pc[t] = "copy" => r.why = "copy"
  BY <1>1, Begin, StoredNext DEF LocalsGood, GoodAt
<1>3. /\ Unused(s, r.new) /\ OldCached(s, r) /\ Unused(s, T) /\ T # r.new /\ Replaced(s, r)
      /\ T \in Cluster
  BY <1>1, <1>2 DEF Working, HasNew, FilledSteps, ShadowSteps, Unused, Taken
<1>4. /\ x.img = s.img /\ x.l1 = s.l1 /\ x.cache = s.cache /\ x.durable = s.durable
      /\ x.dev.l1 = s.dev.l1 /\ x.dev.rc = s.dev.rc /\ x.dev.data = s.dev.data
      /\ \A c \in Cluster : c # T => x.dev.table[c] = s.dev.table[c]
  BY <1>2 DEF Zero, CopyTable, Stored, IsStore, Device
<1>5. /\ pc[t] = "zero" => x.dev.table[T] = EmptyTable
      /\ pc[t] = "copy" => x.dev.table[T] = s.dev.table[r.l1Entry.at]
  BY <1>1, <1>2, <1>3 DEF Zero, CopyTable, TableCopy, Stored, IsStore, Device
<1>6. r.l1Entry = s.l1[r.at[1]] /\ a = s.l1[r.at[1]].at
  BY <1>3 DEF Replaced, Stored
<1> HIDE DEF s, x, T, a
<1>7. Sound(x, H) /\ Within(x, s)
  BY <1>2, <1>3, <1>4, RowKeeps DEF Unused, Taken
<1>8. RowReady(x, r)
  <2>1. CASE pc[t] = "zero"
    BY <1>5, <2>1 DEF RowReady, EmptyTable, T
  <2>2. CASE pc[t] = "copy"
    <3>1. a \in Cluster
      BY <1>2, <1>3, <1>6, <2>2 DEF Replaced
    <3>2. a # T
      <4>1. Names(s, r.at[1], a)
        BY <1>6 DEF Names, Roots
      <4>2. Active(s, a) # {}
        BY <1>2, <4>1, ActiveFacts
      <4>3. QED
        BY <1>3, <4>2 DEF Unused, Taken
    <3>3. x.dev.table[T] = x.dev.table[a]
      BY <1>4, <1>5, <1>6, <2>2, <3>1, <3>2
    <3>4. QED
      BY <1>4, <1>6, <3>1, <3>3 DEF RowReady, T
  <2>3. QED
    BY <1>1, <2>1, <2>2
<1>9. CASE Leave(t)
  BY <1>7, <1>9, LeaveFine DEF x
<1>10. CASE Go(t, flush) /\ UNCHANGED reg
  <2>1. pc'[t] = flush /\ reg'[t] = r
    BY <1>10, GoSet
  <2>2. Unused(x, r.new) /\ Unused(x, T)
    <3>1. One(x, r.new) /\ One(x, T)
      BY <1>3, <1>4 DEF Unused, One
    <3>2. QED
      BY <1>3, <1>7, <3>1, UnusedStays
  <2>3. OldCached(x, r)
    BY <1>3, <1>4 DEF OldCached, CachedAt
  <2>4. Replaced(x, r)
    BY <1>3, <1>4 DEF Replaced
  <2>5. Working(x, flush, r)
    BY <1>3, <1>8, <2>2, <2>3, <2>4 DEF Working, HasNew, FilledSteps, ShadowSteps, ForTable, AfterCopy,
                            ReleaseSteps, LastRelease, T
  <2>6. \A c \in Cluster : c \in Mine(flush, r) => c \in H
    BY <1>1 DEF Mine, HasNew, FilledSteps, ShadowSteps, ForTable, AfterCopy, ReleaseSteps,
                LastRelease
  <2>7. Sound(x, Mine(flush, r))
    BY <1>2, <1>7, <2>6, HoldLess
  <2>8. QED
    BY <2>1, <2>5, <2>7 DEF StepFine, x
<1>11. QED
  BY <1>9, <1>10 DEF Zero, CopyTable, WrittenTo

(***************************************************************************)
(* The chunk is repointed                                                  *)
(***************************************************************************)
(* A table marked COPIED, or counted once, is this L1 index's alone.       *)
LEMMA OwnTable ==
    ASSUME NEW s, NEW held, IsStore(s), Sound(s, held), NEW i \in L1Index, s.l1[i].at \in Cluster,
           s.l1[i].copied \/ ~(s.dev.rc[s.l1[i].at] > 1)
    PROVE  Own(s, i, s.l1[i].at)
<1> DEFINE T == s.l1[i].at
<1>1. Roots(s, i) = {s.l1[i]}
  BY Numbers DEF Sound, StaleIsShared
<1>2. Names(s, i, T)
  BY DEF Names, Roots
<1>3. s.dev.rc[T] <= 1
  <2>1. s.l1[i].copied => One(s, T)
    BY DEF Sound, RootsTrue, Roots
  <2>2. QED
    BY <2>1, RcTyped DEF One
<1>4. Cost(s, held, T) <= 1
  BY <1>3, CostTyped, RcTyped DEF Sound, Covered
<1>5. Active(s, T) # {}
  BY <1>2, ActiveFacts
<1>6. Kept(s, T) = {}
  BY <1>4, <1>5, CostOne
<1>7. QED
  BY <1>1, <1>6 DEF Own

LEMMA RepointFine ==
    ASSUME Typed, Typed', Serial, CountsInv, NEW t \in Writers, Repoint(t)
    PROVE  StepFine(t)
<1> DEFINE s == Stored
           r == reg[t]
           q == reg'[t]
           i == reg[t].at[1]
           entry == l1[reg[t].at[1]]
           what == WhatTable(entry)
<1>1. pc[t] = "repoint" /\ Stored' = s
  BY DEF Repoint, Stored, memory
<1>2. /\ IsStore(s) /\ Sound(s, Mine(pc[t], r)) /\ Working(s, "repoint", r)
      /\ r \in Local /\ i \in L1Index /\ entry.at \in 0 .. Clusters /\ entry = s.l1[i]
  BY <1>1, Begin DEF Serial, Stored
<1>3. Unused(s, r.new) /\ OldCached(s, r)
  BY <1>2 DEF Working, HasNew, FilledSteps
<1>4. CASE what = "own" /\ Set(t, [r EXCEPT !.table = entry.at]) /\ Go(t, "entry")
  <2>1. /\ pc'[t] = "entry" /\ q.table = entry.at /\ q.at = r.at /\ q.new = r.new /\ q.old = r.old
        /\ q.l1Entry = r.l1Entry /\ q.why = r.why
    <3>1. pc'[t] = "entry" /\ q = [r EXCEPT !.table = entry.at]
      BY <1>4, GoSet
    <3>2. QED
      BY <1>2, <3>1 DEF Local
  <2>2. entry.at \in Cluster /\ (entry.copied \/ ~(s.dev.rc[entry.at] > 1))
    <3>1. entry.at # None /\ ~TableShared(entry)
      BY <1>4 DEF WhatTable
    <3>2. entry.at \in Cluster
      BY <1>2, <3>1, Numbers DEF None, Cluster
    <3>3. QED
      BY <3>1, <3>2 DEF TableShared, Stored
  <2> HIDE DEF s, q
  <2>3. Own(s, i, entry.at)
    BY <1>2, <2>2, OwnTable
  <2>4. Working(s, "entry", q)
    BY <1>3, <2>1, <2>3 DEF Working, HasNew, FilledSteps, ShadowSteps, ForTable, AfterCopy,
                            ReleaseSteps, LastRelease, OldCached
  <2>5. \A c \in Cluster : c \in Mine("entry", q) => c \in Mine(pc[t], r)
    BY <1>1, <2>1 DEF Mine, HasNew, FilledSteps, ShadowSteps, ForTable, AfterCopy, ReleaseSteps,
                LastRelease
  <2>6. QED
    BY <1>1, <2>1, <2>4, <2>5, QuietFine DEF s, q
<1>5. CASE /\ what # "own"
           /\ Set(t, [r EXCEPT !.why = what, !.l1Entry = entry])
           /\ Go(t, "allocate")
  <2>1. /\ pc'[t] = "allocate" /\ q.at = r.at /\ q.new = r.new /\ q.old = r.old
        /\ q.l1Entry = entry /\ q.why = what
    <3>1. pc'[t] = "allocate" /\ q = [r EXCEPT !.why = what, !.l1Entry = entry]
      BY <1>5, GoSet
    <3>2. QED
      BY <1>2, <3>1 DEF Local
  <2>2. Replaced(s, q) /\ what \in {"copy", "table"}
    <3>1. \/ what = "table" /\ entry.at = None
          \/ what = "copy" /\ entry.at # None /\ TableShared(entry)
      BY <1>5 DEF WhatTable
    <3>2. entry.at # None => entry.at \in Cluster
      BY <1>2, Numbers DEF None, Cluster
    <3> HIDE DEF what, q
    <3>3. QED
      BY <1>2, <2>1, <3>1, <3>2 DEF Replaced, TableShared, Stored
  <2> HIDE DEF s, q, what
  <2>3. Working(s, "allocate", q)
    BY <1>3, <2>1, <2>2 DEF Working, HasNew, FilledSteps, ShadowSteps, ForTable, AfterCopy,
                            ReleaseSteps, LastRelease, OldCached
  <2>4. \A c \in Cluster : c \in Mine("allocate", q) => c \in Mine(pc[t], r)
    BY <1>1, <2>1, <2>2 DEF Mine, HasNew, FilledSteps, ShadowSteps, ForTable, AfterCopy,
                            ReleaseSteps, LastRelease
  <2>5. QED
    BY <1>1, <2>1, <2>3, <2>4, QuietFine DEF s, q
<1>6. QED
  BY <1>4, <1>5 DEF Repoint

LEMMA WriteL1Fine ==
    ASSUME Typed, Typed', Serial, CountsInv, NEW t \in Writers, WriteL1(t)
    PROVE  StepFine(t)
<1> DEFINE s == Stored
           x == Stored'
           r == reg[t]
           i == reg[t].at[1]
           T == reg[t].table
           H == Mine(pc[t], reg[t])
           less == {c \in Cluster : c = r.new}
<1>1. pc[t] = "l1Write"
  BY DEF WriteL1
<1>2. /\ IsStore(s) /\ Sound(s, H) /\ Working(s, "l1Write", r) /\ IsStore(x) /\ i \in L1Index
  BY <1>1, Begin, StoredNext
<1>3. /\ Unused(s, r.new) /\ OldCached(s, r) /\ Unused(s, T) /\ T # r.new /\ T \in Cluster
      /\ Replaced(s, r) /\ RowReady(s, r) /\ s.durable.table[T] = s.dev.table[T]
  BY <1>2 DEF Working, HasNew, FilledSteps, ShadowSteps, Unused, Taken
<1>4. /\ x.img = s.img /\ x.l1 = s.l1 /\ x.cache = s.cache /\ x.durable = s.durable
      /\ x.dev.rc = s.dev.rc /\ x.dev.table = s.dev.table /\ x.dev.data = s.dev.data
      /\ x.dev.l1[i] = L1EntryFor(T) /\ \A k \in L1Index : k # i => x.dev.l1[k] = s.dev.l1[k]
  <2>1. dev' = [dev EXCEPT !.l1[i] = L1EntryFor(T)] /\ UNCHANGED <<img, durable, l1, l2Cache>>
    BY DEF WriteL1, memory
  <2>2. dev \in Device
    BY <1>2 DEF Stored, IsStore
  <2>3. /\ dev'.rc = dev.rc /\ dev'.table = dev.table /\ dev'.data = dev.data
        /\ dev'.l1[i] = L1EntryFor(T) /\ \A k \in L1Index : k # i => dev'.l1[k] = dev.l1[k]
    BY <1>2, <2>1, <2>2 DEF Device
  <2>4. QED
    BY <2>1, <2>3 DEF Stored
<1>5. /\ T \in H /\ T \notin less
      /\ \A c \in Cluster : c \in less => c \in H
  BY <1>1, <1>3 DEF Mine, HasNew, FilledSteps, ShadowSteps
<1> HIDE DEF s, x, i, T, H, less
<1>6. \A j \in L2Index : s.dev.table[T][j] = NoEntry \/ Has(s, <<i, j>>, s.dev.table[T][j])
  <2> SUFFICES ASSUME NEW j \in L2Index, s.dev.table[T][j] # NoEntry
               PROVE  Has(s, <<i, j>>, s.dev.table[T][j])
    BY <1>3
  <2>1. s.l1[i].at \in Cluster /\ s.dev.table[T][j] = s.dev.table[s.l1[i].at][j]
    BY <1>3 DEF RowReady, T, i
  <2>2. Names(s, i, s.l1[i].at)
    BY DEF Names, Roots
  <2>3. QED
    BY <2>1, <2>2 DEF Has
<1>7. s.l1[i].at # None =>
          ~s.l1[i].copied /\ (s.l1[i].at \in Cluster => s.dev.rc[s.l1[i].at] > 1)
  BY <1>3 DEF Replaced, i
<1>8. /\ Sound(x, less)
      /\ \A c \in Cluster : c # T => Active(x, c) \subseteq Active(s, c)
      /\ \A c \in Cluster : One(s, c) => One(x, c)
  <2>1. Installed(s, x, H, less, i, T)
    BY <1>3, <1>4, <1>5, <1>6, <1>7 DEF Installed
  <2>2. QED
    BY <1>2, <1>3, <2>1, InstallKeeps
<1>9. CASE Leave(t)
  BY <1>8, <1>9, LeaveFine DEF x
<1>10. CASE Go(t, "l1Flush") /\ UNCHANGED reg
  <2>1. pc'[t] = "l1Flush" /\ reg'[t] = r
    BY <1>10, GoSet
  <2>2. Unused(x, r.new) /\ OldCached(x, r) /\ Replaced(x, r) /\ Kept(x, T) = {}
    BY <1>3, <1>4, <1>8 DEF Unused, Taken, One, Kept, OldCached, CachedAt, Replaced
  <2>4. x.l1[i].at # T
    <3>1. Names(s, i, s.l1[i].at)
      BY DEF Names, Roots
    <3>2. s.l1[i].at \in Cluster => Active(s, s.l1[i].at) # {}
      BY <1>2, <3>1, ActiveFacts
    <3>3. QED
      BY <1>3, <1>4, <3>2 DEF Unused, Taken
  <2>5. Working(x, "l1Flush", r)
    BY <1>3, <1>4, <2>2, <2>4 DEF Working, HasNew, FilledSteps, ShadowSteps, ForTable, AfterCopy,
                                  ReleaseSteps, LastRelease, T, i
  <2>6. Mine("l1Flush", r) = less
    BY DEF Mine, HasNew, FilledSteps, ShadowSteps, ForTable, AfterCopy, ReleaseSteps, LastRelease, less
  <2>7. QED
    BY <1>8, <2>1, <2>5, <2>6 DEF StepFine, x
<1>11. QED
  BY <1>9, <1>10 DEF WriteL1

LEMMA FlushL1Fine ==
    ASSUME Typed, Typed', Serial, CountsInv, NEW t \in Writers, FlushL1(t)
    PROVE  StepFine(t)
<1> DEFINE s == Stored
           x == Stored'
           r == reg[t]
           i == reg[t].at[1]
           T == reg[t].table
           H == Mine(pc[t], reg[t])
           step == IF r.why = "copy" THEN "release" ELSE "entry"
           more == Mine(step, r)
<1>1. pc[t] = "l1Flush" /\ pc'[t] = step /\ reg'[t] = r
  BY GoSet DEF FlushL1
<1>2. /\ IsStore(s) /\ Sound(s, H) /\ Working(s, "l1Flush", r) /\ IsStore(x) /\ i \in L1Index
  BY <1>1, Begin, StoredNext
<1>3. /\ Unused(s, r.new) /\ OldCached(s, r) /\ Replaced(s, r)
      /\ T \in Cluster /\ s.dev.l1[i] = L1EntryFor(T) /\ s.l1[i].at # T /\ Kept(s, T) = {}
  BY <1>2 DEF Working, HasNew, FilledSteps
<1>4. /\ x.img = s.img /\ x.dev = s.dev /\ x.durable = s.dev /\ x.cache = s.cache
      /\ x.l1[i] = L1EntryFor(T) /\ \A k \in L1Index : k # i => x.l1[k] = s.l1[k]
  BY <1>2 DEF FlushL1, Stored, IsStore
<1>5. \A c \in Cluster : c \in more => c \in H \/ c = s.l1[i].at
  <2>1. r.l1Entry.at = s.l1[i].at
    BY <1>3 DEF Replaced
  <2>2. QED
    BY <1>1, <2>1 DEF Mine, HasNew, FilledSteps, ShadowSteps, ForTable, AfterCopy, ReleaseSteps,
                      LastRelease
<1> HIDE DEF s, x, i, T, H, more
<1>6. /\ Sound(x, more) /\ Within(x, s)
      /\ s.l1[i].at \in Cluster => Active(x, s.l1[i].at) = {}
      /\ x.l1[i] = L1EntryFor(T) /\ Roots(x, i) = {L1EntryFor(T)}
      /\ \A c \in Cluster : One(s, c) => One(x, c)
  <2>1. Followed(s, x, H, more, i, T)
    BY <1>3, <1>4, <1>5 DEF Followed
  <2>2. QED
    BY <1>2, <1>3, <2>1, FollowKeeps
<1>7. Unused(x, r.new) /\ OldCached(x, r)
  BY <1>3, <1>4, <1>6, UnusedStays DEF Unused, Taken, OldCached, CachedAt
<1>8. Own(x, i, T)
  BY <1>3, <1>4, <1>6, EntryForFacts DEF Own, Kept
<1>9. CASE r.why = "copy"
  <2>1. r.l1Entry.at = s.l1[i].at /\ r.l1Entry.at \in Cluster
    BY <1>3, <1>9 DEF Replaced, i
  <2>2. NotRoot(x, r.l1Entry.at)
    BY <1>6, <2>1, ActiveFacts DEF NotRoot
  <2>3. Names(s, i, r.l1Entry.at)
    BY <2>1 DEF Names, Roots
  <2>4. r.l1Entry.at # r.new
    BY <1>2, <1>3, <2>3, ActiveFacts DEF Unused, Taken
  <2>5. Working(x, "release", r)
    BY <1>7, <1>8, <1>9, <2>1, <2>2, <2>4
      DEF Working, HasNew, FilledSteps, ShadowSteps, ForTable, AfterCopy, ReleaseSteps, LastRelease, T, i
  <2>6. QED
    BY <1>1, <1>6, <1>9, <2>5 DEF StepFine, x, more
<1>10. CASE r.why # "copy"
  <2>1. Working(x, "entry", r)
    BY <1>7, <1>8, <1>10
      DEF Working, HasNew, FilledSteps, ShadowSteps, ForTable, AfterCopy, ReleaseSteps, LastRelease, T, i
  <2>2. QED
    BY <1>1, <1>6, <1>10, <2>1 DEF StepFine, x, more
<1>11. QED
  BY <1>9, <1>10

LEMMA OldIsElsewhere ==
    ASSUME NEW s, IsStore(s), NEW v \in VCluster, NEW c \in Cluster, CachedAt(s, v, c)
    PROVE  v \in Active(s, c)
<1> DEFINE e == s.cache[2][v[2]]
<1>1. v[2] \in L2Index
  BY DEF VCluster
<1>2. e \in L2Entry /\ Has(s, v, e) /\ Reaches(e, c)
  BY <1>1 DEF CachedAt, IsStore, Has, Reaches
<1>3. QED
  BY <1>2, ActiveFacts

LEMMA WriteEntryFine ==
    ASSUME Typed, Typed', Serial, CountsInv, NEW t \in Writers, WriteEntry(t)
    PROVE  StepFine(t)
<1> DEFINE s == Stored
           x == Stored'
           r == reg[t]
           i == reg[t].at[1]
           j == reg[t].at[2]
           T == reg[t].table
           N == reg[t].new
           H == Mine(pc[t], reg[t])
<1>1. pc[t] = "entry"
  BY DEF WriteEntry
<1>2. /\ IsStore(s) /\ Sound(s, H) /\ Working(s, "entry", r) /\ IsStore(x)
      /\ r.at \in VCluster /\ i \in L1Index /\ j \in L2Index
  BY <1>1, Begin, StoredNext
<1>3. Unused(s, N) /\ OldCached(s, r) /\ Own(s, i, T) /\ N \in Cluster /\ T \in Cluster
  BY <1>2 DEF Working, HasNew, FilledSteps, Unused, Taken, Own
<1>4. N \in H
  BY <1>1, <1>3 DEF Mine, HasNew, FilledSteps
<1>5. /\ x.img = s.img /\ x.l1 = s.l1 /\ x.cache = s.cache /\ x.durable = s.durable
      /\ x.dev.l1 = s.dev.l1 /\ x.dev.rc = s.dev.rc /\ x.dev.data = s.dev.data
      /\ x.dev.table[T][j] = L2EntryFor(N)
      /\ \A a \in Cluster : \A k \in L2Index :
             a # T \/ k # j => x.dev.table[a][k] = s.dev.table[a][k]
      /\ \A a \in Cluster : a # T => x.dev.table[a] = s.dev.table[a]
  <2>1. dev' = [dev EXCEPT !.table[T][j] = L2EntryFor(N)] /\ UNCHANGED <<img, durable, l1, l2Cache>>
    BY DEF WriteEntry, memory
  <2>2. dev \in Device
    BY <1>2 DEF Stored, IsStore
  <2>3. /\ dev'.rc = dev.rc /\ dev'.l1 = dev.l1 /\ dev'.data = dev.data
        /\ dev'.table[T][j] = L2EntryFor(N)
        /\ \A a \in Cluster : \A k \in L2Index :
               a # T \/ k # j => dev'.table[a][k] = dev.table[a][k]
        /\ \A a \in Cluster : a # T => dev'.table[a] = dev.table[a]
    BY <1>2, <1>3, <2>1, <2>2 DEF Device
  <2>4. /\ s.img = img /\ s.dev = dev /\ s.durable = durable /\ s.l1 = l1 /\ s.cache = l2Cache
        /\ x.img = img' /\ x.dev = dev' /\ x.durable = durable' /\ x.l1 = l1' /\ x.cache = l2Cache'
    BY DEF Stored
  <2> HIDE DEF s, x, i, j, T, N, H
  <2>5. QED
    BY <2>1, <2>3, <2>4
<1> HIDE DEF s, x, i, j, T, N, H
<1>6. Sound(x, {}) /\ Own(x, i, T) /\ x.dev.table[T][j] = L2EntryFor(N)
  <2>1. /\ IsStore(s) /\ IsStore(x) /\ Sound(s, H) /\ i \in L1Index /\ j \in L2Index
        /\ Own(s, i, T) /\ Unused(s, N) /\ N \in H
    BY <1>2, <1>3, <1>4
  <2> DEFINE less == {}
  <2>2. N \notin less /\ \A c \in Cluster : c \in less => c \in H
    OBVIOUS
  <2> HIDE DEF less
  <2>3. Sound(x, less) /\ Own(x, i, T) /\ x.dev.table[T][j] = L2EntryFor(N)
    BY <1>5, <2>1, <2>2, PublishKeeps
  <2>4. QED
    BY <2>3 DEF less
<1>7. CASE Leave(t)
  BY <1>6, <1>7, LeaveFine DEF x
<1>8. CASE Go(t, "entryFlush") /\ UNCHANGED reg
  <2>1. pc'[t] = "entryFlush" /\ reg'[t] = r
    BY <1>8, GoSet
  <2>2. r.old # N
    BY <1>2, <1>3, OldIsElsewhere, Numbers DEF OldCached, Unused, Taken
  <2>3. OldCached(x, r)
    BY <1>3, <1>5 DEF OldCached, CachedAt
  <2>4. Working(x, "entryFlush", r)
    BY <1>3, <1>6, <2>2, <2>3
      DEF Working, HasNew, FilledSteps, ShadowSteps, ForTable, AfterCopy, ReleaseSteps, LastRelease, T, N, i, j
  <2>5. Mine("entryFlush", r) = {}
    BY DEF Mine, HasNew, FilledSteps, ShadowSteps, ForTable, AfterCopy, ReleaseSteps, LastRelease
  <2>6. QED
    BY <1>6, <2>1, <2>4, <2>5 DEF StepFine, x
<1>9. QED
  BY <1>7, <1>8 DEF WriteEntry, Written, WrittenTo

(***************************************************************************)
(* What was replaced is released                                           *)
(***************************************************************************)
LEMMA ForgetL2Fine ==
    ASSUME Typed, Typed', Serial, CountsInv, NEW t \in Writers, ForgetL2(t)
    PROVE  StepFine(t)
<1> DEFINE s == Stored
           x == Stored'
           r == reg[t]
           i == reg[t].at[1]
           j == reg[t].at[2]
           T == reg[t].table
           N == reg[t].new
           H == Mine(pc[t], reg[t])
           more == Mine("forgetData", reg[t])
<1>1. pc[t] = "forgetL2" /\ pc'[t] = "forgetData" /\ reg'[t] = r
  BY GoSet DEF ForgetL2
<1>2. /\ IsStore(s) /\ Sound(s, H) /\ Working(s, "forgetL2", r) /\ IsStore(x)
      /\ i \in L1Index /\ j \in L2Index /\ r.old \in Offset
  BY <1>1, Begin, StoredNext DEF Local
<1>3. /\ OldCached(s, r) /\ Own(s, i, T) /\ N \in Cluster /\ r.old # N
      /\ s.dev.table[T][j] = L2EntryFor(N) /\ s.durable.table[T][j] = L2EntryFor(N)
  BY <1>2 DEF Working
<1>4. /\ x.img = s.img /\ x.dev = s.dev /\ x.durable = s.durable /\ x.l1 = s.l1 /\ x.cache = <<>>
  BY DEF ForgetL2, AfterEntry, Stored
<1>5. \A c \in Cluster : c \in more => c \in H \/ c = r.old
  BY <1>1 DEF Mine, HasNew, FilledSteps, ShadowSteps, ForTable, AfterCopy, ReleaseSteps, LastRelease
<1> HIDE DEF s, x, T, N, H, more
<1>6. Sound(x, more) /\ (r.old # None => NotRoot(x, r.old) /\ r.old \in Cluster)
  BY <1>2, <1>3, <1>4, <1>5, ForgetKeeps DEF OldCached, CachedAt
<1>7. Working(x, "forgetData", r)
  BY <1>6 DEF Working, HasNew, FilledSteps, ShadowSteps, ForTable, AfterCopy, ReleaseSteps, LastRelease
<1>8. QED
  BY <1>1, <1>6, <1>7 DEF StepFine, x, more

LEMMA ForgetDataFine ==
    ASSUME Typed, Typed', Serial, CountsInv, NEW t \in Writers, ForgetData(t)
    PROVE  StepFine(t)
<1> DEFINE s == Stored
           r == reg[t]
           q == reg'[t]
           step == IF r.old = None THEN "next" ELSE "release"
<1>1. pc[t] = "forgetData" /\ pc'[t] = step /\ Stored' = s
  BY GoSet DEF ForgetData, Stored
<1>2. r \in Local /\ Working(s, "forgetData", r)
  BY <1>1, Begin
<1>3. q.old = r.old /\ q.why = "release"
  BY <1>2, GoSet DEF ForgetData, Local
<1> HIDE DEF s, q
<1>4. Working(s, step, q)
  BY <1>2, <1>3 DEF Working, HasNew, FilledSteps, ShadowSteps, ForTable, AfterCopy, ReleaseSteps,
                    LastRelease
<1>5. \A c \in Cluster : c \in Mine(step, q) => c \in Mine(pc[t], r)
  BY <1>1, <1>3 DEF Mine, HasNew, FilledSteps, ShadowSteps, ForTable, AfterCopy, ReleaseSteps,
                    LastRelease
<1>6. QED
  BY <1>1, <1>4, <1>5, QuietFine DEF s, q

LEMMA WriteReleaseFine ==
    ASSUME Typed, Typed', Serial, CountsInv, NEW t \in Writers, WriteRelease(t)
    PROVE  StepFine(t)
<1> DEFINE s == Stored
           x == Stored'
           r == reg[t]
           i == reg[t].at[1]
           c == Released(t)
           H == Mine(pc[t], reg[t])
           step == pc'[t]
           less == Mine(step, r)
<1>1. /\ pc[t] = "release" /\ reg'[t] = r
      /\ pc'[t] \in {"releaseFlush", IF r.why = "copy" THEN "entry" ELSE "next"}
  BY GoSet DEF WriteRelease, AfterRelease
<1>2. IsStore(s) /\ Sound(s, H) /\ Working(s, "release", r) /\ IsStore(x) /\ i \in L1Index
  BY <1>1, Begin, StoredNext
<1>3. /\ c \in Cluster /\ NotRoot(s, c) /\ c \in H
      /\ r.why = "copy" => c = r.l1Entry.at /\ r.l1Entry.at # r.new
      /\ r.why # "copy" => c = r.old
  BY <1>1, <1>2 DEF Released, Working, AfterCopy, LastRelease, Mine
<1>4. c \notin less /\ \A d \in Cluster : d \in less => d \in H
  BY <1>1, <1>3 DEF Mine, HasNew, FilledSteps, ShadowSteps, ForTable, AfterCopy, ReleaseSteps,
                    LastRelease
<1>5. /\ x.img = s.img /\ x.l1 = s.l1 /\ x.cache = s.cache /\ x.durable = s.durable
      /\ x.dev.l1 = s.dev.l1 /\ x.dev.table = s.dev.table /\ x.dev.data = s.dev.data
      /\ s.dev.rc[c] > 0 /\ x.dev.rc[c] = s.dev.rc[c] - 1
      /\ \A d \in Cluster : d # c => x.dev.rc[d] = s.dev.rc[d]
  <2>1. /\ dev' = [dev EXCEPT !.rc[c] = @ - 1] /\ UNCHANGED <<img, durable, l1, l2Cache>>
        /\ dev.rc[c] > 0
    BY DEF WriteRelease, memory
  <2>2. dev \in Device
    BY <1>2 DEF Stored, IsStore
  <2>3. /\ dev'.l1 = dev.l1 /\ dev'.table = dev.table /\ dev'.data = dev.data
        /\ dev'.rc[c] = dev.rc[c] - 1 /\ \A d \in Cluster : d # c => dev'.rc[d] = dev.rc[d]
    BY <1>3, <2>1, <2>2 DEF Device
  <2>4. QED
    BY <2>1, <2>3 DEF Stored
<1> HIDE DEF s, x, c, H, less, step
<1>6. /\ Sound(x, less) /\ Within(x, s)
      /\ \A d \in Cluster : d # c /\ One(s, d) => One(x, d)
  BY <1>2, <1>3, <1>4, <1>5, ReleaseKeeps
<1>7. Working(x, step, r)
  <2>1. CASE r.why = "copy"
    <3>1. Unused(s, r.new) /\ OldCached(s, r) /\ Own(s, i, r.table)
      BY <1>2, <2>1 DEF Working, HasNew, AfterCopy, ReleaseSteps
    <3>2. Unused(x, r.new)
      BY <1>3, <1>6, <2>1, <3>1, UnusedStays DEF Unused, Taken
    <3>3. OldCached(x, r) /\ Own(x, i, r.table)
      BY <1>5, <3>1 DEF OldCached, CachedAt, Own, Roots, Kept
    <3>4. QED
      BY <1>1, <2>1, <3>2, <3>3 DEF Working, HasNew, FilledSteps, ShadowSteps, ForTable, AfterCopy,
                                    ReleaseSteps, LastRelease, step
  <2>2. CASE r.why # "copy"
    BY <1>1, <2>2 DEF Working, HasNew, FilledSteps, ShadowSteps, ForTable, AfterCopy, ReleaseSteps,
                      LastRelease, step
  <2>3. QED
    BY <2>1, <2>2
<1>8. QED
  BY <1>1, <1>6, <1>7 DEF StepFine, x, less, step

LEMMA ReleaseFailsFine ==
    ASSUME Typed, Typed', Serial, CountsInv, NEW t \in Writers, ReleaseFails(t)
    PROVE  StepFine(t)
<1> DEFINE s == Stored
           r == reg[t]
           step == IF r.why = "copy" THEN "entry" ELSE "next"
<1>1. pc[t] \in ReleaseSteps /\ pc'[t] = step /\ reg'[t] = r /\ Stored' = s
  BY GoSet DEF ReleaseFails, AfterRelease, ReleaseSteps, Stored, memory
<1>2. Working(s, pc[t], r)
  BY <1>1, Begin DEF ReleaseSteps
<1> HIDE DEF s
<1>3. Working(s, step, r)
  BY <1>1, <1>2 DEF Working, HasNew, FilledSteps, ShadowSteps, ForTable, AfterCopy, ReleaseSteps,
                    LastRelease
<1>4. \A c \in Cluster : c \in Mine(step, r) => c \in Mine(pc[t], r)
  BY <1>1 DEF Mine, HasNew, FilledSteps, ShadowSteps, ForTable, AfterCopy, ReleaseSteps, LastRelease
<1>5. QED
  BY <1>1, <1>3, <1>4, QuietFine DEF s, ReleaseSteps

LEMMA NextChunkFine ==
    ASSUME Typed, Typed', Serial, CountsInv, NEW t \in Writers, NextChunk(t)
    PROVE  StepFine(t)
<1>1. pc'[t] = "l1" /\ Stored' = Stored
  BY GoSet DEF NextChunk, Stored, memory
<1>2. QED
  BY <1>1, RestFine DEF CountsInv, Resting

(***************************************************************************)
(* Every step                                                              *)
(***************************************************************************)
LEMMA WriterFine ==
    ASSUME Typed, Typed', Serial, CountsInv, NEW t \in Writers,
           Lookup(t) \/ DeviceError(t) \/ WriteStep(t), ~TakeWriteLock(t)
    PROVE  CountsInv'
<1>1. t \in Threads
  BY TypedParts
<1>2. \A u \in Threads : u # t => pc'[u] = pc[u] /\ reg'[u] = reg[u]
  BY <1>1, OnlyOne
<1>3. CASE Lookup(t) \/ DeviceError(t)
  <2>1. StepFine(t)
    BY <1>3, LookupL1Fine, LookupL2Fine, LeavingFine DEF Lookup
  <2>2. pc[t] \notin {"idle", "lock"}
    BY <1>3 DEF Lookup, LookupL1, LookupL2, Undecodable, DeviceError, WriteSteps, FlushSteps
  <2>3. QED
    BY <1>2, <2>1, <2>2, End
<1>4. CASE WriteStep(t)
  <2>1. StepFine(t)
    BY <1>4, PlanInPlaceFine, PlanReallocateFine, WriteInPlaceFine, AllocateFine, LeavingFine,
       FlushAllocateFine, FillFine, FlushOnFine, RepointFine, ShadowFine, WriteL1Fine, FlushL1Fine,
       WriteEntryFine, ForgetL2Fine, ForgetDataFine, WriteReleaseFine, ReleaseFailsFine,
       NextChunkFine DEF WriteStep
  <2>2. pc[t] \notin {"idle", "lock"}
    BY <1>4 DEF WriteStep, PlanInPlace, PlanReallocate, WriteInPlace, Allocate, NoRoom, FlushAllocate,
                Fill, FlushFill, Repoint, Zero, FlushZero, CopyTable, FlushCopy, WriteL1, FlushL1,
                WriteEntry, FlushEntry, ForgetL2, ForgetData, WriteRelease, FlushRelease,
                ReleaseFails, ReleaseSteps, NextChunk, EndWrite
  <2>3. QED
    BY <1>2, <2>1, <2>2, End
<1>5. QED
  BY <1>3, <1>4

(* A call that begins, or waits for the write lock.                        *)
LEMMA BeginFine ==
    ASSUME Typed, Serial, CountsInv, NEW t \in Writers, StartWrite(t) \/ TakeWriteLock(t)
    PROVE  CountsInv'
<1>1. /\ Stored' = Stored /\ pc[t] \in Resting /\ pc'[t] \in Resting
  BY GoSet DEF StartWrite, TakeWriteLock, Stored, memory, Resting
<1>2. \A u \in Threads : u # t => pc'[u] = pc[u] /\ reg'[u] = reg[u]
  BY TypedParts, OnlyOne DEF WriteStep
<1>3. \A u \in Writers : Mine(pc'[u], reg'[u]) = Mine(pc[u], reg[u])
  BY <1>1, <1>2, RestingFacts DEF Threads
<1>4. Held' = Held
  BY <1>3 DEF Held
<1>5. \A u \in Writers : Working(Stored, pc'[u], reg'[u])
  BY <1>1, <1>2, RestingFacts DEF CountsInv, Threads
<1>6. QED
  BY <1>1, <1>4, <1>5 DEF CountsInv

(* flush(), beside any writer at any step.                                 *)
LEMMA FlushFine ==
    ASSUME Typed, Typed', CountsInv, Flush
    PROVE  CountsInv'
<1> DEFINE s == Stored
           x == Stored'
<1>1. IsStore(s) /\ IsStore(x) /\ Sound(s, Held) /\ \A t \in Writers : Working(s, pc[t], reg[t])
  BY StoredTyped, StoredNext DEF CountsInv
<1>2. /\ x.img = s.img /\ x.dev = s.dev /\ x.durable = s.dev /\ x.l1 = s.l1
      /\ x.cache = s.cache
  BY DEF Flush, Stored, memory
<1>3. UNCHANGED <<pc, reg>> /\ Held' = Held /\ \A t \in Writers : reg[t].at \in VCluster
  BY TypedParts DEF Flush, Held, Local
<1> HIDE DEF s, x
<1>4. Sound(x, Held) /\ \A t \in Writers : Working(x, pc[t], reg[t])
  BY <1>1, <1>2, <1>3, FlushKeeps, FlushWorking
<1>5. QED
  BY <1>3, <1>4 DEF CountsInv, x

(* The store a crash may leave.                                            *)
Left(d) == [img |-> img, dev |-> d, durable |-> d, l1 |-> d.l1, cache |-> <<>>]

LEMMA LeftSound ==
    ASSUME Typed, CountsInv, NEW d \in Survivors
    PROVE  IsStore(Left(d)) /\ Sound(Left(d), {})
<1> DEFINE x == Left(d)
<1>1. IsStore(Stored) /\ Sound(Stored, Held)
  BY StoredTyped DEF CountsInv
<1>2. dev \in Device /\ durable \in Device
  BY TypedParts DEF StoreTyped
<1>3. Mixes(d, Stored)
  BY <1>2, SurvivorFacts DEF Mixes, Stored
<1>4. /\ x.img = Stored.img /\ x.dev = d /\ x.durable = d /\ x.l1 = d.l1 /\ x.cache = <<>>
  BY DEF Left, Stored
<1> HIDE DEF x
<1>5. IsStore(x) /\ AtRest(x)
  BY <1>1, <1>3, <1>4 DEF IsStore, AtRest, Mixes, Device
<1>6. Sound(x, {})
  BY <1>1, <1>3, <1>4, <1>5, CrashKeeps
<1>7. QED
  BY <1>5, <1>6 DEF x

LEMMA CrashFine ==
    ASSUME Typed, CountsInv, Crash
    PROVE  CountsInv'
<1>1. dev' \in Survivors /\ Stored' = Left(dev')
  BY DEF Crash, Stored, Left
<1>2. Sound(Stored', {})
  BY <1>1, LeftSound
<1>3. \A t \in Writers : pc'[t] \in Resting
  BY TypedParts DEF Crash, Idle, Resting
<1>4. Held' = {} /\ \A t \in Writers : Working(Stored', pc'[t], reg'[t])
  BY <1>3, RestingFacts DEF Held
<1>5. QED
  BY <1>2, <1>4 DEF CountsInv

LEMMA InitFine ==
    ASSUME \A image \in Images : SoundImage(image), Init, Typed
    PROVE  CountsInv
<1>1. IsStore(Stored)
  BY StoredTyped
<1>2. /\ Stored.dev = Stored.img.dev /\ Stored.img \in Images /\ AtRest(Stored)
  BY DEF Init, Stored, AtRest
<1>3. Sound(Stored, {})
  BY <1>1, <1>2, OpenedSound
<1>4. \A t \in Writers : pc[t] \in Resting
  BY TypedParts DEF Init, Idle, Resting
<1>5. Held = {} /\ \A t \in Writers : Working(Stored, pc[t], reg[t])
  BY <1>4, RestingFacts DEF Held
<1>6. QED
  BY <1>3, <1>5 DEF CountsInv

LEMMA NextFine ==
    ASSUME Readers = {}, Typed, Serial, CountsInv, [Next]_vars
    PROVE  CountsInv'
<1>1. Typed'
  BY NextTyped
<1>2. CASE Next
  <2>1. CASE \E t \in Threads : Lookup(t) \/ DeviceError(t)
    <3>1. PICK t \in Writers : Lookup(t) \/ DeviceError(t)
      BY <2>1 DEF Threads
    <3>2. CASE TakeWriteLock(t)
      BY <3>2, BeginFine
    <3>3. CASE ~TakeWriteLock(t)
      BY <1>1, <3>1, <3>3, WriterFine
    <3>4. QED
      BY <3>2, <3>3
  <2>2. CASE \E t \in Writers : StartWrite(t) \/ WriteStep(t)
    BY <1>1, <2>2, BeginFine, WriterFine
  <2>3. CASE Flush
    BY <1>1, <2>3, FlushFine
  <2>4. CASE Crash
    BY <2>4, CrashFine
  <2>5. QED
    BY <1>2, <2>1, <2>2, <2>3, <2>4 DEF Next
<1>3. CASE UNCHANGED vars
  BY <1>3 DEF vars, memory, CountsInv, Held, Stored
<1>4. QED
  BY <1>2, <1>3

LEMMA AlwaysCounted ==
    ASSUME Readers = {}, \A image \in Images : SoundImage(image)
    PROVE  Spec => [](Typed /\ CountsInv)
<1>1. Init => Typed /\ Serial /\ CountsInv
  BY InitTyped, InitFine
<1>2. Typed /\ Serial /\ CountsInv /\ [Next]_vars => (Typed /\ Serial /\ CountsInv)'
  BY NextTyped, NextFine
<1>3. QED
  BY <1>1, <1>2, PTL DEF Spec

LEMMA HonestStore ==
    ASSUME NEW s, NEW held, IsStore(s), Sound(s, held), s.img = img
    PROVE  Honest(s.dev)
  BY SoundHonest DEF Honest

(***************************************************************************)
(* The theorems                                                            *)
(***************************************************************************)
(* No host cluster ever has more references than its count says, however   *)
(* many writers share the handle, wherever device calls fail, and in every *)
(* image a loss of power could leave: what allocate_cluster gives out and  *)
(* decrement_refcount takes back is never in use.                          *)
THEOREM CountsAlwaysCover ==
    ASSUME Readers = {}, \A image \in Images : SoundImage(image)
    PROVE  Spec => []CountsCoverReferences
<1>1. ASSUME Typed, CountsInv PROVE CountsCoverReferences
  <2>1. Counts(dev)
    <3>1. IsStore(Stored) /\ Sound(Stored, Held) /\ Stored.dev = dev /\ Stored.img = img
      BY <1>1, StoredTyped DEF CountsInv, Stored
    <3>2. QED
      BY <3>1, SoundCounts DEF Counts
  <2>2. ASSUME NEW d \in Survivors PROVE Counts(d)
    <3>1. IsStore(Left(d)) /\ Sound(Left(d), {}) /\ Left(d).dev = d /\ Left(d).img = img
      BY <1>1, LeftSound DEF Left
    <3>2. QED
      BY <3>1, SoundCounts DEF Counts
  <2>3. QED
    BY <2>1, <2>2 DEF CountsCoverReferences
<1>2. QED
  BY <1>1, AlwaysCounted, PTL

(* A table or cluster marked COPIED has one reference, which is what       *)
(* write_at relies on when it writes in place, on the device and in every  *)
(* image a loss of power could leave.                                      *)
THEOREM CopiedNeverLies ==
    ASSUME Readers = {}, \A image \in Images : SoundImage(image)
    PROVE  Spec => []CopiedIsHonest
<1>1. ASSUME Typed, CountsInv PROVE CopiedIsHonest
  <2>1. Honest(dev)
    <3>1. IsStore(Stored) /\ Sound(Stored, Held) /\ Stored.dev = dev /\ Stored.img = img
      BY <1>1, StoredTyped DEF CountsInv, Stored
    <3>2. QED
      BY <3>1, HonestStore
  <2>2. ASSUME NEW d \in Survivors PROVE Honest(d)
    <3>1. IsStore(Left(d)) /\ Sound(Left(d), {}) /\ Left(d).dev = d /\ Left(d).img = img
      BY <1>1, LeftSound DEF Left
    <3>2. QED
      BY <3>1, HonestStore
  <2>3. QED
    BY <2>1, <2>2 DEF CopiedIsHonest
<1>2. QED
  BY <1>1, AlwaysCounted, PTL

(* What an internal snapshot reads as never changes, whatever is written   *)
(* through the active table it shares its clusters with, and wherever the  *)
(* writes fail or the power is lost.                                       *)
THEOREM SnapshotNeverChanges ==
    ASSUME Readers = {}, \A image \in Images : SoundImage(image)
    PROVE  Spec => []SnapshotIntact
<1>1. ASSUME Typed, CountsInv PROVE SnapshotIntact
  <2>1. SnapshotView(dev) = SnapshotView(img.dev)
    <3>1. IsStore(Stored) /\ Sound(Stored, Held) /\ Stored.dev = dev /\ Stored.img = img
      BY <1>1, StoredTyped DEF CountsInv, Stored
    <3>2. QED
      BY <3>1, SoundSnapshot DEF SnapshotView
  <2>2. ASSUME NEW d \in Survivors PROVE SnapshotView(d) = SnapshotView(img.dev)
    <3>1. IsStore(Left(d)) /\ Sound(Left(d), {}) /\ Left(d).dev = d /\ Left(d).img = img
      BY <1>1, LeftSound DEF Left
    <3>2. QED
      BY <3>1, SoundSnapshot DEF SnapshotView
  <2>3. QED
    BY <2>1, <2>2 DEF SnapshotIntact
<1>2. QED
  BY <1>1, AlwaysCounted, PTL

=============================================================================
