-------------------------- MODULE WriteReadsProofs --------------------------
(***************************************************************************)
(* Why a read returns what its word has had since it began, with any       *)
(* number of readers beside the writers: for images whose tables and plain *)
(* clusters are not shared, as long as no cluster a write replaces goes    *)
(* back to the allocator; and, of the same images, why the readers see     *)
(* what a finished call has written, and meet no payload that does not     *)
(* decode.                                                                 *)
(***************************************************************************)
EXTENDS WriteDiskProofs

(***************************************************************************)
(* What a read may rely on                                                 *)
(***************************************************************************)
(* No release gives a cluster back to the allocator.                       *)
NothingFreed == \A t \in Writers : pc[t] = "release" => dev.rc[Released(t)] # 1

(* A virtual cluster's words may be in a cluster; a payload of the image   *)
(* as opened lies in it; it is in use, and would be after a crash.         *)
Bears(s, v, c) == \E e \in L2Entry : Has(s, v, e) /\ e.kind = "standard" /\ e.at = c

OfPayload(s, c) == \E u \in VCluster : IsPayload(Opened(s, u)) /\ Reaches(Opened(s, u), c)

Counted(s, c) == s.dev.rc[c] > 0 /\ s.durable.rc[c] > 0

(* Tables and data are not shared, and a payload stays where it was.       *)
TablesApart(s) ==
    \A i \in L1Index : \A a \in Cluster : Names(s, i, a) =>
        One(s, a) /\ \A k \in L1Index : Names(s, k, a) => k = i

DataApart(s) ==
    \A v \in VCluster : \A c \in Cluster : Bears(s, v, c) =>
        /\ Counted(s, c) /\ ~OfPayload(s, c)
        /\ \A u \in VCluster : Bears(s, u, c) => u = v

PayloadsStay(s) ==
    \A c \in Cluster : OfPayload(s, c) =>
        /\ Counted(s, c)
        /\ s.dev.data[c] = s.img.dev.data[c] /\ s.durable.data[c] = s.img.dev.data[c]

Apart(s) == TablesApart(s) /\ DataApart(s) /\ PayloadsStay(s) /\ OnlyStandardMade(s)

(* What the two caches hold is true, but for an entry that was written and *)
(* not forgotten yet.                                                      *)
Behind(v, e) ==
    \E t \in Writers : /\ pc[t] \in {"entryFlush", "forgetL2"} /\ reg[t].at = v
                       /\ \E b \in BOOLEAN : reg[t].map = MapOf(e, b)

CacheTrue(s) ==
    s.cache # <<>> => \A v \in VCluster : v[1] = s.cache[1] =>
        s.cache[2][v[2]] = Now(s, v) \/ Behind(v, s.cache[2][v[2]])

PayloadOf(s, v) == Decompressed(s.img.dev.data, MapOf(Opened(s, v), FALSE))

DeTrue(s, slot) ==
    slot # <<>> => IsPayload(Opened(s, slot[1])) /\ slot[2] = PayloadOf(s, slot[1])

(* What a writer carries: nothing leads yet to the clusters it has taken.  *)
Vacant(s, c) ==
    /\ \A i \in L1Index : ~Names(s, i, c)
    /\ \A v \in VCluster : ~Bears(s, v, c)
    /\ ~OfPayload(s, c)

TakesData(step, r) == step = "allocateFlush" /\ r.why = "data"

HoldsNew(step, r) == HasNew(step, r) \/ TakesData(step, r)

HoldsTable(step, r) ==
    step \in {"zero", "zeroFlush", "l1Write"} \/ (step = "allocateFlush" /\ r.why # "data")

Doing(s, step, r) ==
    /\ r.why # "copy" /\ step \notin {"copy", "copyFlush"}
    /\ step \in {"plan", "inPlace"} \/ Copying(step, r) => FindsNow(s, r)
    /\ HoldsNew(step, r) =>
        /\ r.new \in Cluster /\ Vacant(s, r.new) /\ s.dev.rc[r.new] > 0
        /\ ~TakesData(step, r) => s.durable.rc[r.new] > 0
    /\ HoldsTable(step, r) =>
        /\ r.table \in Cluster /\ Vacant(s, r.table) /\ s.dev.rc[r.table] = 1
        /\ r.table # r.new
        /\ step # "allocateFlush" => s.durable.rc[r.table] = 1
    /\ step \in {"zeroFlush", "l1Write", "l1Flush"} => s.dev.table[r.table] = EmptyTable
    /\ step \in {"l1Write", "l1Flush"} => s.durable.table[r.table] = EmptyTable
    /\ step \in {"zero", "zeroFlush", "l1Write", "l1Flush"} \/ ForTable(step, r) =>
        s.l1[r.at[1]].at = None
    /\ step = "l1Flush" => s.dev.l1[r.at[1]] = L1EntryFor(r.table)
    /\ step = "entry" => r.table \in Cluster /\ r.table = s.l1[r.at[1]].at

(* What a reader carries: a cluster that is nobody else's, a payload, and  *)
(* words its word has had since it began.                                  *)
Holding(s, step, r, had) ==
    /\ step = "fetch" =>
        /\ r.map.case = "Plain" =>
            s.dev.rc[r.map.host] > 0 /\ \A v \in VCluster : Bears(s, v, r.map.host) => v = r.at
        /\ r.map.case = "Compressed" =>
            IsPayload(Opened(s, r.at)) /\ \E b \in BOOLEAN : r.map = MapOf(Opened(s, r.at), b)
        /\ ClusterWords(s.dev.data, s.img.backing, r.at, r.map)[r.range.from] \in had
    /\ step = "store" => IsPayload(Opened(s, r.at)) /\ r.full = PayloadOf(s, r.at)
    /\ step \in {"store", "done"} => r.val \in had

Avoids(step, r, reading, q) ==
    HoldsNew(step, r) /\ reading = "fetch" /\ q.map.case = "Plain" => r.new # q.map.host

L1Kept == \A t \in Threads : pc[t] = "l2" => reg[t].l1Entry = l1[reg[t].at[1]]

ReadingInv ==
    /\ Apart(Stored) /\ CacheTrue(Stored) /\ DeTrue(Stored, deCache) /\ L1Kept
    /\ \A t \in Writers : Doing(Stored, pc[t], reg[t])
    /\ \A u \in Readers : Holding(Stored, pc[u], reg[u], seen[u])
    /\ \A t \in Writers, u \in Readers : Avoids(pc[t], reg[t], pc[u], reg[u])

(***************************************************************************)
(* What a step may add to a store                                          *)
(***************************************************************************)
(* x names and has what s does, no entry, a table of `roots`, or the entry *)
(* for a cluster of `marks`.                                               *)
Gains(s, x, roots, marks) ==
    /\ x.img = s.img
    /\ \A i \in L1Index : \A a \in Cluster :
        Names(x, i, a) => Names(s, i, a) \/ <<i, a>> \in roots
    /\ \A v \in VCluster, e \in L2Entry : Has(x, v, e) =>
        \/ Has(s, v, e) \/ e = NoEntry
        \/ \E c \in Cluster : e = L2EntryFor(c) /\ <<v, c>> \in marks

(* What counts, or counts once, goes on counting; no count in use falls to *)
(* zero.                                                                   *)
CountsLast(s, x) ==
    \A c \in Cluster : (Counted(s, c) => Counted(x, c)) /\ (One(s, c) => One(x, c))

CountsStay(s, x) ==
    CountsLast(s, x) /\ \A c \in Cluster : s.dev.rc[c] > 0 => x.dev.rc[c] > 0

WordsStay(s, x) ==
    \A c \in Cluster : OfPayload(s, c) =>
        x.dev.data[c] = s.img.dev.data[c] /\ x.durable.data[c] = s.img.dev.data[c]

LEMMA WithinGains ==
    ASSUME NEW s, NEW x, Within(x, s)
    PROVE  Gains(s, x, {}, {})
<1>1. \A i \in L1Index : \A a : Names(x, i, a) => Names(s, i, a)
  BY DEF Within, Names
<1>2. QED
  BY <1>1 DEF Within, Gains

LEMMA OpenedSame ==
    ASSUME NEW s, NEW x, x.img = s.img
    PROVE  /\ \A v : Opened(x, v) = Opened(s, v)
           /\ \A v : PayloadOf(x, v) = PayloadOf(s, v)
           /\ \A c : OfPayload(x, c) <=> OfPayload(s, c)
<1>1. \A v : Opened(x, v) = Opened(s, v)
  BY DEF Opened
<1>2. QED
  BY <1>1 DEF PayloadOf, OfPayload

LEMMA GainsBears ==
    ASSUME NEW s, NEW x, NEW roots, NEW marks, Gains(s, x, roots, marks),
           NEW c \in Cluster
    PROVE  /\ \A v \in VCluster : Bears(x, v, c) => Bears(s, v, c) \/ <<v, c>> \in marks
           /\ Vacant(s, c) /\ (\A i : <<i, c>> \notin roots) /\ (\A v : <<v, c>> \notin marks)
                  => Vacant(x, c)
<1>1. ASSUME NEW v \in VCluster, Bears(x, v, c) PROVE Bears(s, v, c) \/ <<v, c>> \in marks
  <2>1. PICK e \in L2Entry : Has(x, v, e) /\ e.kind = "standard" /\ e.at = c
    BY <1>1 DEF Bears
  <2>2. e # NoEntry
    BY <2>1, Numbers DEF NoEntry
  <2>3. CASE Has(s, v, e)
    BY <2>1, <2>3 DEF Bears
  <2>4. CASE \E d \in Cluster : e = L2EntryFor(d) /\ <<v, d>> \in marks
    BY <2>1, <2>4, EntryForFacts
  <2>5. QED
    BY <2>1, <2>2, <2>3, <2>4 DEF Gains
<1>2. OfPayload(x, c) <=> OfPayload(s, c)
  BY OpenedSame DEF Gains
<1>3. QED
  BY <1>1, <1>2 DEF Vacant, Gains

LEMMA ApartKeeps ==
    ASSUME NEW s, NEW x, NEW roots, NEW marks, Apart(s), Gains(s, x, roots, marks),
           CountsLast(s, x), WordsStay(s, x),
           \A i \in L1Index : \A a \in Cluster : <<i, a>> \in roots => Vacant(s, a) /\ One(x, a),
           \A v \in VCluster : \A c \in Cluster : <<v, c>> \in marks => Vacant(s, c) /\ Counted(x, c),
           \A p, q \in roots : p = q, \A p, q \in marks : p = q
    PROVE  Apart(x)
<1>1. x.img = s.img
  BY DEF Gains
<1>2. TablesApart(x)
  <2> SUFFICES ASSUME NEW i \in L1Index, NEW a \in Cluster, Names(x, i, a)
               PROVE  One(x, a) /\ \A k \in L1Index : Names(x, k, a) => k = i
    BY DEF TablesApart
  <2>1. CASE Vacant(s, a)
    <3>1. <<i, a>> \in roots
      BY <2>1 DEF Gains, Vacant
    <3>2. ASSUME NEW k \in L1Index, Names(x, k, a) PROVE k = i
      <4>1. <<k, a>> \in roots
        BY <2>1, <3>2 DEF Gains, Vacant
      <4>2. <<k, a>> = <<i, a>>
        BY <3>1, <4>1
      <4>3. QED
        BY <4>2
    <3>3. QED
      BY <3>1, <3>2
  <2>2. CASE ~Vacant(s, a)
    <3>1. \A k \in L1Index : Names(x, k, a) => Names(s, k, a)
      BY <2>2 DEF Gains
    <3>2. QED
      BY <3>1 DEF Apart, TablesApart, CountsLast
  <2>3. QED
    BY <2>1, <2>2
<1>3. DataApart(x)
  <2> SUFFICES ASSUME NEW v \in VCluster, NEW c \in Cluster, Bears(x, v, c)
               PROVE  /\ Counted(x, c) /\ ~OfPayload(x, c)
                      /\ \A u \in VCluster : Bears(x, u, c) => u = v
    BY DEF DataApart
  <2>1. \A u \in VCluster : Bears(x, u, c) => Bears(s, u, c) \/ <<u, c>> \in marks
    BY GainsBears
  <2>2. ~OfPayload(x, c) <=> ~OfPayload(s, c)
    BY <1>1, OpenedSame
  <2>3. CASE Vacant(s, c)
    <3>1. <<v, c>> \in marks /\ ~OfPayload(s, c)
      BY <2>1, <2>3 DEF Vacant
    <3>2. ASSUME NEW u \in VCluster, Bears(x, u, c) PROVE u = v
      <4>1. <<u, c>> \in marks
        BY <2>1, <2>3, <3>2 DEF Vacant
      <4>2. <<u, c>> = <<v, c>>
        BY <3>1, <4>1
      <4>3. QED
        BY <4>2
    <3>3. QED
      BY <2>2, <3>1, <3>2
  <2>4. CASE ~Vacant(s, c)
    <3>1. \A u \in VCluster : Bears(x, u, c) => Bears(s, u, c)
      BY <2>1, <2>4
    <3>2. QED
      BY <2>2, <3>1 DEF Apart, DataApart, CountsLast
  <2>5. QED
    BY <2>3, <2>4
<1>4. PayloadsStay(x)
  <2>1. \A c : OfPayload(x, c) <=> OfPayload(s, c)
    BY <1>1, OpenedSame
  <2>2. QED
    BY <1>1, <2>1 DEF PayloadsStay, Apart, CountsLast, WordsStay
<1>5. OnlyStandardMade(x)
  <2> SUFFICES ASSUME NEW v \in VCluster, NEW e \in L2Entry, Has(x, v, e), e.kind # "standard"
               PROVE  e = Opened(s, v)
    BY <1>1, OpenedSame DEF OnlyStandardMade
  <2>1. e # NoEntry /\ \A c \in Cluster : e # L2EntryFor(c)
    BY MadeStandard
  <2>2. QED
    BY <2>1 DEF Gains, Apart, OnlyStandardMade
<1>6. QED
  BY <1>2, <1>3, <1>4, <1>5 DEF Apart

(* A cluster counted zero leads nowhere.                                   *)
LEMMA FreeIsVacant ==
    ASSUME NEW s, Apart(s), NEW c \in Cluster, s.dev.rc[c] = 0
    PROVE  Vacant(s, c)
<1>1. ~(s.dev.rc[c] > 0) /\ s.dev.rc[c] # 1
  OBVIOUS
<1>2. QED
  BY <1>1 DEF Vacant, Apart, TablesApart, DataApart, PayloadsStay, One, Counted

(***************************************************************************)
(* What each step changes                                                  *)
(***************************************************************************)
NewRoots(step, r) == IF step = "l1Write" THEN {<<r.at[1], r.table>>} ELSE {}

NewMarks(step, r) == IF step = "entry" THEN {<<r.at, r.new>>} ELSE {}

(* The cluster whose words are written.                                    *)
Overwrites(step, r, c) ==
    (step = "fill" /\ c = r.new) \/ (step = "inPlace" /\ c = r.map.host)

Effect(s, x, step, r) ==
    /\ Gains(s, x, NewRoots(step, r), NewMarks(step, r))
    /\ CountsStay(s, x)
    /\ \A c \in Cluster : ~Overwrites(step, r, c) =>
        /\ x.dev.data[c] = s.dev.data[c]
        /\ x.durable.data[c] \in {s.dev.data[c], s.durable.data[c]}
    /\ \A v \in VCluster : Now(x, v) = Now(s, v) \/ (step = "entry" /\ v = r.at)

LEMMA GainsMore ==
    ASSUME NEW s, NEW x, NEW roots, NEW marks, Gains(s, x, {}, {})
    PROVE  Gains(s, x, roots, marks)
  BY DEF Gains

LEMMA WithinEffect ==
    ASSUME NEW s, NEW x, NEW step, NEW r, Within(x, s), CountsStay(s, x), SameNow(s, x),
           \A c \in Cluster : ~Overwrites(step, r, c) =>
               /\ x.dev.data[c] = s.dev.data[c]
               /\ x.durable.data[c] \in {s.dev.data[c], s.durable.data[c]}
    PROVE  Effect(s, x, step, r)
<1>1. Gains(s, x, NewRoots(step, r), NewMarks(step, r))
  BY WithinGains, GainsMore
<1>2. QED
  BY <1>1 DEF Effect, SameNow

LEMMA SteadyEffect ==
    ASSUME NEW s, NEW x, NEW step, NEW r, Steady(s, x), CountsStay(s, x)
    PROVE  Effect(s, x, step, r)
<1>1. Within(x, s)
  BY SteadyWithin
<1>2. SameNow(s, x)
  BY TablesNow DEF Steady
<1>3. \A c \in Cluster : /\ x.dev.data[c] = s.dev.data[c]
                         /\ x.durable.data[c] \in {s.dev.data[c], s.durable.data[c]}
  BY DEF Steady
<1>4. QED
  BY <1>1, <1>2, <1>3, WithinEffect

LEMMA SameCounts ==
    ASSUME NEW s, NEW x, x.dev.rc = s.dev.rc, x.durable.rc \in {s.dev.rc, s.durable.rc}
    PROVE  CountsStay(s, x)
  BY DEF CountsStay, CountsLast, Counted, One

LEMMA SameEffect ==
    ASSUME NEW s, NEW step, NEW r
    PROVE  Effect(s, s, step, r)
<1>1. Steady(s, s) /\ CountsStay(s, s)
  BY SameCounts DEF Steady
<1>2. QED
  BY <1>1, SteadyEffect

LEMMA FlushEffect ==
    ASSUME UNCHANGED <<img, dev, memory>>, durable' = dev, NEW step, NEW r
    PROVE  Effect(Stored, Stored', step, r)
<1> DEFINE s == Stored
           x == Stored'
<1>1. Steady(s, x) /\ x.dev.rc = s.dev.rc /\ x.durable.rc = s.dev.rc
  BY FlushedSteady DEF Stored
<1> HIDE DEF s, x
<1>2. Effect(s, x, step, r)
  BY <1>1, SameCounts, SteadyEffect
<1>3. QED
  BY <1>2 DEF s, x

LEMMA CountEffect ==
    ASSUME Typed, NothingFreed, NEW t \in Writers, Allocate(t) \/ WriteRelease(t), NEW step, NEW r
    PROVE  Effect(Stored, Stored', step, r)
<1> DEFINE s == Stored
           x == Stored'
<1>1. dev \in Device /\ dev.rc \in [Cluster -> Nat]
  BY TypedParts DEF StoreTyped, Device
<1>2. Steady(s, x) /\ x.durable.rc = s.durable.rc
  BY CountSteady DEF Stored, Allocate, WriteRelease
<1>3. CASE Allocate(t)
  <2>1. PICK a \in Cluster : dev.rc[a] = 0 /\ dev' = [dev EXCEPT !.rc[a] = 1, !.len = Longer(a)]
    BY <1>3 DEF Allocate, FreeCluster
  <2>2. \A c \in Cluster : s.dev.rc[c] # 0 => x.dev.rc[c] = s.dev.rc[c]
    BY <1>1, <2>1 DEF Stored, Device
  <2> HIDE DEF s, x
  <2>3. CountsStay(s, x)
    BY <1>2, <2>2 DEF CountsStay, CountsLast, Counted, One
  <2>4. QED
    BY <1>2, <2>3, SteadyEffect DEF s, x
<1>4. CASE WriteRelease(t)
  <2> DEFINE a == Released(t)
  <2>1. dev.rc[a] # 1 /\ dev' = [dev EXCEPT !.rc[a] = @ - 1] /\ dev.rc[a] > 0
    BY <1>4 DEF WriteRelease, NothingFreed
  <2>2. ASSUME NEW c \in Cluster, s.dev.rc[c] > 0
        PROVE  x.dev.rc[c] > 0 /\ (s.dev.rc[c] = 1 => x.dev.rc[c] = 1)
    <3>1. s.dev.rc[c] \in Nat /\ x.dev.rc[c] = IF c = a THEN s.dev.rc[c] - 1 ELSE s.dev.rc[c]
      BY <1>1, <2>1 DEF Stored, Device
    <3>2. c = a => s.dev.rc[c] # 1
      BY <2>1 DEF Stored
    <3> HIDE DEF s, x, a
    <3>3. QED
      BY <2>2, <3>1, <3>2
  <2> HIDE DEF s, x, a
  <2>3. CountsStay(s, x)
    BY <1>2, <2>2 DEF CountsStay, CountsLast, Counted, One
  <2>4. QED
    BY <1>2, <2>3, SteadyEffect DEF s, x
<1>5. QED
  BY <1>3, <1>4

LEMMA DataEffect ==
    ASSUME NEW s, NEW x, NEW step, NEW r, NEW a \in Cluster, NEW words,
           DataWritten(s, x, a, words), Overwrites(step, r, a)
    PROVE  Effect(s, x, step, r)
<1>1. Within(x, s)
  BY DataWithin
<1>2. SameNow(s, x)
  BY TablesNow DEF DataWritten
<1>3. CountsStay(s, x)
  BY SameCounts DEF DataWritten
<1>4. \A c \in Cluster : c # a =>
          x.dev.data[c] = s.dev.data[c] /\ x.durable.data[c] = s.durable.data[c]
  BY DEF DataWritten
<1>5. QED
  BY <1>1, <1>2, <1>3, <1>4, WithinEffect

(* A table nothing names is written.                                       *)
LEMMA RowEffect ==
    ASSUME NEW s, NEW x, NEW step, NEW r, NEW T \in Cluster, NEW row, RowWritten(s, x, T, row),
           \A k \in L1Index : ~Names(s, k, T)
    PROVE  Effect(s, x, step, r)
<1>1. \A k \in L1Index : Roots(x, k) = Roots(s, k)
  BY DEF RowWritten, Roots
<1>2. \A k \in L1Index : \A a : Names(x, k, a) <=> Names(s, k, a)
  BY <1>1 DEF Names
<1>3. ASSUME NEW v \in VCluster, NEW e \in L2Entry, Has(x, v, e) PROVE Has(s, v, e)
  <2>1. v[1] \in L1Index
    BY DEF VCluster
  <2>2. ASSUME NEW a \in Cluster, Names(x, v[1], a)
        PROVE  Names(s, v[1], a) /\ x.dev.table[a] = s.dev.table[a]
    BY <1>2, <2>1, <2>2 DEF RowWritten
  <2>3. x.durable = s.durable /\ x.cache = s.cache
    BY DEF RowWritten
  <2>4. QED
    BY <1>3, <2>2, <2>3 DEF Has
<1>4. Within(x, s)
  BY <1>1, <1>3 DEF Within, RowWritten
<1>5. SameNow(s, x)
  <2> SUFFICES ASSUME NEW v \in VCluster PROVE Now(x, v) = Now(s, v)
    BY DEF SameNow
  <2>1. v[1] \in L1Index /\ x.l1 = s.l1
    BY DEF VCluster, RowWritten
  <2>2. s.l1[v[1]].at # T
    BY <2>1 DEF Names, Roots
  <2>3. s.l1[v[1]].at \in Cluster => x.dev.table[s.l1[v[1]].at] = s.dev.table[s.l1[v[1]].at]
    BY <2>2 DEF RowWritten
  <2>4. QED
    BY <2>1, <2>3 DEF Now, EntryAt, Targets
<1>6. CountsStay(s, x)
  BY SameCounts DEF RowWritten
<1>7. QED
  BY <1>4, <1>5, <1>6, WithinEffect DEF RowWritten

(* A slot that is emptied, or holds the table memory names.                *)
LEMMA RecachedEffect ==
    ASSUME NEW s, NEW x, NEW step, NEW r, IsStore(s), Recached(s, x)
    PROVE  Effect(s, x, step, r)
<1>1. /\ x.img = s.img /\ x.l1 = s.l1 /\ x.dev = s.dev /\ x.durable = s.durable
      /\ \A k : Roots(x, k) = Roots(s, k)
  BY DEF Recached, Roots
<1>2. \A k : \A a : Names(x, k, a) <=> Names(s, k, a)
  BY <1>1 DEF Names
<1>3. ASSUME NEW v \in VCluster, NEW e \in L2Entry, Has(x, v, e) PROVE Has(s, v, e)
  <2>1. CASE \E a \in Cluster : /\ Names(x, v[1], a)
                                /\ e = x.dev.table[a][v[2]] \/ e = x.durable.table[a][v[2]]
    BY <1>1, <1>2, <2>1 DEF Has
  <2>2. CASE x.cache # <<>> /\ x.cache[1] = v[1] /\ e = x.cache[2][v[2]]
    <3>1. CASE x.cache = s.cache
      BY <2>2, <3>1 DEF Has
    <3>2. ASSUME NEW i \in L1Index, s.l1[i].at \in Cluster, x.cache = <<i, s.dev.table[s.l1[i].at]>>
          PROVE  Has(s, v, e)
      <4>1. i = v[1] /\ e = s.dev.table[s.l1[i].at][v[2]]
        BY <2>2, <3>2
      <4>2. Names(s, v[1], s.l1[i].at)
        BY <4>1 DEF Names, Roots
      <4>3. QED
        BY <3>2, <4>1, <4>2 DEF Has
    <3>3. QED
      BY <2>2, <3>1, <3>2 DEF Recached
  <2>3. QED
    BY <1>3, <2>1, <2>2 DEF Has
<1>4. Within(x, s) /\ SameNow(s, x) /\ CountsStay(s, x)
  BY <1>1, <1>3, TablesNow, SameCounts DEF Within
<1>5. QED
  BY <1>1, <1>4, WithinEffect

LEMMA InstallEffect ==
    ASSUME NEW s, NEW x, NEW r \in Local, r.table \in Cluster,
           RootWritten(s, x, r.at[1], r.table),
           s.dev.table[r.table] = EmptyTable, s.durable.table[r.table] = EmptyTable
    PROVE  Effect(s, x, "l1Write", r)
<1> DEFINE i == r.at[1]
           T == r.table
<1>1. i \in L1Index
  BY DEF Local, VCluster
<1>2. ASSUME NEW k \in L1Index, NEW a \in Cluster, Names(x, k, a)
      PROVE  Names(s, k, a) \/ <<k, a>> \in NewRoots("l1Write", r)
  <2>1. Names(s, k, a) \/ (k = i /\ a = T)
    BY <1>1, <1>2, EntryForFacts DEF Names, Roots, RootWritten
  <2>2. QED
    BY <2>1 DEF NewRoots
<1>3. \A j \in L2Index : s.dev.table[T][j] = NoEntry
  BY DEF EmptyTable
<1>4. x.img = s.img /\ \A v \in VCluster, e \in L2Entry : Has(x, v, e) => Has(s, v, e) \/ e = NoEntry
  BY <1>1, <1>3, RootHas DEF RootWritten
<1>5. Gains(s, x, NewRoots("l1Write", r), NewMarks("l1Write", r))
  BY <1>2, <1>4 DEF Gains
<1>6. SameNow(s, x) /\ CountsStay(s, x)
  BY TablesNow, SameCounts DEF RootWritten
<1>7. QED
  BY <1>5, <1>6 DEF Effect, SameNow, RootWritten

LEMMA FollowEffect ==
    ASSUME NEW s, NEW x, NEW r \in Local, r.table \in Cluster,
           RootFollowed(s, x, r.at[1], r.table), s.dev.l1[r.at[1]] = L1EntryFor(r.table),
           s.l1[r.at[1]].at = None, s.dev.table[r.table] = EmptyTable, NEW step
    PROVE  Effect(s, x, step, r)
<1> DEFINE i == r.at[1]
           T == r.table
<1>1. i \in L1Index /\ L1EntryFor(T).at = T
  BY EntryForFacts DEF Local, VCluster
<1>2. /\ x.img = s.img /\ x.cache = s.cache /\ x.dev = s.dev /\ x.durable = s.dev
      /\ x.l1[i] = s.dev.l1[i] /\ \A k \in L1Index : k # i => x.l1[k] = s.l1[k]
  BY DEF RootFollowed
<1>3. x.l1[i].at = T /\ s.l1[i].at = None /\ s.dev.table[T] = EmptyTable
  BY <1>1, <1>2
<1> HIDE DEF i, T
<1>4. \A k \in L1Index : Roots(x, k) \subseteq Roots(s, k)
  BY <1>2 DEF Roots
<1>5. Within(x, s)
  BY <1>2, <1>4, NoMoreIsWithin
<1>6. SameNow(s, x)
  <2> SUFFICES ASSUME NEW v \in VCluster PROVE Now(x, v) = Now(s, v)
    BY DEF SameNow
  <2>1. v[1] \in L1Index /\ v[2] \in L2Index
    BY DEF VCluster
  <2>2. CASE v[1] = i
    <3>1. Now(s, v) = NoEntry
      BY <1>3, <2>2, NowIs, Numbers
    <3>2. x.l1[v[1]].at = T /\ x.dev.table[T] = EmptyTable /\ T \in Cluster
      BY <1>2, <1>3, <2>2 DEF T
    <3>3. Now(x, v) = x.dev.table[T][v[2]]
      BY <3>2, NowIs
    <3>4. QED
      BY <2>1, <3>1, <3>2, <3>3 DEF EmptyTable
  <2>3. CASE v[1] # i
    <3>1. x.l1[v[1]] = s.l1[v[1]] /\ x.dev = s.dev
      BY <1>2, <2>1, <2>3
    <3>2. QED
      BY <2>1, <3>1 DEF Now, EntryAt, Targets
  <2>4. QED
    BY <2>2, <2>3
<1>7. CountsStay(s, x)
  BY <1>2, SameCounts
<1>8. QED
  BY <1>2, <1>5, <1>6, <1>7, WithinEffect

LEMMA EntryEffect ==
    ASSUME NEW s, NEW x, NEW r \in Local, r.table \in Cluster, r.new \in Cluster,
           s.l1[r.at[1]].at = r.table, \A k \in L1Index : Names(s, k, r.table) => k = r.at[1],
           EntryPut(s, x, r.table, r.at[2], r.new)
    PROVE  /\ Effect(s, x, "entry", r) /\ Now(x, r.at) = L2EntryFor(r.new)
           /\ \A v \in VCluster : v # r.at => Now(x, v) = Now(s, v)
<1> DEFINE i == r.at[1]
           j == r.at[2]
           T == r.table
           n == r.new
<1>1. r.at \in VCluster /\ i \in L1Index /\ j \in L2Index /\ r.at = <<i, j>>
  BY DEF Local, VCluster
<1>2. /\ x.img = s.img /\ x.l1 = s.l1 /\ x.cache = s.cache /\ x.durable = s.durable
      /\ x.dev.l1 = s.dev.l1 /\ x.dev.rc = s.dev.rc /\ x.dev.data = s.dev.data
      /\ x.dev.table[T][j] = L2EntryFor(n)
      /\ \A a \in Cluster : \A k \in L2Index :
             a # T \/ k # j => x.dev.table[a][k] = s.dev.table[a][k]
  BY DEF EntryPut
<1>3. \A k : \A a : Names(x, k, a) <=> Names(s, k, a)
  BY <1>2 DEF Names, Roots
<1>4. ASSUME NEW v \in VCluster, NEW e \in L2Entry, Has(x, v, e)
      PROVE  Has(s, v, e) \/ (v = r.at /\ e = L2EntryFor(n))
  <2>1. v[1] \in L1Index /\ v[2] \in L2Index /\ v = <<v[1], v[2]>>
    BY DEF VCluster
  <2>2. CASE \E a \in Cluster : /\ Names(x, v[1], a)
                                /\ e = x.dev.table[a][v[2]] \/ e = x.durable.table[a][v[2]]
    <3>1. PICK a \in Cluster : /\ Names(s, v[1], a)
                               /\ e = x.dev.table[a][v[2]] \/ e = s.durable.table[a][v[2]]
      BY <1>2, <1>3, <2>2
    <3>2. CASE a = T /\ v[2] = j /\ e = x.dev.table[a][v[2]]
      <4>1. v[1] = i
        BY <2>1, <3>1, <3>2
      <4>2. QED
        BY <1>1, <1>2, <2>1, <3>2, <4>1
    <3>3. CASE ~(a = T /\ v[2] = j /\ e = x.dev.table[a][v[2]])
      <4>1. e = s.dev.table[a][v[2]] \/ e = s.durable.table[a][v[2]]
        BY <1>2, <2>1, <3>1, <3>3
      <4>2. QED
        BY <3>1, <4>1 DEF Has
    <3>4. QED
      BY <3>2, <3>3
  <2>3. CASE x.cache # <<>> /\ x.cache[1] = v[1] /\ e = x.cache[2][v[2]]
    BY <1>2, <2>3 DEF Has
  <2>4. QED
    BY <1>4, <2>2, <2>3 DEF Has
<1>5. Gains(s, x, NewRoots("entry", r), NewMarks("entry", r))
  <2>1. <<r.at, n>> \in NewMarks("entry", r)
    BY DEF NewMarks
  <2>2. QED
    BY <1>2, <1>3, <1>4, <2>1 DEF Gains
<1>6. Now(x, r.at) = L2EntryFor(n)
  <2>1. x.l1[r.at[1]].at = T /\ T \in Cluster
    BY <1>2
  <2>2. Now(x, r.at) = x.dev.table[x.l1[r.at[1]].at][r.at[2]]
    BY <1>1, <2>1, NowIs
  <2>3. x.l1[r.at[1]].at = T /\ r.at[2] = j
    BY <2>1
  <2> HIDE DEF T, j, n
  <2>4. QED
    BY <1>2, <2>2, <2>3
<1>7. ASSUME NEW v \in VCluster, v # r.at PROVE Now(x, v) = Now(s, v)
  <2>1. v[1] \in L1Index /\ v[2] \in L2Index /\ v = <<v[1], v[2]>>
    BY DEF VCluster
  <2>2. /\ x.l1[v[1]].at \in Cluster => Now(x, v) = x.dev.table[x.l1[v[1]].at][v[2]]
        /\ x.l1[v[1]].at \notin Cluster => Now(x, v) = NoEntry
        /\ s.l1[v[1]].at \in Cluster => Now(s, v) = s.dev.table[s.l1[v[1]].at][v[2]]
        /\ s.l1[v[1]].at \notin Cluster => Now(s, v) = NoEntry
    BY NowIs
  <2>3. s.l1[v[1]].at = T => v[2] # j
    <3> SUFFICES ASSUME s.l1[v[1]].at = T PROVE v[2] # j
      OBVIOUS
    <3>1. Names(s, v[1], T)
      BY DEF Names, Roots
    <3>2. v[1] = i
      BY <2>1, <3>1
    <3>3. QED
      BY <1>1, <1>7, <2>1, <3>2
  <2>4. QED
    BY <1>2, <2>1, <2>2, <2>3
<1>8. CountsStay(s, x)
  BY <1>2, SameCounts
<1>9. Effect(s, x, "entry", r)
  BY <1>2, <1>5, <1>7, <1>8 DEF Effect
<1>10. QED
  BY <1>6, <1>7, <1>9

(***************************************************************************)
(* What the threads change                                                 *)
(***************************************************************************)
LEMMA AtHand ==
    ASSUME Typed, ReadingInv, NEW t \in Writers
    PROVE  /\ t \in Threads /\ reg[t] \in Local /\ LocalsGood(t) /\ IsStore(Stored)
           /\ reg[t].at \in VCluster /\ reg[t].at[1] \in L1Index /\ reg[t].at[2] \in L2Index
           /\ reg[t].map \in ClusterMap
           /\ Doing(Stored, pc[t], reg[t]) /\ Apart(Stored)
<1>1. t \in Threads /\ reg[t] \in Local /\ LocalsGood(t) /\ IsStore(Stored)
  BY TypedParts, StoredTyped
<1>2. QED
  BY <1>1 DEF ReadingInv, Local, VCluster

LEMMA RecachedBy ==
    ASSUME Typed, L1Kept, NEW t \in Threads, LookupL2(t) \/ (t \in Writers /\ ForgetL2(t))
    PROVE  /\ Recached(Stored, Stored')
           /\ LookupL2(t) =>
                /\ l1[reg[t].at[1]].at \in Cluster /\ reg[t].l1Entry = l1[reg[t].at[1]]
                /\ l2Cache' = Cached(reg[t].at[1], l1[reg[t].at[1]].at)
           /\ ForgetL2(t) => l2Cache' = <<>>
<1>1. CASE LookupL2(t)
  <2> DEFINE i == reg[t].at[1]
             cache == Cached(i, reg[t].l1Entry.at)
  <2>1. UNCHANGED <<img, dev, durable, l1>> /\ l2Cache' = cache /\ pc[t] = "l2"
    BY <1>1 DEF LookupL2
  <2>2. i \in L1Index /\ reg[t].l1Entry = l1[i] /\ reg[t].l1Entry.at \in Cluster
    BY <2>1, TypedParts DEF L1Kept, LocalsGood, GoodAt, Local, VCluster
  <2>3. \/ cache = l2Cache
        \/ l1[i].at \in Cluster /\ cache = <<i, dev.table[l1[i].at]>>
    BY <2>2 DEF Cached
  <2>4. ~ForgetL2(t)
    BY <2>1 DEF ForgetL2
  <2> HIDE DEF i
  <2>5. Recached(Stored, Stored')
    BY <2>1, <2>2, <2>3 DEF Recached, Stored
  <2>6. QED
    BY <2>1, <2>2, <2>4, <2>5 DEF i
<1>2. CASE ForgetL2(t)
  <2>1. UNCHANGED <<img, dev, durable, l1>> /\ l2Cache' = <<>> /\ pc[t] = "forgetL2"
    BY <1>2 DEF ForgetL2, AfterEntry
  <2>2. ~LookupL2(t)
    BY <2>1 DEF LookupL2
  <2>3. QED
    BY <2>1, <2>2 DEF Recached, Stored
<1>3. QED
  BY <1>1, <1>2

LEMMA WriterEffect ==
    ASSUME Typed, Serial, ReadingInv, NothingFreed, NEW t \in Writers,
           Lookup(t) \/ DeviceError(t) \/ StartWrite(t) \/ WriteStep(t)
    PROVE  Effect(Stored, Stored', pc[t], reg[t])
<1> DEFINE s == Stored
           x == Stored'
           r == reg[t]
           T == reg[t].table
<1>1. /\ t \in Threads /\ r \in Local /\ IsStore(s) /\ Doing(s, pc[t], r) /\ TablesApart(s)
      /\ r.at \in VCluster /\ r.at[1] \in L1Index
  BY AtHand DEF Apart
<1>2. CASE Calm(t)
  BY <1>2, CalmStores, SameEffect
<1>3. CASE Flushes(t)
  BY <1>3, FlushStores, FlushEffect
<1>4. CASE Allocate(t) \/ WriteRelease(t)
  BY <1>4, CountEffect
<1>5. CASE WriteInPlace(t)
  <2>1. pc[t] = "inPlace"
    BY <1>5 DEF WriteInPlace
  <2>2. QED
    BY <1>5, <2>1, InPlaceWrites, DataEffect DEF Overwrites
<1>6. CASE Fill(t)
  <2>1. pc[t] = "fill"
    BY <1>6 DEF Fill
  <2>2. QED
    BY <1>6, <2>1, FillWrites, DataEffect DEF Overwrites
<1>7. CASE Zero(t)
  <2>1. pc[t] = "zero"
    BY <1>7 DEF Zero
  <2>2. T \in Cluster /\ \A k \in L1Index : ~Names(s, k, T)
    BY <1>1, <2>1 DEF Doing, HoldsTable, Vacant
  <2>3. PICK row : RowWritten(s, x, T, row)
    BY <1>7, RowWrites
  <2> HIDE DEF s, x, T, r
  <2>4. Effect(s, x, pc[t], r)
    BY <2>2, <2>3, RowEffect
  <2>5. QED
    BY <2>4 DEF s, x, r
<1>8. CASE CopyTable(t)
  BY <1>1, <1>8 DEF CopyTable, Doing
<1>9. CASE WriteL1(t)
  <2>1. pc[t] = "l1Write"
    BY <1>9 DEF WriteL1
  <2>2. T \in Cluster /\ s.dev.table[T] = EmptyTable /\ s.durable.table[T] = EmptyTable
    BY <1>1, <2>1 DEF Doing, HoldsTable
  <2>3. RootWritten(s, x, r.at[1], T)
    BY <1>9, RootWrites
  <2> HIDE DEF s, x
  <2>4. Effect(s, x, "l1Write", r)
    BY <1>1, <2>2, <2>3, InstallEffect
  <2>5. QED
    BY <2>1, <2>4 DEF s, x
<1>10. CASE FlushL1(t)
  <2>1. pc[t] = "l1Flush"
    BY <1>10 DEF FlushL1
  <2>2. T \in Cluster
    BY <1>1, <2>1, AtHand DEF LocalsGood, GoodAt, TableSteps
  <2>3. /\ s.dev.table[T] = EmptyTable /\ s.dev.l1[r.at[1]] = L1EntryFor(T)
        /\ s.l1[r.at[1]].at = None
    BY <1>1, <2>1 DEF Doing
  <2>4. RootFollowed(s, x, r.at[1], T)
    BY <1>10, RootWrites
  <2> HIDE DEF s, x
  <2>5. Effect(s, x, pc[t], r)
    BY <1>1, <2>2, <2>3, <2>4, FollowEffect
  <2>6. QED
    BY <2>5 DEF s, x
<1>11. CASE WriteEntry(t)
  <2>1. pc[t] = "entry"
    BY <1>11 DEF WriteEntry
  <2>2. T \in Cluster /\ T = s.l1[r.at[1]].at
    BY <1>1, <2>1 DEF Doing
  <2>3. r.new \in Cluster
    BY <1>1, <2>1 DEF Doing, HoldsNew, HasNew, FilledSteps
  <2>4. Names(s, r.at[1], T)
    BY <2>2 DEF Names, Roots
  <2>5. \A k \in L1Index : Names(s, k, T) => k = r.at[1]
    BY <1>1, <2>2, <2>4 DEF TablesApart
  <2>6. EntryPut(s, x, T, r.at[2], r.new)
    BY <1>11, <2>2, EntryWrites
  <2> HIDE DEF s, x
  <2>7. Effect(s, x, "entry", r)
    BY <1>1, <2>2, <2>3, <2>5, <2>6, EntryEffect
  <2>8. QED
    BY <2>1, <2>7 DEF s, x
<1>12. CASE LookupL2(t) \/ ForgetL2(t)
  <2>1. Recached(s, x)
    BY <1>1, <1>12, RecachedBy DEF ReadingInv
  <2>2. QED
    BY <1>1, <2>1, RecachedEffect
<1>13. QED
  BY <1>2, <1>3, <1>4, <1>5, <1>6, <1>7, <1>8, <1>9, <1>10, <1>11, <1>12
  DEF Calm, Flushes, Lookup, WriteStep

(* A reader changes no more than the L2 cache.                             *)
LEMMA ReaderEffect ==
    ASSUME Typed, L1Kept, NEW u \in Readers,
           Lookup(u) \/ DeviceError(u) \/ StartRead(u) \/ ReadStep(u), NEW r
    PROVE  Effect(Stored, Stored', "idle", r)
<1>1. u \in Threads /\ u \notin Writers /\ IsStore(Stored)
  BY TypedParts, StoredTyped, WriteAssumption
<1>2. CASE LookupL2(u)
  BY <1>1, <1>2, RecachedBy, RecachedEffect
<1>3. CASE ~LookupL2(u)
  <2>1. Stored' = Stored
    BY <1>3 DEF Lookup, LookupL1, Undecodable, DeviceError, StartRead, ReadStep, Fetch, Store,
       EndRead, memory, Stored
  <2>2. QED
    BY <2>1, SameEffect
<1>4. QED
  BY <1>2, <1>3

(***************************************************************************)
(* Tables and data stay apart, and payloads where they were                *)
(***************************************************************************)
(* What a step needs of the clusters it publishes or overwrites.           *)
Ready(s, step, r) ==
    /\ step \in {"fill", "entry"} => r.new \in Cluster /\ Vacant(s, r.new)
    /\ step = "entry" => Counted(s, r.new)
    /\ step = "inPlace" => r.map.host \in Cluster /\ Bears(s, r.at, r.map.host)
    /\ step = "l1Write" => r.table \in Cluster /\ Vacant(s, r.table) /\ One(s, r.table)

LEMMA ReadyApart ==
    ASSUME NEW s, NEW x, NEW step, NEW r, r.at \in VCluster, Apart(s), Effect(s, x, step, r),
           Ready(s, step, r)
    PROVE  Apart(x)
<1> DEFINE roots == NewRoots(step, r)
           marks == NewMarks(step, r)
<1>1. Gains(s, x, roots, marks) /\ CountsLast(s, x)
  BY DEF Effect, CountsStay
<1>2. WordsStay(s, x)
  <2> SUFFICES ASSUME NEW c \in Cluster, OfPayload(s, c)
               PROVE  /\ x.dev.data[c] = s.img.dev.data[c]
                      /\ x.durable.data[c] = s.img.dev.data[c]
    BY DEF WordsStay
  <2>1. ~Overwrites(step, r, c)
    BY DEF Overwrites, Ready, Vacant, Apart, DataApart
  <2>2. s.dev.data[c] = s.img.dev.data[c] /\ s.durable.data[c] = s.img.dev.data[c]
    BY DEF Apart, PayloadsStay
  <2>3. QED
    BY <2>1, <2>2 DEF Effect
<1>3. ASSUME NEW i \in L1Index, NEW a \in Cluster, <<i, a>> \in roots
      PROVE  Vacant(s, a) /\ One(x, a)
  <2>1. step = "l1Write" /\ <<i, a>> = <<r.at[1], r.table>>
    BY <1>3 DEF NewRoots
  <2>2. a = r.table
    BY <2>1
  <2>3. QED
    BY <1>1, <2>1, <2>2 DEF Ready, CountsLast
<1>4. ASSUME NEW v \in VCluster, NEW c \in Cluster, <<v, c>> \in marks
      PROVE  Vacant(s, c) /\ Counted(x, c)
  <2>1. step = "entry" /\ <<v, c>> = <<r.at, r.new>>
    BY <1>4 DEF NewMarks
  <2>2. c = r.new
    BY <2>1
  <2>3. QED
    BY <1>1, <2>1, <2>2 DEF Ready, CountsLast
<1>5. (\A p, q \in roots : p = q) /\ (\A p, q \in marks : p = q)
  BY DEF NewRoots, NewMarks
<1> HIDE DEF roots, marks
<1>6. QED
  BY <1>1, <1>2, <1>3, <1>4, <1>5, ApartKeeps

(* Nothing comes to lead to a cluster but what a step publishes.           *)
LEMMA VacantStays ==
    ASSUME NEW s, NEW x, NEW step, NEW r, Effect(s, x, step, r), NEW c \in Cluster, Vacant(s, c),
           step = "l1Write" => c # r.table, step = "entry" => c # r.new
    PROVE  Vacant(x, c)
<1>1. Gains(s, x, NewRoots(step, r), NewMarks(step, r))
  BY DEF Effect
<1>2. ASSUME NEW i, <<i, c>> \in NewRoots(step, r) PROVE FALSE
  <2>1. step = "l1Write" /\ <<i, c>> = <<r.at[1], r.table>>
    BY <1>2 DEF NewRoots
  <2>2. c = r.table
    BY <2>1
  <2>3. QED
    BY <2>1, <2>2
<1>3. ASSUME NEW v, <<v, c>> \in NewMarks(step, r) PROVE FALSE
  <2>1. step = "entry" /\ <<v, c>> = <<r.at, r.new>>
    BY <1>3 DEF NewMarks
  <2>2. c = r.new
    BY <2>1
  <2>3. QED
    BY <2>1, <2>2
<1>4. QED
  BY <1>1, <1>2, <1>3, GainsBears

(* The cluster written in place is the one the disk has there, and nobody  *)
(* else's.                                                                 *)
LEMMA HostBorne ==
    ASSUME Typed, ReadingInv, NEW t \in Writers, pc[t] = "inPlace"
    PROVE  LET host == reg[t].map.host IN
           /\ host \in Cluster /\ Bears(Stored, reg[t].at, host)
           /\ Now(Stored, reg[t].at) \in L2Entry
           /\ Now(Stored, reg[t].at).kind = "standard" /\ Now(Stored, reg[t].at).at = host
<1> DEFINE r == reg[t]
           e == Now(Stored, r.at)
<1>1. r.map.case = "Plain" /\ r.map.host \in Cluster
  <2>1. r.map.case = "Plain" /\ Placed(r.map, imageLen)
    BY AtHand DEF LocalsGood, GoodAt
  <2>2. QED
    BY <2>1, AtHand, TypedParts, PlacedInCluster
<1>2. PICK b \in BOOLEAN : r.map = MapOf(e, b)
  BY AtHand DEF Doing, FindsNow
<1>3. e \in L2Entry /\ (e = NoEntry \/ Has(Stored, r.at, e))
  BY AtHand, NowFacts
<1>4. e.kind = "standard" /\ e.at # None /\ e.at = r.map.host
  BY <1>1, <1>2, <1>3, MapOfEntry
<1>5. e # NoEntry
  BY <1>4 DEF NoEntry
<1>6. QED
  BY <1>1, <1>3, <1>4, <1>5 DEF Bears

LEMMA WriterReady ==
    ASSUME Typed, ReadingInv, NEW t \in Writers
    PROVE  Ready(Stored, pc[t], reg[t])
<1> DEFINE s == Stored
           r == reg[t]
<1>1. Doing(s, pc[t], r)
  BY AtHand
<1>2. pc[t] \in {"fill", "entry"} => HoldsNew(pc[t], r) /\ ~TakesData(pc[t], r)
  BY DEF HoldsNew, HasNew, FilledSteps, TakesData
<1>3. pc[t] = "l1Write" => HoldsTable(pc[t], r)
  BY DEF HoldsTable
<1>4. pc[t] = "inPlace" => r.map.host \in Cluster /\ Bears(s, r.at, r.map.host)
  BY HostBorne
<1>5. QED
  BY <1>1, <1>2, <1>3, <1>4 DEF Ready, Doing, Counted, One

LEMMA WriterApart ==
    ASSUME Typed, Serial, ReadingInv, NothingFreed, NEW t \in Writers,
           Lookup(t) \/ DeviceError(t) \/ StartWrite(t) \/ WriteStep(t)
    PROVE  Apart(Stored')
  BY AtHand, WriterEffect, WriterReady, ReadyApart

LEMMA IdleApart ==
    ASSUME NEW s, NEW x, NEW r, r.at \in VCluster, Apart(s), Effect(s, x, "idle", r)
    PROVE  Apart(x)
<1>1. Ready(s, "idle", r)
  BY DEF Ready
<1>2. QED
  BY <1>1, ReadyApart

(***************************************************************************)
(* The caches                                                              *)
(***************************************************************************)
Moving(t) ==
    \/ Lookup(t) \/ DeviceError(t)
    \/ t \in Writers /\ (StartWrite(t) \/ WriteStep(t))
    \/ t \in Readers /\ (StartRead(t) \/ ReadStep(t))

LEMMA MovesAlone ==
    ASSUME Typed, NEW t \in Threads, Moving(t)
    PROVE  /\ \A u \in Threads : u # t => pc'[u] = pc[u] /\ reg'[u] = reg[u]
           /\ \A step : Go(t, step) => pc'[t] = step
           /\ \A locals : Set(t, locals) => reg'[t] = locals
           /\ UNCHANGED reg => reg'[t] = reg[t]
           /\ Leave(t) => pc'[t] = "idle"
  BY OnlyOne, TypedParts DEF Moving, Go, Set, Leave

LEMMA CachedTrue ==
    ASSUME Typed, L1Kept, CacheTrue(Stored), NEW t \in Threads, LookupL2(t)
    PROVE  /\ l2Cache' # <<>> /\ l2Cache'[1] = reg[t].at[1]
           /\ \A v \in VCluster : v[1] = reg[t].at[1] =>
                l2Cache'[2][v[2]] = Now(Stored, v) \/ Behind(v, l2Cache'[2][v[2]])
<1> DEFINE i == reg[t].at[1]
           table == l1[i].at
<1>1. table \in Cluster /\ l2Cache' = Cached(i, table)
  BY RecachedBy
<1>2. CASE l2Cache # <<>> /\ l2Cache[1] = i
  <2>1. l2Cache' = l2Cache
    BY <1>1, <1>2 DEF Cached
  <2>2. QED
    BY <1>2, <2>1 DEF CacheTrue, Stored
<1>3. CASE ~(l2Cache # <<>> /\ l2Cache[1] = i)
  <2>1. l2Cache' = <<i, dev.table[table]>>
    BY <1>1, <1>3 DEF Cached
  <2>2. l2Cache'[1] = i /\ l2Cache'[2] = dev.table[table]
    BY <2>1
  <2>3. ASSUME NEW v \in VCluster, v[1] = i PROVE Now(Stored, v) = dev.table[table][v[2]]
    <3>1. Stored.l1[v[1]].at = table /\ Stored.dev = dev
      BY <2>3 DEF Stored
    <3>2. QED
      BY <1>1, <3>1, NowIs
  <2>4. QED
    BY <2>1, <2>2, <2>3
<1>4. QED
  BY <1>2, <1>3

(* An entry stays behind until the writer empties the cache.               *)
LEMMA BehindStays ==
    ASSUME Typed, NEW t \in Threads, Moving(t), ~(t \in Writers /\ ForgetL2(t)), faults' = 0,
           NEW v, NEW e, Behind(v, e)
    PROVE  Behind(v, e)'
<1>1. PICK u \in Writers : /\ pc[u] \in {"entryFlush", "forgetL2"} /\ reg[u].at = v
                           /\ \E b \in BOOLEAN : reg[u].map = MapOf(e, b)
  BY DEF Behind
<1>2. CASE u # t
  <2>1. pc'[u] = pc[u] /\ reg'[u] = reg[u]
    BY <1>2, MovesAlone, TypedParts
  <2>2. QED
    BY <1>1, <2>1 DEF Behind
<1>3. CASE u = t
  <2>1. ~DeviceError(t) /\ t \notin Readers
    BY <1>3, NoFault, WriteAssumption DEF DeviceError
  <2>2. FlushEntry(t)
    BY <1>1, <1>3, <2>1 DEF Moving, Lookup, LookupL1, LookupL2, Undecodable, StartWrite, WriteStep,
       TakeWriteLock, PlanInPlace, PlanReallocate, WriteInPlace, Allocate, NoRoom, FlushAllocate,
       Fill, FlushFill, Repoint, Zero, FlushZero, CopyTable, FlushCopy, WriteL1, FlushL1, WriteEntry,
       ForgetL2, ForgetData, WriteRelease, FlushRelease, ReleaseFails, ReleaseSteps, NextChunk,
       EndWrite
  <2>3. pc'[t] = "forgetL2" /\ reg'[t] = reg[t]
    BY <2>2, MovesAlone DEF FlushEntry, FlushThen
  <2>4. QED
    BY <1>1, <1>3, <2>3 DEF Behind
<1>4. QED
  BY <1>2, <1>3

(* The writer past its lookup finds no entry behind.                       *)
LEMMA NothingBehind ==
    ASSUME Serial, NEW t \in Writers, pc[t] \notin {"idle", "lock", "entryFlush", "forgetL2"},
           NEW v, NEW e
    PROVE  ~Behind(v, e)
  BY DEF Behind, Serial

LEMMA CacheAfter ==
    ASSUME CacheTrue(Stored), \A v, e : Behind(v, e) => Behind(v, e)',
           \A v \in VCluster : \A e : e = Now(Stored, v) => e = Now(Stored', v) \/ Behind(v, e)',
           \/ l2Cache' = l2Cache
           \/ /\ l2Cache' # <<>>
              /\ \A v \in VCluster : v[1] = l2Cache'[1] =>
                    l2Cache'[2][v[2]] = Now(Stored, v) \/ Behind(v, l2Cache'[2][v[2]])
    PROVE  CacheTrue(Stored)'
<1>1. Stored.cache = l2Cache /\ Stored'.cache = l2Cache'
  BY DEF Stored
<1>2. ASSUME l2Cache' # <<>>, NEW v \in VCluster, v[1] = l2Cache'[1]
      PROVE  (l2Cache[2][v[2]] = Now(Stored, v) \/ Behind(v, l2Cache[2][v[2]]))'
  <2>1. l2Cache'[2][v[2]] = Now(Stored, v) \/ Behind(v, l2Cache'[2][v[2]])
    BY <1>1, <1>2 DEF CacheTrue
  <2>2. PICK e : e = l2Cache'[2][v[2]]
    OBVIOUS
  <2>3. e = Now(Stored, v) \/ Behind(v, e)
    BY <2>1, <2>2
  <2>4. e = Now(Stored', v) \/ Behind(v, e)'
    BY <2>3
  <2>5. Behind(v, e)' => Behind(v, l2Cache[2][v[2]])'
    BY <2>2 DEF Behind
  <2>6. QED
    BY <2>2, <2>4, <2>5
<1>3. QED
  BY <1>1, <1>2 DEF CacheTrue

LEMMA L2CacheKept ==
    ASSUME NEW t \in Threads, Moving(t), ~LookupL2(t), ~(t \in Writers /\ ForgetL2(t))
    PROVE  l2Cache' = l2Cache
  BY DEF Moving, Lookup, WriteStep, LookupL1, Undecodable, DeviceError, StartWrite, TakeWriteLock,
     PlanInPlace, PlanReallocate, WriteInPlace, Allocate, NoRoom, FlushAllocate, Fill, FlushFill,
     Repoint, Zero, FlushZero, CopyTable, FlushCopy, WriteL1, FlushL1, WriteEntry, FlushEntry,
     ForgetData, WriteRelease, FlushRelease, ReleaseFails, NextChunk, EndWrite, FlushThen, memory,
     StartRead, ReadStep, Fetch, Store, EndRead

(* What a thread's step changes.                                           *)
LEMMA ThreadEffect ==
    ASSUME Typed, Serial, ReadingInv, NothingFreed, NEW t \in Threads, Moving(t)
    PROVE  /\ t \in Writers => Effect(Stored, Stored', pc[t], reg[t])
           /\ t \notin Writers => Effect(Stored, Stored', "idle", reg[t])
           /\ \A v \in VCluster :
                Now(Stored', v) = Now(Stored, v) \/ (t \in Writers /\ pc[t] = "entry" /\ v = reg[t].at)
<1>1. t \in Writers => t \notin Readers
  BY WriteAssumption
<1>2. CASE t \in Writers
  <2>1. Effect(Stored, Stored', pc[t], reg[t])
    BY <1>1, <1>2, WriterEffect DEF Moving
  <2>2. QED
    BY <1>2, <2>1 DEF Effect
<1>3. CASE t \notin Writers
  <2>1. t \in Readers
    BY <1>3 DEF Threads
  <2>2. Effect(Stored, Stored', "idle", reg[t])
    BY <1>3, <2>1, ReaderEffect DEF Moving, ReadingInv
  <2>3. QED
    BY <1>3, <2>2 DEF Effect
<1>4. QED
  BY <1>2, <1>3

(* The entry written is the only one that changes, and its writer knows    *)
(* what it was.                                                            *)
LEMMA EntryBehind ==
    ASSUME Typed, ReadingInv, NEW t \in Writers, Moving(t), faults' = 0, pc[t] = "entry",
           NEW e, e = Now(Stored, reg[t].at)
    PROVE  WriteEntry(t) /\ Behind(reg[t].at, e)' /\ pc'[t] = "entryFlush" /\ reg'[t] = reg[t]
<1>1. t \in Threads /\ t \notin Readers /\ ~DeviceError(t)
  BY WriteAssumption, NoFault DEF Threads, DeviceError
<1>2. WriteEntry(t)
  BY <1>1 DEF Moving, Lookup, LookupL1, LookupL2, Undecodable, StartWrite, WriteStep,
     TakeWriteLock, PlanInPlace, PlanReallocate, WriteInPlace, Allocate, NoRoom, FlushAllocate,
     Fill, FlushFill, Repoint, Zero, FlushZero, CopyTable, FlushCopy, WriteL1, FlushL1, FlushEntry,
     ForgetL2, ForgetData, WriteRelease, FlushRelease, ReleaseFails, ReleaseSteps, NextChunk,
     EndWrite
<1>3. pc'[t] = "entryFlush" /\ reg'[t] = reg[t]
  BY <1>1, <1>2, MovesAlone, NoFault DEF WriteEntry, Written, WrittenTo
<1>4. Copying(pc[t], reg[t])
  BY DEF Copying, HasNew, FilledSteps
<1>5. \E b \in BOOLEAN : reg[t].map = MapOf(e, b)
  BY <1>4, AtHand DEF Doing, FindsNow
<1>6. QED
  BY <1>2, <1>3, <1>5 DEF Behind

LEMMA CacheNext ==
    ASSUME Typed, Serial, ReadingInv, NothingFreed, NEW t \in Threads, Moving(t), faults' = 0
    PROVE  CacheTrue(Stored)'
<1>1. CacheTrue(Stored) /\ L1Kept
  BY DEF ReadingInv
<1>2. CASE t \in Writers /\ ForgetL2(t)
  <2>1. l2Cache' = <<>>
    BY <1>1, <1>2, RecachedBy
  <2>2. QED
    BY <2>1 DEF CacheTrue, Stored
<1>3. CASE ~(t \in Writers /\ ForgetL2(t))
  <2>1. \A v, e : Behind(v, e) => Behind(v, e)'
    BY <1>3, BehindStays
  <2>2. ASSUME NEW v \in VCluster, NEW e, e = Now(Stored, v)
        PROVE  e = Now(Stored', v) \/ Behind(v, e)'
    <3>1. CASE t \in Writers /\ pc[t] = "entry" /\ v = reg[t].at
      BY <2>2, <3>1, EntryBehind
    <3>2. CASE ~(t \in Writers /\ pc[t] = "entry" /\ v = reg[t].at)
      BY <2>2, <3>2, ThreadEffect
    <3>3. QED
      BY <3>1, <3>2
  <2>3. \/ l2Cache' = l2Cache
        \/ /\ l2Cache' # <<>>
           /\ \A v \in VCluster : v[1] = l2Cache'[1] =>
                 l2Cache'[2][v[2]] = Now(Stored, v) \/ Behind(v, l2Cache'[2][v[2]])
    <3>1. CASE LookupL2(t)
      <4>1. /\ l2Cache' # <<>> /\ l2Cache'[1] = reg[t].at[1]
            /\ \A v \in VCluster : v[1] = reg[t].at[1] =>
                l2Cache'[2][v[2]] = Now(Stored, v) \/ Behind(v, l2Cache'[2][v[2]])
        BY <1>1, <3>1, CachedTrue
      <4>2. QED
        BY <4>1
    <3>2. CASE ~LookupL2(t)
      BY <1>3, <3>2, L2CacheKept
    <3>3. QED
      BY <3>1, <3>2
  <2>4. QED
    BY <1>1, <2>1, <2>2, <2>3, CacheAfter
<1>4. QED
  BY <1>2, <1>3

(* Only a lookup of the L1 table leads to one of the L2 table.             *)
LEMMA ToL2 ==
    ASSUME Typed, NEW t \in Threads, Moving(t), ~LookupL1(t)
    PROVE  pc'[t] # "l2"
<1>1. (\A step : Go(t, step) => pc'[t] = step) /\ (Leave(t) => pc'[t] = "idle")
  BY MovesAlone
<1>2. CASE LookupL2(t) \/ Undecodable(t) \/ DeviceError(t)
  BY <1>1, <1>2 DEF LookupL2, Undecodable, DeviceError, Looked
<1>3. CASE t \in Readers /\ (StartRead(t) \/ ReadStep(t))
  BY <1>1, <1>3 DEF StartRead, ReadStep, Fetch, Store, EndRead
<1>4. CASE t \in Writers /\ Flushes(t)
  <2>1. pc[t] = "allocateFlush" => reg[t].why \in {"data", "table", "copy"}
    BY TypedParts DEF LocalsGood, GoodAt
  <2>2. QED
    BY <1>1, <1>4, <2>1 DEF Flushes, FlushThen, FlushAllocate, FlushFill, FlushZero,
       FlushCopy, FlushEntry, FlushRelease, AfterRelease
<1>5. CASE t \in Writers /\ (\/ WriteInPlace(t) \/ Fill(t) \/ WriteL1(t) \/ WriteEntry(t) \/ Zero(t)
                             \/ CopyTable(t) \/ NoRoom(t) \/ EndWrite(t) \/ Allocate(t))
  BY <1>1, <1>5 DEF WriteInPlace, Fill, WriteL1, WriteEntry, Zero, CopyTable, Written, WrittenTo,
     NoRoom, EndWrite, Allocate
<1>6. CASE t \in Writers /\ (\/ StartWrite(t) \/ TakeWriteLock(t) \/ PlanInPlace(t)
                             \/ PlanReallocate(t) \/ Repoint(t) \/ FlushL1(t) \/ ForgetL2(t)
                             \/ ForgetData(t) \/ WriteRelease(t) \/ ReleaseFails(t) \/ NextChunk(t))
  BY <1>1, <1>6 DEF StartWrite, TakeWriteLock, PlanInPlace, PlanReallocate, Repoint, FlushL1, ForgetL2,
     ForgetData, WriteRelease, ReleaseFails, NextChunk, AfterRelease
<1>7. QED
  BY <1>2, <1>3, <1>4, <1>5, <1>6 DEF Moving, Lookup, WriteStep, Flushes

LEMMA L1Moves ==
    ASSUME NEW t \in Threads, Moving(t), ~(t \in Writers /\ FlushL1(t))
    PROVE  l1' = l1
  BY DEF Moving, Lookup, WriteStep, LookupL1, LookupL2, Undecodable, DeviceError, StartWrite,
     TakeWriteLock, PlanInPlace, PlanReallocate, WriteInPlace, Allocate, NoRoom, FlushAllocate,
     Fill, FlushFill, Repoint, Zero, FlushZero, CopyTable, FlushCopy, WriteL1, WriteEntry,
     FlushEntry, ForgetL2, ForgetData, WriteRelease, FlushRelease, ReleaseFails, NextChunk, EndWrite,
     FlushThen, memory, StartRead, ReadStep, Fetch, Store, EndRead

LEMMA L1KeptNext ==
    ASSUME Typed, ReadingInv, NEW t \in Threads, Moving(t)
    PROVE  L1Kept'
<1> SUFFICES ASSUME NEW u \in Threads, pc'[u] = "l2"
             PROVE  reg'[u].l1Entry = l1'[reg'[u].at[1]]
  BY DEF L1Kept
<1>1. reg[u] \in Local /\ reg[u].at[1] \in L1Index
  BY TypedParts DEF Local, VCluster
<1>2. CASE u = t
  <2>1. LookupL1(t)
    BY <1>2, ToL2
  <2>2. ~Leave(t)
    BY <1>2, MovesAlone
  <2>3. reg'[t] = [reg[t] EXCEPT !.l1Entry = l1[reg[t].at[1]], !.map = Unallocated]
    BY <2>1, <2>2, MovesAlone DEF LookupL1
  <2>4. reg'[t].l1Entry = l1[reg[t].at[1]] /\ reg'[t].at = reg[t].at
    BY <1>1, <1>2, <2>3 DEF Local
  <2>5. l1' = l1
    BY <2>1 DEF LookupL1, memory
  <2>6. QED
    BY <1>2, <2>4, <2>5
<1>3. CASE u # t
  <2>1. pc'[u] = pc[u] /\ reg'[u] = reg[u]
    BY <1>3, MovesAlone
  <2>2. reg[u].l1Entry = l1[reg[u].at[1]] /\ reg[u].l1Entry.at \in Cluster
    BY <2>1, TypedParts DEF ReadingInv, L1Kept, LocalsGood, GoodAt
  <2>3. CASE ~(t \in Writers /\ FlushL1(t))
    BY <2>1, <2>2, <2>3, L1Moves
  <2>4. CASE t \in Writers /\ FlushL1(t)
    <3>1. pc[t] = "l1Flush" /\ l1' = [l1 EXCEPT ![reg[t].at[1]] = L1EntryFor(reg[t].table)]
      BY <2>4 DEF FlushL1
    <3>2. l1[reg[t].at[1]].at = None
      BY <2>4, <3>1, AtHand DEF Doing, Stored
    <3>3. reg[u].at[1] # reg[t].at[1]
      BY <2>2, <3>2, Numbers
    <3>4. l1 \in [L1Index -> L1Entry]
      BY TypedParts DEF StoreTyped
    <3>5. l1'[reg[u].at[1]] = l1[reg[u].at[1]]
      BY <1>1, <3>1, <3>3, <3>4
    <3>6. QED
      BY <2>1, <2>2, <3>5
  <2>5. QED
    BY <2>3, <2>4
<1>4. QED
  BY <1>2, <1>3

(***************************************************************************)
(* The decompressed cluster in the cache                                   *)
(***************************************************************************)
LEMMA OpenedIn ==
    ASSUME NEW s, IsStore(s), NEW v \in VCluster
    PROVE  Opened(s, v) \in L2Entry
<1>1. s.img.dev \in Device /\ v[1] \in L1Index /\ v[2] \in L2Index
  BY DEF IsStore, Image, VCluster
<1>2. QED
  BY <1>1, EntriesTyped DEF Opened, EntryAt, Targets, Device

LEMMA CompressedWords ==
    ASSUME NEW data, NEW backing, NEW v, NEW map, map.case = "Compressed"
    PROVE  ClusterWords(data, backing, v, map) = Decompressed(data, map)
  BY DEF ClusterWords

LEMMA PayloadWords ==
    ASSUME NEW s, IsStore(s), PayloadsStay(s), NEW v \in VCluster, IsPayload(Opened(s, v)),
           NEW b \in BOOLEAN, NEW map, map = MapOf(Opened(s, v), b),
           NEW len \in 0 .. Clusters, Placed(map, len)
    PROVE  /\ ClusterWords(s.dev.data, s.img.backing, v, map) = PayloadOf(s, v)
           /\ Decompressed(s.dev.data, map) = PayloadOf(s, v)
           /\ OfPayload(s, map.host) /\ OfPayload(s, map.last)
<1> DEFINE e == Opened(s, v)
           once == MapOf(e, FALSE)
           was == s.img.dev.data
<1>1. e \in L2Entry
  BY OpenedIn
<1>2. /\ map \in ClusterMap /\ map.case = "Compressed"
      /\ map.host = e.at /\ map.last = LastOf(e) /\ map.part = e.part
      /\ once.host = e.at /\ once.last = LastOf(e) /\ once.part = e.part
  BY <1>1, MapOfEntry, MapTyped
<1>3. map.host \in Cluster /\ map.last \in Cluster
  BY <1>2, PlacedInCluster
<1>4. OfPayload(s, map.host) /\ OfPayload(s, map.last)
  BY <1>2 DEF OfPayload, Reaches
<1>5. s.dev.data[map.host] = was[map.host] /\ s.dev.data[map.last] = was[map.last]
  BY <1>3, <1>4 DEF PayloadsStay
<1>6. Decompressed(s.dev.data, map) = Decompressed(was, map)
  BY <1>5, PayloadSame
<1>7. Decompressed(was, map) = Decompressed(was, once)
  <2>1. map.host = once.host /\ map.last = once.last /\ map.part = once.part
    BY <1>2
  <2> HIDE DEF once, was
  <2>2. QED
    BY <2>1, PayloadPlace
<1>8. Decompressed(s.dev.data, map) = PayloadOf(s, v)
  BY <1>6, <1>7 DEF PayloadOf
<1>9. ClusterWords(s.dev.data, s.img.backing, v, map) = Decompressed(s.dev.data, map)
  BY <1>2, CompressedWords
<1>10. QED
  BY <1>4, <1>8, <1>9

(* A payload that is found is the one the image was opened with.           *)
LEMMA FoundOpened ==
    ASSUME NEW s, IsStore(s), OnlyStandardMade(s), NEW v \in VCluster, IsPayload(Now(s, v))
    PROVE  Now(s, v) = Opened(s, v) /\ IsPayload(Opened(s, v))
<1>1. Now(s, v) \in L2Entry /\ (Now(s, v) = NoEntry \/ Has(s, v, Now(s, v)))
  BY NowFacts
<1>2. Now(s, v) # NoEntry /\ Now(s, v).kind # "standard"
  BY MadeStandard DEF IsPayload
<1>3. QED
  BY <1>1, <1>2 DEF OnlyStandardMade

LEMMA SeedOpened ==
    ASSUME Typed, ReadingInv, NEW t \in Writers, pc[t] = "plan", reg[t].map.case = "Compressed"
    PROVE  /\ IsPayload(Opened(Stored, reg[t].at))
           /\ Seed(reg[t].at, reg[t].map) = PayloadOf(Stored, reg[t].at)
<1> DEFINE s == Stored
           r == reg[t]
           e == Now(s, r.at)
<1>1. IsStore(s) /\ Apart(s) /\ r.at \in VCluster /\ FindsNow(s, r) /\ Placed(r.map, imageLen)
  BY AtHand DEF Doing, LocalsGood, GoodAt
<1>2. imageLen \in 0 .. Clusters
  BY TypedParts
<1>3. PICK b \in BOOLEAN : r.map = MapOf(e, b)
  BY <1>1 DEF FindsNow
<1>4. IsPayload(e)
  BY <1>1, <1>3, NowFacts, MapOfEntry
<1>5. e = Opened(s, r.at) /\ IsPayload(Opened(s, r.at))
  BY <1>1, <1>4, FoundOpened DEF Apart
<1>6. ClusterWords(s.dev.data, s.img.backing, r.at, r.map) = PayloadOf(s, r.at)
  BY <1>1, <1>2, <1>3, <1>5, PayloadWords DEF Apart
<1>7. DeCached(r.at) => deCache[2] = PayloadOf(s, r.at)
  BY DEF DeCached, ReadingInv, DeTrue
<1>8. s.dev.data = dev.data /\ s.img.backing = img.backing
  BY DEF Stored
<1>9. QED
  BY <1>5, <1>6, <1>7, <1>8 DEF Seed

LEMMA DeCacheMoves ==
    ASSUME NEW t \in Threads, Moving(t)
    PROVE  \/ deCache' = deCache \/ deCache' = <<>>
           \/ t \in Writers /\ PlanReallocate(t)
           \/ t \in Readers /\ Store(t)
  BY DEF Moving, Lookup, WriteStep, LookupL1, LookupL2, Undecodable, DeviceError, StartWrite,
     TakeWriteLock, PlanInPlace, WriteInPlace, Allocate, NoRoom, FlushAllocate, Fill, FlushFill,
     Repoint, Zero, FlushZero, CopyTable, FlushCopy, WriteL1, FlushL1, WriteEntry, FlushEntry,
     ForgetL2, ForgetData, WriteRelease, FlushRelease, ReleaseFails, NextChunk, EndWrite, FlushThen,
     memory, StartRead, ReadStep, Fetch, EndRead

LEMMA DeCacheNext ==
    ASSUME Typed, ReadingInv, NEW t \in Threads, Moving(t), img' = img
    PROVE  DeTrue(Stored', deCache')
<1>1. /\ \A v : Opened(Stored', v) = Opened(Stored, v)
      /\ \A v : PayloadOf(Stored', v) = PayloadOf(Stored, v)
  <2>1. Stored'.img = Stored.img
    BY DEF Stored
  <2>2. QED
    BY <2>1, OpenedSame
<1>2. CASE deCache' = deCache \/ deCache' = <<>>
  BY <1>1, <1>2 DEF ReadingInv, DeTrue
<1>3. CASE t \in Writers /\ PlanReallocate(t)
  <2>1. /\ pc[t] = "plan"
        /\ deCache' = IF reg[t].map.case = "Compressed"
                      THEN <<reg[t].at, Seed(reg[t].at, reg[t].map)>> ELSE deCache
    BY <1>3 DEF PlanReallocate
  <2>2. CASE reg[t].map.case = "Compressed"
    <3>1. deCache' # <<>> /\ deCache'[1] = reg[t].at /\ deCache'[2] = Seed(reg[t].at, reg[t].map)
      BY <2>1, <2>2
    <3>2. IsPayload(Opened(Stored, reg[t].at)) /\ Seed(reg[t].at, reg[t].map) = PayloadOf(Stored, reg[t].at)
      BY <1>3, <2>1, <2>2, SeedOpened
    <3>3. QED
      BY <1>1, <3>1, <3>2 DEF DeTrue
  <2>3. QED
    BY <1>2, <2>1, <2>2
<1>4. CASE t \in Readers /\ Store(t)
  <2>1. pc[t] = "store" /\ deCache' = <<reg[t].at, reg[t].full>>
    BY <1>4 DEF Store
  <2>2. IsPayload(Opened(Stored, reg[t].at)) /\ reg[t].full = PayloadOf(Stored, reg[t].at)
    BY <1>4, <2>1 DEF ReadingInv, Holding
  <2>3. deCache' # <<>> /\ deCache'[1] = reg[t].at /\ deCache'[2] = reg[t].full
    BY <2>1
  <2>4. QED
    BY <1>1, <2>2, <2>3 DEF DeTrue
<1>5. QED
  BY <1>2, <1>3, <1>4, DeCacheMoves

(***************************************************************************)
(* What a writer carries                                                   *)
(***************************************************************************)
Unburdened == {"idle", "lock", "l1", "l2", "next", "entryFlush", "forgetL2", "forgetData"} \cup ReleaseSteps

LEMMA StepHolds ==
    ASSUME NEW r
    PROVE  /\ \A step \in {"plan", "inPlace"} :
                ~HoldsNew(step, r) /\ ~HoldsTable(step, r) /\ ~ForTable(step, r)
           /\ /\ HoldsNew("allocate", r) <=> r.why # "data"
              /\ ~TakesData("allocate", r) /\ ~HoldsTable("allocate", r) /\ Copying("allocate", r)
              /\ ForTable("allocate", r) <=> r.why # "data"
           /\ /\ HoldsNew("allocateFlush", r) /\ Copying("allocateFlush", r)
              /\ TakesData("allocateFlush", r) <=> r.why = "data"
              /\ HoldsTable("allocateFlush", r) <=> r.why # "data"
              /\ ForTable("allocateFlush", r) <=> r.why # "data"
           /\ \A step \in {"fill", "fillFlush", "repoint", "zero", "zeroFlush", "l1Write",
                           "l1Flush", "entry"} :
                /\ HoldsNew(step, r) /\ ~TakesData(step, r) /\ Copying(step, r) /\ ~ForTable(step, r)
                /\ HoldsTable(step, r) <=> step \in {"zero", "zeroFlush", "l1Write"}
           /\ r.why # "copy" => \A step \in Unburdened :
                /\ ~HoldsNew(step, r) /\ ~HoldsTable(step, r) /\ ~Copying(step, r)
                /\ ~ForTable(step, r)
  BY DEF HoldsNew, HasNew, TakesData, HoldsTable, FilledSteps, ShadowSteps, ForTable, AfterCopy, Copying,
     ReleaseSteps, Unburdened

LEMMA UnburdenedDoing ==
    ASSUME NEW s, NEW step \in Unburdened, NEW r, r.why # "copy"
    PROVE  Doing(s, step, r)
<1>1. step \notin {"copy", "copyFlush", "plan", "inPlace", "zero", "zeroFlush", "l1Write", "l1Flush",
                   "entry"}
  BY DEF Unburdened, ReleaseSteps
<1>2. QED
  BY <1>1, StepHolds DEF Doing

(* Another actor's step, or a flush: what a writer carries stays.          *)
LEMMA DoingStands ==
    ASSUME NEW s, NEW x, NEW step, NEW r \in Local, Doing(s, step, r), Effect(s, x, "idle", r),
           x.l1 = s.l1, x.dev = s.dev, x.durable \in {s.dev, s.durable}
    PROVE  Doing(x, step, r)
<1>1. \A c \in Cluster : Vacant(s, c) => Vacant(x, c)
  BY VacantStays
<1>2. Now(x, r.at) = Now(s, r.at)
  BY DEF Effect, Local
<1>3. FindsNow(s, r) => FindsNow(x, r)
  BY <1>2 DEF FindsNow
<1>4. \A c \in Cluster : s.dev.rc[c] > 0 /\ s.durable.rc[c] > 0 => x.durable.rc[c] > 0
  OBVIOUS
<1>5. \A c \in Cluster : s.dev.rc[c] = 1 /\ s.durable.rc[c] = 1 => x.durable.rc[c] = 1
  OBVIOUS
<1>6. s.dev.table[r.table] = EmptyTable /\ s.durable.table[r.table] = EmptyTable =>
          x.durable.table[r.table] = EmptyTable
  OBVIOUS
<1>7. /\ r.why # "copy" /\ step \notin {"copy", "copyFlush"}
      /\ step \in {"plan", "inPlace"} \/ Copying(step, r) => FindsNow(x, r)
  BY <1>3 DEF Doing
<1>8. HoldsNew(step, r) =>
        /\ r.new \in Cluster /\ Vacant(x, r.new) /\ x.dev.rc[r.new] > 0
        /\ ~TakesData(step, r) => x.durable.rc[r.new] > 0
  BY <1>1, <1>4 DEF Doing
<1>9. HoldsTable(step, r) =>
        /\ r.table \in Cluster /\ Vacant(x, r.table) /\ x.dev.rc[r.table] = 1
        /\ r.table # r.new
        /\ step # "allocateFlush" => x.durable.rc[r.table] = 1
  BY <1>1, <1>5 DEF Doing
<1>10. /\ step \in {"zeroFlush", "l1Write", "l1Flush"} => x.dev.table[r.table] = EmptyTable
       /\ step \in {"l1Write", "l1Flush"} => x.durable.table[r.table] = EmptyTable
  BY <1>6 DEF Doing
<1>11. QED
  BY <1>7, <1>8, <1>9, <1>10 DEF Doing

(* Of a writer at work: its mapping, and what it has taken.                *)
LEMMA FindsStays ==
    ASSUME NEW s, NEW x, NEW step, NEW r, r.at \in VCluster, Effect(s, x, step, r), step # "entry",
           FindsNow(s, r), NEW q, q.at = r.at, q.map = r.map
    PROVE  FindsNow(x, q)
  BY DEF Effect, FindsNow

LEMMA NewStaysHeld ==
    ASSUME NEW s, NEW x, NEW step, NEW r, Effect(s, x, step, r), Doing(s, step, r),
           HoldsNew(step, r), step # "entry"
    PROVE  /\ r.new \in Cluster /\ Vacant(x, r.new) /\ x.dev.rc[r.new] > 0
           /\ ~TakesData(step, r) => x.durable.rc[r.new] > 0
<1>1. /\ r.new \in Cluster /\ Vacant(s, r.new) /\ s.dev.rc[r.new] > 0
      /\ ~TakesData(step, r) => Counted(s, r.new)
  BY DEF Doing, Counted
<1>2. step = "l1Write" => r.new # r.table
  BY StepHolds DEF Doing
<1>3. Vacant(x, r.new)
  BY <1>1, <1>2, VacantStays
<1>4. QED
  BY <1>1, <1>3 DEF Effect, CountsStay, CountsLast, Counted

LEMMA TableStaysHeld ==
    ASSUME NEW s, NEW x, NEW step, NEW r, Effect(s, x, step, r), Doing(s, step, r),
           HoldsTable(step, r), step # "l1Write"
    PROVE  r.table \in Cluster /\ Vacant(x, r.table) /\ r.table # r.new
<1>1. step # "entry"
  BY DEF HoldsTable
<1>2. r.table \in Cluster /\ Vacant(s, r.table) /\ r.table # r.new
  BY DEF Doing
<1>3. QED
  BY <1>1, <1>2, VacantStays

LEMMA LeavesUnburdened ==
    ASSUME Typed, NEW t \in Writers, faults' = 0, reg[t].why # "copy",
           \/ Undecodable(t) \/ DeviceError(t) \/ StartWrite(t) \/ TakeWriteLock(t) \/ NoRoom(t)
           \/ NextChunk(t) \/ EndWrite(t) \/ WriteEntry(t) \/ FlushEntry(t) \/ ForgetL2(t)
           \/ WriteInPlace(t) \/ ForgetData(t) \/ WriteRelease(t) \/ FlushRelease(t)
           \/ ReleaseFails(t)
    PROVE  pc'[t] \in Unburdened /\ reg'[t].why # "copy"
<1>1. /\ \A step : Go(t, step) => pc'[t] = step
      /\ \A locals : Set(t, locals) => reg'[t] = locals
      /\ UNCHANGED reg => reg'[t] = reg[t]
  BY GoSet
<1>2. Leave(t) => pc'[t] = "idle" /\ reg'[t].why # "copy"
  BY <1>1, BlankTyped DEF Leave
<1>3. reg[t] \in Local /\ Blank \in Local /\ Blank.why = "data"
  BY TypedParts, BlankTyped
<1>4. CASE Undecodable(t) \/ DeviceError(t) \/ NoRoom(t) \/ EndWrite(t)
  BY <1>2, <1>4 DEF Unburdened, Undecodable, DeviceError, NoRoom, EndWrite
<1>5. CASE StartWrite(t)
  <2>1. PICK a \in CallRange :
            reg'[t] = [Blank EXCEPT !.range = a, !.at = a.first, !.val = FirstValue + writes]
    BY <1>1, <1>5 DEF StartWrite
  <2>2. reg'[t].why = "data"
    BY <1>3, <2>1 DEF Local
  <2>3. QED
    BY <1>1, <1>5, <2>2 DEF StartWrite, Unburdened
<1>6. CASE ForgetData(t) \/ NextChunk(t)
  <2>1. reg'[t].why \in {"release", reg[t].why}
    BY <1>1, <1>3, <1>6 DEF ForgetData, NextChunk, Local
  <2>2. QED
    BY <1>1, <1>6, <2>1 DEF ForgetData, NextChunk, Unburdened, ReleaseSteps
<1>7. CASE TakeWriteLock(t) \/ FlushEntry(t) \/ ForgetL2(t) \/ WriteRelease(t) \/ FlushRelease(t)
           \/ ReleaseFails(t)
  BY <1>1, <1>7 DEF TakeWriteLock, FlushEntry, ForgetL2, WriteRelease, FlushRelease, ReleaseFails,
     AfterRelease, FlushThen, Unburdened, ReleaseSteps
<1>8. CASE WriteEntry(t) \/ WriteInPlace(t)
  BY <1>1, <1>2, <1>8 DEF WriteEntry, WriteInPlace, Written, WrittenTo, Unburdened
<1>9. QED
  BY <1>4, <1>5, <1>6, <1>7, <1>8

(***************************************************************************)
(* What a writer carries after a step of its own                           *)
(***************************************************************************)
DoingOn(t) == Doing(Stored', pc'[t], reg'[t])

LEMMA PlanDoing ==
    ASSUME NEW s, NEW step \in {"plan", "inPlace"}, NEW r, r.why # "copy", FindsNow(s, r)
    PROVE  Doing(s, step, r)
<1>1. /\ ~HoldsNew(step, r) /\ ~HoldsTable(step, r) /\ ~ForTable(step, r)
      /\ step \notin {"copy", "copyFlush", "zero", "zeroFlush", "l1Write", "l1Flush", "entry"}
  BY StepHolds
<1>2. QED
  BY <1>1 DEF Doing

LEMMA WhyNotCopy ==
    ASSUME Typed, ReadingInv, NEW t \in Writers
    PROVE  reg[t].why # "copy"
  BY AtHand DEF Doing

LEMMA LookupDoing ==
    ASSUME Typed, Serial, ReadingInv, NEW t \in Writers, LookupL1(t) \/ LookupL2(t)
    PROVE  DoingOn(t)
<1> DEFINE r == reg[t]
           q == reg'[t]
<1>1. /\ t \in Threads /\ r \in Local /\ r.why # "copy" /\ r.at \in VCluster
      /\ Blank.why # "copy" /\ LocalsGood(t)
  BY AtHand, WhyNotCopy, BlankTyped
<1>2. /\ \A step : Go(t, step) => pc'[t] = step
      /\ \A locals : Set(t, locals) => reg'[t] = locals
  BY GoSet
<1>3. CASE Leave(t)
  <2>1. pc'[t] \in Unburdened /\ q.why # "copy"
    BY <1>1, <1>2, <1>3 DEF Leave, Unburdened
  <2>2. QED
    BY <2>1, UnburdenedDoing DEF DoingOn
<1>4. CASE LookupL1(t) /\ ~Leave(t)
  <2> DEFINE entry == l1[r.at[1]]
  <2>1. /\ q = [r EXCEPT !.l1Entry = entry, !.map = Unallocated]
        /\ pc'[t] = IF entry.at = None THEN "plan" ELSE "l2"
    BY <1>2, <1>4 DEF LookupL1, Looked
  <2>2. q.at = r.at /\ q.why = r.why /\ q.map = Unallocated
    BY <1>1, <2>1 DEF Local
  <2>3. Stored' = Stored
    BY <1>4, CalmStores DEF Calm
  <2>4. CASE entry.at = None
    <3>1. Now(Stored, q.at) = NoEntry
      <4>1. Stored.l1[r.at[1]].at \notin Cluster
        BY <2>4, Numbers DEF Stored
      <4>2. QED
        BY <1>1, <2>2, <4>1, NowIs
    <3>2. FindsNow(Stored', q)
      BY <2>2, <2>3, <3>1 DEF FindsNow, Unallocated
    <3>3. pc'[t] = "plan" /\ q.why # "copy"
      BY <1>1, <2>1, <2>2, <2>4
    <3> HIDE DEF q
    <3>4. Doing(Stored', "plan", q)
      BY <3>2, <3>3, PlanDoing
    <3>5. QED
      BY <3>3, <3>4 DEF DoingOn, q
  <2>5. CASE entry.at # None
    <3>1. pc'[t] \in Unburdened
      BY <2>1, <2>5 DEF Unburdened
    <3>2. QED
      BY <1>1, <2>2, <3>1, UnburdenedDoing DEF DoingOn
  <2>6. QED
    BY <2>4, <2>5
<1>5. CASE LookupL2(t) /\ ~Leave(t)
  <2> DEFINE v == r.at
             b == r.l1Entry.copied
  <2>1. pc[t] = "l2" /\ l2Cache' = Cached(v[1], r.l1Entry.at)
    BY <1>5 DEF LookupL2
  <2>2. q = [r EXCEPT !.map = MapOf(l2Cache'[2][v[2]], b)] /\ pc'[t] = "plan"
    BY <1>2, <1>5, <2>1 DEF LookupL2, Looked
  <2>3. q.at = v /\ q.why = r.why /\ q.map = MapOf(l2Cache'[2][v[2]], b) /\ b \in BOOLEAN
    BY <1>1, <2>2 DEF Local, L1Entry
  <2>4. l2Cache'[2][v[2]] = Now(Stored, v) \/ Behind(v, l2Cache'[2][v[2]])
    BY <1>1, <1>5, CachedTrue DEF ReadingInv
  <2>5. ~Behind(v, l2Cache'[2][v[2]])
    BY <2>1, NothingBehind
  <2>6. Now(Stored', v) = Now(Stored, v)
    <3>1. Recached(Stored, Stored')
      BY <1>1, <1>5, RecachedBy DEF ReadingInv
    <3>2. QED
      BY <1>1, <3>1, TablesNow DEF Recached, SameNow
  <2>7. FindsNow(Stored', q)
    BY <2>3, <2>4, <2>5, <2>6 DEF FindsNow
  <2>8. QED
    BY <1>1, <2>2, <2>3, <2>7, PlanDoing DEF DoingOn
<1>6. QED
  BY <1>3, <1>4, <1>5

LEMMA PlanningDoing ==
    ASSUME Typed, ReadingInv, NEW t \in Writers, PlanInPlace(t) \/ PlanReallocate(t)
    PROVE  DoingOn(t)
<1> DEFINE r == reg[t]
           q == reg'[t]
<1>1. r \in Local /\ r.why # "copy" /\ Doing(Stored, pc[t], r) /\ pc[t] = "plan" /\ Stored' = Stored
  BY AtHand, WhyNotCopy, CalmStores DEF PlanInPlace, PlanReallocate, Calm
<1>2. FindsNow(Stored', r)
  BY <1>1 DEF Doing
<1>3. CASE PlanInPlace(t)
  <2>1. pc'[t] = "inPlace" /\ q = r
    BY <1>3, GoSet DEF PlanInPlace
  <2>2. QED
    BY <1>1, <1>2, <2>1, PlanDoing DEF DoingOn
<1>4. CASE PlanReallocate(t)
  <2> DEFINE full == Spliced(Seed(r.at, r.map), r.range, r.at, r.val)
             old == ReleaseOf(r.map)
  <2>1. q = [r EXCEPT !.full = full, !.old = old, !.why = "data"]
    BY <1>4, GoSet DEF PlanReallocate
  <2> HIDE DEF full, old
  <2>2. pc'[t] = "allocate" /\ q.at = r.at /\ q.map = r.map /\ q.why = "data"
    BY <1>1, <1>4, <2>1, GoSet DEF PlanReallocate, Local
  <2>3. FindsNow(Stored', q)
    BY <1>2, <2>2 DEF FindsNow
  <2>4. ~HoldsNew("allocate", q) /\ ~HoldsTable("allocate", q) /\ ~ForTable("allocate", q)
    BY <2>2, StepHolds
  <2> HIDE DEF q
  <2>5. Doing(Stored', "allocate", q)
    BY <2>2, <2>3, <2>4 DEF Doing
  <2>6. QED
    BY <2>2, <2>5 DEF DoingOn, q
<1>5. QED
  BY <1>3, <1>4

(* What NewStaysHeld and FindsStays say of the writer that moves.          *)
LEMMA Keeps ==
    ASSUME Typed, Serial, ReadingInv, NothingFreed, NEW t \in Writers,
           Lookup(t) \/ DeviceError(t) \/ StartWrite(t) \/ WriteStep(t), pc[t] # "entry"
    PROVE  /\ Effect(Stored, Stored', pc[t], reg[t]) /\ Doing(Stored, pc[t], reg[t])
           /\ reg[t] \in Local /\ reg[t].at \in VCluster /\ reg[t].at[1] \in L1Index
           /\ reg[t].why # "copy"
           /\ pc[t] = "plan" \/ Copying(pc[t], reg[t]) =>
                \A q : q.at = reg[t].at /\ q.map = reg[t].map => FindsNow(Stored', q)
           /\ HoldsNew(pc[t], reg[t]) =>
                /\ reg[t].new \in Cluster /\ Vacant(Stored', reg[t].new)
                /\ Stored'.dev.rc[reg[t].new] > 0
                /\ ~TakesData(pc[t], reg[t]) => Stored'.durable.rc[reg[t].new] > 0
           /\ HoldsTable(pc[t], reg[t]) /\ pc[t] # "l1Write" =>
                /\ reg[t].table \in Cluster /\ Vacant(Stored', reg[t].table)
                /\ reg[t].table # reg[t].new
<1> DEFINE s == Stored
           x == Stored'
           step == pc[t]
           r == reg[t]
<1>1. Effect(s, x, step, r) /\ Doing(s, step, r) /\ r \in Local /\ r.at \in VCluster
      /\ r.at[1] \in L1Index /\ r.why # "copy"
  BY AtHand, WriterEffect, WhyNotCopy
<1> HIDE DEF s, x, step, r
<1>2. ASSUME step = "plan" \/ Copying(step, r), NEW q, q.at = r.at, q.map = r.map
      PROVE  FindsNow(x, q)
  <2>1. FindsNow(s, r) /\ step # "entry"
    BY <1>1, <1>2 DEF Doing, step
  <2>2. QED
    BY <1>1, <1>2, <2>1, FindsStays
<1>3. HoldsNew(step, r) =>
        /\ r.new \in Cluster /\ Vacant(x, r.new) /\ x.dev.rc[r.new] > 0
        /\ ~TakesData(step, r) => x.durable.rc[r.new] > 0
  BY <1>1, NewStaysHeld DEF step
<1>4. HoldsTable(step, r) /\ step # "l1Write" =>
        r.table \in Cluster /\ Vacant(x, r.table) /\ r.table # r.new
  BY <1>1, TableStaysHeld
<1>5. QED
  BY <1>1, <1>2, <1>3, <1>4 DEF s, x, step, r

LEMMA AllocateDoing ==
    ASSUME Typed, Serial, ReadingInv, NothingFreed, NEW t \in Writers, Allocate(t), faults' = 0
    PROVE  DoingOn(t)
<1> DEFINE s == Stored
           x == Stored'
           r == reg[t]
           q == reg'[t]
<1>1. pc[t] = "allocate" /\ (Lookup(t) \/ DeviceError(t) \/ StartWrite(t) \/ WriteStep(t))
  BY DEF Allocate, WriteStep
<1>2. /\ Effect(s, x, "allocate", r) /\ Doing(s, "allocate", r)
      /\ r \in Local /\ r.why # "copy" /\ Apart(s)
      /\ \A p : p.at = r.at /\ p.map = r.map => FindsNow(x, p)
      /\ r.why # "data" =>
          r.new \in Cluster /\ Vacant(x, r.new) /\ s.dev.rc[r.new] > 0 /\ x.dev.rc[r.new] > 0
          /\ x.durable.rc[r.new] > 0 /\ s.l1[r.at[1]].at = None
  BY <1>1, Keeps, StepHolds, AtHand DEF Doing
<1>3. PICK c \in Cluster :
        /\ dev.rc[c] = 0 /\ dev' = [dev EXCEPT !.rc[c] = 1, !.len = Longer(c)]
        /\ q = IF r.why = "data" THEN [r EXCEPT !.new = c] ELSE [r EXCEPT !.table = c]
        /\ pc'[t] = "allocateFlush"
  BY NoFault, GoSet DEF Allocate, FreeCluster
<1>4. s.dev.rc[c] = 0 /\ x.dev.rc[c] = 1 /\ x.l1 = s.l1
  <2>1. dev \in Device /\ dev.rc \in [Cluster -> Nat] /\ l1' = l1
    BY TypedParts DEF StoreTyped, Device, Allocate, memory
  <2>2. dev'.rc[c] = 1
    BY <1>3, <2>1 DEF Device
  <2>3. QED
    BY <1>3, <2>1, <2>2 DEF Stored
<1> HIDE DEF s, x
<1>5. Vacant(x, c)
  <2>1. Vacant(s, c)
    BY <1>2, <1>4, FreeIsVacant
  <2>2. QED
    BY <1>2, <2>1, VacantStays
<1>6. q.at = r.at /\ q.map = r.map /\ q.why = r.why
  BY <1>2, <1>3 DEF Local
<1>7. FindsNow(x, q)
  BY <1>2, <1>6
<1>8. CASE r.why = "data"
  <2>1. q.new = c
    BY <1>2, <1>3, <1>8 DEF Local
  <2>2. q.why = "data"
    BY <1>6, <1>8
  <2> HIDE DEF q
  <2>3. /\ TakesData("allocateFlush", q) /\ ~HoldsTable("allocateFlush", q)
        /\ ~ForTable("allocateFlush", q)
    BY <2>2, StepHolds
  <2>4. x.dev.rc[c] > 0
    BY <1>4
  <2>5. Doing(x, "allocateFlush", q)
    BY <1>5, <1>7, <2>1, <2>2, <2>3, <2>4 DEF Doing
  <2>6. QED
    BY <1>3, <2>5 DEF DoingOn, x, q
<1>9. CASE r.why # "data"
  <2>1. q.table = c /\ q.new = r.new
    BY <1>2, <1>3, <1>9 DEF Local
  <2>2. q.why # "data" /\ q.why # "copy"
    BY <1>2, <1>6, <1>9
  <2>3. c # r.new
    BY <1>2, <1>4, <1>9
  <2>4. x.l1[q.at[1]].at = None
    BY <1>2, <1>4, <1>6, <1>9
  <2>5. /\ q.new \in Cluster /\ Vacant(x, q.new) /\ x.dev.rc[q.new] > 0 /\ x.durable.rc[q.new] > 0
        /\ q.table \in Cluster /\ Vacant(x, q.table) /\ x.dev.rc[q.table] = 1 /\ q.table # q.new
    BY <1>2, <1>4, <1>5, <1>9, <2>1, <2>3
  <2> HIDE DEF q
  <2>6. Doing(x, "allocateFlush", q)
    BY <1>7, <2>2, <2>4, <2>5 DEF Doing
  <2>7. QED
    BY <1>3, <2>6 DEF DoingOn, x, q
<1>10. QED
  BY <1>8, <1>9

(* The locals stay, and the writer moves from one of these steps on.       *)
LEMMA NewDoing ==
    ASSUME NEW x, NEW step \in {"fill", "fillFlush", "repoint"}, NEW r, r.why # "copy",
           FindsNow(x, r), r.new \in Cluster, Vacant(x, r.new), x.dev.rc[r.new] > 0,
           x.durable.rc[r.new] > 0
    PROVE  Doing(x, step, r)
<1>1. /\ ~HoldsTable(step, r) /\ ~ForTable(step, r)
      /\ step \notin {"copy", "copyFlush", "zero", "zeroFlush", "l1Write", "l1Flush", "entry",
                      "plan", "inPlace", "allocateFlush"}
  BY StepHolds
<1>2. QED
  BY <1>1 DEF Doing

LEMMA TableDoing ==
    ASSUME NEW x, NEW step \in {"zero", "zeroFlush", "l1Write", "l1Flush"}, NEW r, r.why # "copy",
           FindsNow(x, r), r.new \in Cluster, Vacant(x, r.new), x.dev.rc[r.new] > 0,
           x.durable.rc[r.new] > 0, x.l1[r.at[1]].at = None,
           step # "l1Flush" =>
               /\ r.table \in Cluster /\ Vacant(x, r.table) /\ r.table # r.new
               /\ x.dev.rc[r.table] = 1 /\ x.durable.rc[r.table] = 1,
           step # "zero" => x.dev.table[r.table] = EmptyTable,
           step \in {"l1Write", "l1Flush"} => x.durable.table[r.table] = EmptyTable,
           step = "l1Flush" => x.dev.l1[r.at[1]] = L1EntryFor(r.table)
    PROVE  Doing(x, step, r)
<1>1. /\ HoldsTable(step, r) <=> step # "l1Flush"
      /\ step \notin {"copy", "copyFlush", "entry", "plan", "inPlace", "allocateFlush"}
  BY StepHolds
<1>2. QED
  BY <1>1 DEF Doing

LEMMA FlushDoing ==
    ASSUME Typed, Serial, ReadingInv, NothingFreed, NEW t \in Writers,
           FlushAllocate(t) \/ FlushFill(t) \/ FlushZero(t)
    PROVE  DoingOn(t)
<1> DEFINE s == Stored
           x == Stored'
           r == reg[t]
<1>1. Lookup(t) \/ DeviceError(t) \/ StartWrite(t) \/ WriteStep(t)
  BY DEF WriteStep
<1>2. /\ pc[t] \in {"allocateFlush", "fillFlush", "zeroFlush"} /\ reg'[t] = r
      /\ x.dev = s.dev /\ x.durable = s.dev /\ x.l1 = s.l1
  BY GoSet DEF FlushAllocate, FlushFill, FlushZero, FlushThen, Stored, memory
<1>3. HoldsNew(pc[t], r) /\ Copying(pc[t], r)
  BY <1>2, StepHolds
<1>4. /\ Doing(s, pc[t], r) /\ r \in Local /\ r.why # "copy" /\ FindsNow(x, r)
      /\ r.new \in Cluster /\ Vacant(x, r.new) /\ x.dev.rc[r.new] > 0
      /\ HoldsTable(pc[t], r) => r.table \in Cluster /\ Vacant(x, r.table) /\ r.table # r.new
  BY <1>1, <1>2, <1>3, Keeps
<1> HIDE DEF s, x
<1>5. x.durable.rc[r.new] > 0
  BY <1>2, <1>4
<1>6. CASE FlushAllocate(t)
  <2>1. /\ pc[t] = "allocateFlush" /\ r.why \in {"data", "table", "copy"}
        /\ pc'[t] = CASE r.why = "data" -> "fill"
                      [] r.why = "table" -> "zero"
                      [] r.why = "copy" -> "copy"
    BY <1>6, GoSet, AtHand DEF FlushAllocate, FlushThen, LocalsGood, GoodAt
  <2>2. CASE r.why = "data"
    <3>1. pc'[t] = "fill"
      BY <2>1, <2>2
    <3>2. Doing(x, "fill", r)
      BY <1>4, <1>5, NewDoing
    <3>3. QED
      BY <1>2, <3>1, <3>2 DEF DoingOn, x
  <2>3. CASE r.why = "table"
    <3>1. pc'[t] = "zero"
      BY <2>1, <2>3
    <3>2. HoldsTable(pc[t], r) /\ ForTable(pc[t], r)
      BY <2>1, <2>3, StepHolds
    <3>3. s.dev.rc[r.table] = 1 /\ s.l1[r.at[1]].at = None
      BY <1>4, <3>2 DEF Doing
    <3>4. Doing(x, "zero", r)
      BY <1>2, <1>4, <1>5, <3>2, <3>3, TableDoing
    <3>5. QED
      BY <1>2, <3>1, <3>4 DEF DoingOn, x
  <2>4. QED
    BY <1>4, <2>1, <2>2, <2>3
<1>7. CASE FlushFill(t)
  <2>1. pc'[t] = "repoint"
    BY <1>7, GoSet DEF FlushFill, FlushThen
  <2>2. Doing(x, "repoint", r)
    BY <1>4, <1>5, NewDoing
  <2>3. QED
    BY <1>2, <2>1, <2>2 DEF DoingOn, x
<1>8. CASE FlushZero(t)
  <2>1. pc[t] = "zeroFlush" /\ pc'[t] = "l1Write"
    BY <1>8, GoSet DEF FlushZero, FlushThen
  <2>2. HoldsTable(pc[t], r)
    BY <2>1, StepHolds
  <2>3. s.dev.rc[r.table] = 1 /\ s.l1[r.at[1]].at = None /\ s.dev.table[r.table] = EmptyTable
    BY <1>4, <2>1, <2>2 DEF Doing
  <2>4. Doing(x, "l1Write", r)
    BY <1>2, <1>4, <1>5, <2>2, <2>3, TableDoing
  <2>5. QED
    BY <1>2, <2>1, <2>4 DEF DoingOn, x
<1>9. QED
  BY <1>6, <1>7, <1>8

LEMMA FillDoing ==
    ASSUME Typed, Serial, ReadingInv, NothingFreed, NEW t \in Writers, Fill(t), faults' = 0
    PROVE  DoingOn(t)
<1> DEFINE x == Stored'
           r == reg[t]
<1>1. (Lookup(t) \/ DeviceError(t) \/ StartWrite(t) \/ WriteStep(t)) /\ pc[t] = "fill"
  BY DEF WriteStep, Fill
<1>2. pc'[t] = "fillFlush" /\ reg'[t] = r
  BY NoFault, GoSet DEF Fill, WrittenTo
<1>3. HoldsNew("fill", r) /\ Copying("fill", r) /\ ~TakesData("fill", r)
  BY StepHolds
<1>4. /\ r.why # "copy" /\ FindsNow(x, r) /\ r.new \in Cluster /\ Vacant(x, r.new)
      /\ x.dev.rc[r.new] > 0 /\ x.durable.rc[r.new] > 0
  BY <1>1, <1>3, Keeps
<1> HIDE DEF x
<1>5. Doing(x, "fillFlush", r)
  BY <1>4, NewDoing
<1>6. QED
  BY <1>2, <1>5 DEF DoingOn, x

(* A table that one L1 entry names is counted once, and never copied.      *)
LEMMA RepointDoing ==
    ASSUME Typed, Serial, ReadingInv, NothingFreed, NEW t \in Writers, Repoint(t)
    PROVE  DoingOn(t)
<1> DEFINE s == Stored
           x == Stored'
           r == reg[t]
           q == reg'[t]
           entry == l1[r.at[1]]
           what == WhatTable(entry)
<1>1. (Lookup(t) \/ DeviceError(t) \/ StartWrite(t) \/ WriteStep(t)) /\ pc[t] = "repoint"
  BY DEF WriteStep, Repoint
<1>2. HoldsNew("repoint", r) /\ Copying("repoint", r) /\ ~TakesData("repoint", r)
  BY StepHolds
<1>3. /\ r \in Local /\ r.why # "copy" /\ r.new \in Cluster /\ Vacant(x, r.new)
      /\ x.dev.rc[r.new] > 0 /\ x.durable.rc[r.new] > 0 /\ r.at[1] \in L1Index
      /\ \A p : p.at = r.at /\ p.map = r.map => FindsNow(x, p)
  BY <1>1, <1>2, Keeps
<1>4. x = s /\ s.l1 = l1 /\ s.dev = dev
  BY CalmStores DEF Calm, Stored
<1>5. entry.at \in 0 .. Clusters
  BY <1>1, <1>3 DEF Serial
<1>6. entry.at # None => entry.at \in Cluster /\ dev.rc[entry.at] = 1
  <2>1. entry.at # None => entry.at \in Cluster
    BY <1>5, Numbers DEF Cluster, None
  <2>2. Names(s, r.at[1], entry.at)
    BY <1>4 DEF Names, Roots
  <2>3. entry.at \in Cluster => One(s, entry.at)
    BY <1>3, <2>2, AtHand DEF Apart, TablesApart
  <2>4. QED
    BY <1>4, <2>1, <2>3 DEF One
<1>7. CASE what = "own"
  <2>1. q = [r EXCEPT !.table = entry.at] /\ pc'[t] = "entry"
    BY <1>7, GoSet DEF Repoint
  <2>2. /\ q.at = r.at /\ q.map = r.map /\ q.why = r.why /\ q.new = r.new
        /\ q.table = entry.at
    BY <1>3, <2>1 DEF Local
  <2>3. entry.at # None
    BY <1>7 DEF WhatTable
  <2>4. FindsNow(x, q) /\ q.table \in Cluster /\ q.table = x.l1[q.at[1]].at
    BY <1>3, <1>4, <1>6, <2>2, <2>3
  <2>5. q.why # "copy" /\ q.new \in Cluster /\ Vacant(x, q.new) /\ x.dev.rc[q.new] > 0
        /\ x.durable.rc[q.new] > 0
    BY <1>3, <2>2
  <2> HIDE DEF q, x
  <2>6. ~HoldsTable("entry", q) /\ ~ForTable("entry", q)
    BY StepHolds
  <2>7. Doing(x, "entry", q)
    BY <2>4, <2>5, <2>6 DEF Doing
  <2>8. QED
    BY <2>1, <2>7 DEF DoingOn, x, q
<1>8. CASE what # "own"
  <2>1. entry.at = None /\ what = "table"
    BY <1>6, <1>8 DEF WhatTable, TableShared
  <2>2. q = [r EXCEPT !.why = "table", !.l1Entry = entry] /\ pc'[t] = "allocate"
    BY <1>8, <2>1, GoSet DEF Repoint
  <2>3. q.at = r.at /\ q.map = r.map /\ q.why = "table" /\ q.new = r.new
    BY <1>3, <2>2 DEF Local
  <2>4. FindsNow(x, q) /\ x.l1[q.at[1]].at = None
    BY <1>3, <1>4, <2>1, <2>3
  <2>5. q.new \in Cluster /\ Vacant(x, q.new) /\ x.dev.rc[q.new] > 0 /\ x.durable.rc[q.new] > 0
    BY <1>3, <2>3
  <2> HIDE DEF q, x
  <2>6. ~HoldsTable("allocate", q)
    BY StepHolds
  <2>7. Doing(x, "allocate", q)
    BY <2>3, <2>4, <2>5, <2>6 DEF Doing
  <2>8. QED
    BY <2>2, <2>7 DEF DoingOn, x, q
<1>9. QED
  BY <1>7, <1>8

LEMMA ZeroDoing ==
    ASSUME Typed, Serial, ReadingInv, NothingFreed, NEW t \in Writers, Zero(t), faults' = 0
    PROVE  DoingOn(t)
<1> DEFINE s == Stored
           x == Stored'
           r == reg[t]
<1>1. (Lookup(t) \/ DeviceError(t) \/ StartWrite(t) \/ WriteStep(t)) /\ pc[t] = "zero"
  BY DEF WriteStep, Zero
<1>2. pc'[t] = "zeroFlush" /\ reg'[t] = r
  BY NoFault, GoSet DEF Zero, WrittenTo
<1>3. HoldsNew("zero", r) /\ Copying("zero", r) /\ ~TakesData("zero", r) /\ HoldsTable("zero", r)
  BY StepHolds
<1>4. /\ r.why # "copy" /\ FindsNow(x, r) /\ r.new \in Cluster /\ Vacant(x, r.new)
      /\ x.dev.rc[r.new] > 0 /\ x.durable.rc[r.new] > 0
      /\ r.table \in Cluster /\ Vacant(x, r.table) /\ r.table # r.new
      /\ Doing(s, "zero", r)
  BY <1>1, <1>3, Keeps
<1>5. RowWritten(s, x, r.table, EmptyTable)
  BY <1>1, RowWrites
<1> HIDE DEF s, x
<1>6. s.dev.rc[r.table] = 1 /\ s.durable.rc[r.table] = 1 /\ s.l1[r.at[1]].at = None
  BY <1>3, <1>4 DEF Doing
<1>7. Doing(x, "zeroFlush", r)
  BY <1>4, <1>5, <1>6, TableDoing DEF RowWritten
<1>8. QED
  BY <1>2, <1>7 DEF DoingOn, x

LEMMA InstallDoing ==
    ASSUME Typed, Serial, ReadingInv, NothingFreed, NEW t \in Writers, WriteL1(t) \/ FlushL1(t),
           faults' = 0
    PROVE  DoingOn(t)
<1> DEFINE s == Stored
           x == Stored'
           r == reg[t]
<1>1. Lookup(t) \/ DeviceError(t) \/ StartWrite(t) \/ WriteStep(t)
  BY DEF WriteStep
<1>2. pc[t] \in {"l1Write", "l1Flush"}
  BY DEF WriteL1, FlushL1
<1>3. HoldsNew(pc[t], r) /\ Copying(pc[t], r) /\ ~TakesData(pc[t], r)
  BY <1>2, StepHolds
<1>4. /\ r.why # "copy" /\ FindsNow(x, r) /\ r.new \in Cluster /\ Vacant(x, r.new)
      /\ x.dev.rc[r.new] > 0 /\ x.durable.rc[r.new] > 0 /\ Doing(s, pc[t], r)
      /\ r.at[1] \in L1Index
  BY <1>1, <1>2, <1>3, Keeps
<1>5. s.l1[r.at[1]].at = None /\ s.dev.table[r.table] = EmptyTable
      /\ s.durable.table[r.table] = EmptyTable
  BY <1>2, <1>4 DEF Doing
<1>6. CASE WriteL1(t)
  <2>1. pc'[t] = "l1Flush" /\ reg'[t] = r
    BY <1>6, NoFault, GoSet DEF WriteL1
  <2>2. RootWritten(s, x, r.at[1], r.table)
    BY <1>6, RootWrites
  <2> HIDE DEF s, x
  <2>3. Doing(x, "l1Flush", r)
    BY <1>4, <1>5, <2>2, TableDoing DEF RootWritten
  <2>4. QED
    BY <2>1, <2>3 DEF DoingOn, x
<1>7. CASE FlushL1(t)
  <2>1. pc[t] = "l1Flush" /\ pc'[t] = "entry" /\ reg'[t] = r
    BY <1>4, <1>7, GoSet DEF FlushL1
  <2>2. RootFollowed(s, x, r.at[1], r.table)
    BY <1>7, RootWrites
  <2>3. r.table \in Cluster
    BY <2>1, AtHand DEF LocalsGood, GoodAt, TableSteps
  <2>4. x.l1[r.at[1]].at = r.table
    BY <2>2, <2>3, EntryForFacts DEF RootFollowed
  <2> HIDE DEF s, x
  <2>5. ~HoldsTable("entry", r) /\ ~ForTable("entry", r)
    BY StepHolds
  <2>6. Doing(x, "entry", r)
    BY <1>4, <2>3, <2>4, <2>5 DEF Doing
  <2>7. QED
    BY <2>1, <2>6 DEF DoingOn, x
<1>8. QED
  BY <1>6, <1>7

LEMMA WriterDoing ==
    ASSUME Typed, Serial, ReadingInv, NothingFreed, NEW t \in Writers,
           Lookup(t) \/ DeviceError(t) \/ StartWrite(t) \/ WriteStep(t), faults' = 0
    PROVE  DoingOn(t)
<1>1. CASE \/ Undecodable(t) \/ DeviceError(t) \/ StartWrite(t) \/ TakeWriteLock(t) \/ NoRoom(t)
           \/ NextChunk(t) \/ EndWrite(t) \/ WriteEntry(t) \/ FlushEntry(t) \/ ForgetL2(t)
           \/ WriteInPlace(t) \/ ForgetData(t) \/ WriteRelease(t) \/ FlushRelease(t)
           \/ ReleaseFails(t)
  <2>1. pc'[t] \in Unburdened /\ reg'[t].why # "copy"
    BY <1>1, WhyNotCopy, LeavesUnburdened
  <2>2. QED
    BY <2>1, UnburdenedDoing DEF DoingOn
<1>2. CASE FlushCopy(t) \/ CopyTable(t)
  BY <1>2, AtHand DEF FlushCopy, CopyTable, Doing
<1>3. QED
  BY <1>1, <1>2, LookupDoing, PlanningDoing, AllocateDoing, FlushDoing, FillDoing, RepointDoing,
     ZeroDoing, InstallDoing DEF Lookup, WriteStep

(* The steps of readers and of flush() leave what the writers carry.       *)
LEMMA DoingBeside ==
    ASSUME Typed, Serial, ReadingInv, NothingFreed, NEW t \in Threads, Moving(t), faults' = 0
    PROVE  \A u \in Writers : Doing(Stored', pc'[u], reg'[u])
<1> SUFFICES ASSUME NEW u \in Writers PROVE Doing(Stored', pc'[u], reg'[u])
  OBVIOUS
<1>1. u \in Threads /\ reg[u] \in Local /\ Doing(Stored, pc[u], reg[u]) /\ reg[u].why # "copy"
  BY AtHand, WhyNotCopy
<1>2. t \in Writers => t \notin Readers
  BY WriteAssumption
<1>3. CASE u = t
  BY <1>2, <1>3, WriterDoing DEF Moving, DoingOn
<1>4. CASE u # t /\ t \in Writers
  <2>1. /\ pc'[u] = pc[u] /\ reg'[u] = reg[u]
        /\ pc[u] \in {"idle", "lock"} \/ (StartWrite(t) /\ Stored' = Stored)
    BY <1>2, <1>4, Beside DEF Moving
  <2>2. CASE pc[u] \in {"idle", "lock"}
    <3>1. pc'[u] \in Unburdened
      BY <2>1, <2>2 DEF Unburdened
    <3>2. QED
      BY <1>1, <2>1, <3>1, UnburdenedDoing
  <2>3. QED
    BY <1>1, <2>1, <2>2
<1>5. CASE t \notin Writers
  <2>1. t \in Readers /\ pc'[u] = pc[u] /\ reg'[u] = reg[u]
    BY <1>1, <1>5, MovesAlone DEF Threads
  <2>2. Effect(Stored, Stored', "idle", reg[u])
    BY <1>5, <2>1, ReaderEffect DEF Moving, ReadingInv
  <2>3. UNCHANGED <<l1, dev, durable>>
    BY <1>5, <2>1 DEF Moving, Lookup, LookupL1, LookupL2, Undecodable, DeviceError, StartRead, ReadStep,
       Fetch, Store, EndRead, memory
  <2>4. Stored'.l1 = Stored.l1 /\ Stored'.dev = Stored.dev /\ Stored'.durable = Stored.durable
    BY <2>3 DEF Stored
  <2>5. QED
    BY <1>1, <2>1, <2>2, <2>4, DoingStands
<1>6. QED
  BY <1>3, <1>4, <1>5

(***************************************************************************)
(* What a reader carries                                                   *)
(***************************************************************************)
(* Another actor's step: the cluster a reader goes to is not filled, and   *)
(* comes to nobody else.                                                   *)
LEMMA HoldingStays ==
    ASSUME NEW s, NEW x, IsStore(s), IsStore(x), Apart(s), Apart(x),
           NEW step, NEW r, Effect(s, x, step, r),
           NEW here, NEW q \in Local, NEW len \in 0 .. Clusters, Placed(q.map, len),
           NEW had, NEW more, had \subseteq more, Holding(s, here, q, had),
           here = "fetch" /\ q.map.case = "Plain" =>
               /\ step \in {"fill", "entry"} => r.new # q.map.host
               /\ step = "inPlace" /\ q.map.host = r.map.host =>
                      x.dev.data[q.map.host][q.range.from] \in more
    PROVE  Holding(x, here, q, more)
<1> DEFINE host == q.map.host
           words == ClusterWords(x.dev.data, x.img.backing, q.at, q.map)
           before == ClusterWords(s.dev.data, s.img.backing, q.at, q.map)
<1>1. x.img = s.img
  BY DEF Effect, Gains
<1>2. \A v : Opened(x, v) = Opened(s, v) /\ PayloadOf(x, v) = PayloadOf(s, v)
  BY <1>1, OpenedSame
<1>3. q.at \in VCluster /\ q.map \in ClusterMap
  BY DEF Local
<1>4. ASSUME here = "fetch", q.map.case = "Plain"
      PROVE  /\ x.dev.rc[host] > 0 /\ \A v \in VCluster : Bears(x, v, host) => v = q.at
             /\ words[q.range.from] \in more
  <2>1. host \in Cluster
    BY <1>3, <1>4, PlacedInCluster
  <2>2. /\ s.dev.rc[host] > 0 /\ \A v \in VCluster : Bears(s, v, host) => v = q.at
        /\ before[q.range.from] \in more
    BY <1>4 DEF Holding
  <2>3. x.dev.rc[host] > 0 /\ Gains(s, x, NewRoots(step, r), NewMarks(step, r))
    BY <2>1, <2>2 DEF Effect, CountsStay
  <2>4. ASSUME NEW v \in VCluster, Bears(x, v, host) PROVE v = q.at
    <3>1. Bears(s, v, host) \/ <<v, host>> \in NewMarks(step, r)
      BY <2>1, <2>3, <2>4, GainsBears
    <3>2. <<v, host>> \notin NewMarks(step, r)
      <4>1. CASE step = "entry"
        <5>1. <<v, host>> \in NewMarks(step, r) => host = r.new
          BY <4>1 DEF NewMarks
        <5>2. QED
          BY <1>4, <4>1, <5>1
      <4>2. CASE step # "entry"
        BY <4>2 DEF NewMarks
      <4>3. QED
        BY <4>1, <4>2
    <3>3. QED
      BY <2>2, <3>1, <3>2
  <2>5. words = x.dev.data[host] /\ before = s.dev.data[host]
    BY <1>4 DEF ClusterWords
  <2>6. words[q.range.from] \in more
    <3>1. CASE Overwrites(step, r, host)
      BY <1>4, <2>5, <3>1 DEF Overwrites
    <3>2. CASE ~Overwrites(step, r, host)
      <4>1. x.dev.data[host] = s.dev.data[host]
        BY <2>1, <3>2 DEF Effect
      <4>2. QED
        BY <2>2, <2>5, <4>1
    <3>3. QED
      BY <3>1, <3>2
  <2>7. QED
    BY <2>3, <2>4, <2>6
<1>5. ASSUME here = "fetch", q.map.case # "Plain"
      PROVE  words = before
  <2>1. CASE q.map.case = "Compressed"
    <3>1. IsPayload(Opened(s, q.at)) /\ IsPayload(Opened(x, q.at))
      BY <1>2, <1>5, <2>1 DEF Holding
    <3>2. PICK b \in BOOLEAN : q.map = MapOf(Opened(s, q.at), b)
      BY <1>5, <2>1 DEF Holding
    <3>3. before = PayloadOf(s, q.at)
      BY <1>3, <3>1, <3>2, PayloadWords DEF Apart
    <3>4. q.map = MapOf(Opened(x, q.at), b)
      BY <1>2, <3>2
    <3>5. words = PayloadOf(x, q.at)
      BY <1>3, <3>1, <3>4, PayloadWords DEF Apart
    <3>6. QED
      BY <1>2, <3>3, <3>5
  <2>2. CASE q.map.case # "Compressed"
    <3>1. q.map.case \in {"Zero", "Unallocated"}
      BY <1>3, <1>5, <2>2, MapFacts
    <3>2. QED
      BY <1>1, <3>1 DEF ClusterWords
  <2>3. QED
    BY <2>1, <2>2
<1> HIDE DEF words, before
<1>6. here = "fetch" => words[q.range.from] \in more
  <2>1. CASE q.map.case = "Plain"
    BY <1>4, <2>1
  <2>2. CASE q.map.case # "Plain"
    <3>1. here = "fetch" => before[q.range.from] \in had
      BY DEF Holding, before
    <3>2. QED
      BY <1>5, <2>2, <3>1
  <2>3. QED
    BY <2>1, <2>2
<1>7. here = "fetch" /\ q.map.case = "Compressed" =>
          IsPayload(Opened(x, q.at)) /\ \E b \in BOOLEAN : q.map = MapOf(Opened(x, q.at), b)
  BY <1>2 DEF Holding
<1>8. here = "store" => IsPayload(Opened(x, q.at)) /\ q.full = PayloadOf(x, q.at)
  BY <1>2 DEF Holding
<1>9. here \in {"store", "done"} => q.val \in more
  BY DEF Holding
<1>10. QED
  BY <1>4, <1>6, <1>7, <1>8, <1>9 DEF Holding, words

(* What a read may return grows while it runs.                             *)
LEMMA MovingObserves ==
    ASSUME NEW t \in Threads, Moving(t)
    PROVE  Observe /\ img' = img /\ crashes' = crashes
  BY DEF Moving, Lookup, WriteStep, LookupL1, LookupL2, Undecodable, DeviceError, StartWrite,
     TakeWriteLock, PlanInPlace, PlanReallocate, WriteInPlace, Allocate, NoRoom, FlushAllocate,
     Fill, FlushFill, Repoint, Zero, FlushZero, CopyTable, FlushCopy, WriteL1, FlushL1, WriteEntry,
     FlushEntry, ForgetL2, ForgetData, WriteRelease, FlushRelease, ReleaseFails, NextChunk, EndWrite,
     FlushThen, bounds, StartRead, ReadStep, Fetch, Store, EndRead

LEMMA SeenGrows ==
    ASSUME Observe, NEW u \in Readers, pc'[u] # "idle", reg'[u] \in Local
    PROVE  LET v == reg'[u].at
               w == reg'[u].range.from
           IN
           /\ seen[u] \subseteq seen'[u]
           /\ ViewOf(Stored)[<<v, w>>] \in seen'[u] /\ ViewOf(Stored')[<<v, w>>] \in seen'[u]
           /\ \A k \in Writers : pc[k] \in {"entryFlush", "forgetL2"} /\ reg[k].at = v =>
                  ClusterWords(dev.data, img.backing, v, reg[k].map)[w] \in seen'[u]
<1> DEFINE v == reg'[u].at
           w == reg'[u].range.from
           y == <<v, w>>
<1>1. seen'[u] = seen[u] \cup Current[y] \cup Current'[y]
  BY DEF Observe
<1>2. y \in VWord /\ y[1] = v /\ y[2] = w
  <2>1. v \in VCluster /\ w \in Word
    BY DEF Local, CallRange
  <2>2. QED
    BY <2>1 DEF VWord
<1>3. View = ViewOf(Stored) /\ View' = ViewOf(Stored')
  BY ViewIs
<1> HIDE DEF y
<1>4. View[y] \in Current[y]
  BY <1>2 DEF Current
<1>5. View'[y] \in Current'[y]
  BY <1>2 DEF Current
<1>6. ASSUME NEW k \in Writers, pc[k] \in {"entryFlush", "forgetL2"}, reg[k].at = v
      PROVE  ClusterWords(dev.data, img.backing, v, reg[k].map)[w] \in Current[y]
  <2>1. k \in {j \in Writers : pc[j] \in {"entryFlush", "forgetL2"} /\ reg[j].at = y[1]}
    BY <1>2, <1>6
  <2>2. ClusterWords(dev.data, img.backing, y[1], reg[k].map)[y[2]] \in Current[y]
    BY <1>2, <2>1 DEF Current
  <2>3. QED
    BY <1>2, <2>2
<1>7. QED
  BY <1>1, <1>3, <1>4, <1>5, <1>6 DEF y

(* Whoever moves, tables, data and payloads stay apart.                    *)
LEMMA ApartNext ==
    ASSUME Typed, Serial, ReadingInv, NothingFreed, NEW t \in Threads, Moving(t)
    PROVE  Apart(Stored')
<1>1. CASE t \in Writers
  <2>1. Lookup(t) \/ DeviceError(t) \/ StartWrite(t) \/ WriteStep(t)
    BY <1>1, WriteAssumption DEF Moving
  <2>2. QED
    BY <1>1, <2>1, WriterApart
<1>2. CASE t \notin Writers
  <2>1. Effect(Stored, Stored', "idle", reg[t])
    BY <1>2, ThreadEffect
  <2>2. reg[t].at \in VCluster
    BY TypedParts DEF Local
  <2>3. Apart(Stored)
    BY DEF ReadingInv
  <2>4. QED
    BY <2>1, <2>2, <2>3, IdleApart
<1>3. QED
  BY <1>1, <1>2

(* A word of a cluster the disk has is what a read of it would return.     *)
LEMMA StandardView ==
    ASSUME NEW s, NEW v \in VCluster, NEW w \in Word, Now(s, v) \in L2Entry,
           Now(s, v).kind = "standard", Now(s, v).at \in Cluster
    PROVE  ViewOf(s)[<<v, w>>] = s.dev.data[Now(s, v).at][w]
<1> DEFINE e == Now(s, v)
           map == MapOf(e, FALSE)
<1>1. e.at # None /\ ~(e.at >= Outside)
  BY Numbers DEF Cluster, Outside, None
<1>2. LastOf(e) = e.at
  BY DEF LastOf
<1>3. map.case = "Plain" /\ map.host = e.at
  BY <1>1, MapOfEntry
<1>4. ClusterWords(s.dev.data, s.img.backing, v, map) = s.dev.data[e.at]
  BY <1>3 DEF ClusterWords
<1>5. ViewOf(s)[<<v, w>>] = IF LastOf(e) >= Outside THEN 0
                            ELSE ClusterWords(s.dev.data, s.img.backing, v, map)[w]
  BY ViewAt
<1> HIDE DEF e, map
<1>6. ~(LastOf(e) >= Outside)
  BY <1>1, <1>2
<1>7. ViewOf(s)[<<v, w>>] = s.dev.data[e.at][w]
  BY <1>4, <1>5, <1>6
<1>8. QED
  BY <1>7 DEF e

(* What a reader carries survives the steps of others.                     *)
LEMMA ReaderStays ==
    ASSUME Typed, Typed', Serial, ReadingInv, NothingFreed, NEW t \in Threads, Moving(t),
           NEW u \in Readers, u # t
    PROVE  Holding(Stored', pc'[u], reg'[u], seen'[u])
<1> DEFINE s == Stored
           x == Stored'
           q == reg[u]
           host == q.map.host
           v == q.at
           w == q.range.from
<1>1. u \in Threads /\ pc'[u] = pc[u] /\ reg'[u] = q
  BY MovesAlone, TypedParts
<1>2. q \in Local /\ LocalsGood(u) /\ imageLen \in 0 .. Clusters
  BY <1>1, TypedParts
<1>3. IsStore(s) /\ IsStore(x) /\ Apart(s) /\ Apart(x)
  BY StoredTyped, StoredNext, ApartNext DEF ReadingInv
<1>4. Placed(q.map, imageLen)
  BY <1>2 DEF LocalsGood, GoodAt
<1>5. Holding(s, pc[u], q, seen[u])
  BY DEF ReadingInv
<1>6. CASE pc[u] = "idle"
  <2>1. pc'[u] = "idle"
    BY <1>1, <1>6
  <2>2. QED
    BY <2>1 DEF Holding
<1>7. CASE pc[u] # "idle"
  <2>1. Observe
    BY MovingObserves
  <2>2. pc'[u] # "idle" /\ reg'[u] \in Local
    BY <1>1, <1>2, <1>7
  <2>3. seen[u] \subseteq seen'[u] /\ ViewOf(x)[<<v, w>>] \in seen'[u]
    BY <1>1, <2>1, <2>2, SeenGrows
  <2>4. CASE t \notin Writers
    <3>1. Effect(s, x, "idle", reg[t])
      BY <2>4, ThreadEffect
    <3> HIDE DEF s, x, q
    <3>2. Holding(x, pc[u], q, seen'[u])
      BY <1>2, <1>3, <1>4, <1>5, <2>3, <3>1, HoldingStays
    <3>3. QED
      BY <1>1, <3>2 DEF x
  <2>5. CASE t \in Writers
    <3>1. Effect(s, x, pc[t], reg[t]) /\ \A a \in VCluster : Now(x, a) = Now(s, a) \/ pc[t] = "entry"
      BY <2>5, ThreadEffect
    <3>2. Avoids(pc[t], reg[t], pc[u], q)
      BY <2>5 DEF ReadingInv
    <3>3. pc[u] = "fetch" /\ q.map.case = "Plain" /\ pc[t] \in {"fill", "entry"} => reg[t].new # host
      BY <3>2, StepHolds DEF Avoids
    <3>4. ASSUME pc[u] = "fetch", q.map.case = "Plain", pc[t] = "inPlace", host = reg[t].map.host
          PROVE  x.dev.data[host][w] \in seen'[u]
      <4>1. /\ host \in Cluster /\ Bears(s, reg[t].at, host)
            /\ Now(s, reg[t].at) \in L2Entry
            /\ Now(s, reg[t].at).kind = "standard" /\ Now(s, reg[t].at).at = host
        BY <2>5, <3>4, HostBorne
      <4>2. reg[t].at \in VCluster /\ v \in VCluster /\ w \in Word
        BY <1>2, <2>5, TypedParts DEF Local, CallRange
      <4>3. reg[t].at = v
        BY <1>5, <3>4, <4>1, <4>2 DEF Holding
      <4>4. Now(x, v) = Now(s, v)
        BY <3>1, <3>4, <4>2
      <4> HIDE DEF s, x, q
      <4>5. ViewOf(x)[<<v, w>>] = x.dev.data[host][w]
        BY <4>1, <4>2, <4>3, <4>4, StandardView
      <4>6. QED
        BY <2>3, <4>5
    <3> HIDE DEF s, x, q
    <3>5. Holding(x, pc[u], q, seen'[u])
      BY <1>2, <1>3, <1>4, <1>5, <2>3, <3>1, <3>3, <3>4, HoldingStays
    <3>6. QED
      BY <1>1, <3>5 DEF x
  <2>6. QED
    BY <2>4, <2>5
<1>8. QED
  BY <1>6, <1>7

(* What a reader carries after a step of its own.                          *)
HoldingOn(t) == Holding(Stored', pc'[t], reg'[t], seen'[t])

LEMMA NothingHeld ==
    ASSUME NEW s, NEW step, step \notin {"fetch", "store", "done"}, NEW q, NEW had
    PROVE  Holding(s, step, q, had)
  BY DEF Holding

LEMMA RegAfter ==
    ASSUME Typed'
    PROVE  /\ reg' \in [Threads -> Local] /\ imageLen' \in 0 .. Clusters
           /\ l2Cache' = <<>> \/ l2Cache' \in L1Index \X [L2Index -> L2Entry]
           /\ \A t \in Threads : LocalsGood(t)'
  BY DEF Typed, TypeOK

LEMMA LookupL1Holds ==
    ASSUME Typed, Typed', NEW t \in Readers, LookupL1(t)
    PROVE  HoldingOn(t)
<1> DEFINE v == reg[t].at
           entry == l1[v[1]]
           q == [reg[t] EXCEPT !.l1Entry = entry, !.map = Unallocated]
           x == Stored'
<1>1. t \in Threads /\ t \notin Writers /\ Moving(t) /\ reg[t] \in Local
  BY TypedParts, WriteAssumption DEF Moving, Lookup
<1>2. CASE Leave(t)
  <2>1. pc'[t] = "idle"
    BY <1>1, <1>2, MovesAlone
  <2>2. QED
    BY <2>1, NothingHeld DEF HoldingOn
<1>3. CASE ~Leave(t)
  <2>1. /\ Set(t, q) /\ Go(t, IF entry.at = None THEN "fetch" ELSE "l2")
        /\ UNCHANGED <<img, dev, durable, memory>>
    BY <1>1, <1>3 DEF LookupL1, Looked
  <2>2. reg'[t] = q /\ pc'[t] = IF entry.at = None THEN "fetch" ELSE "l2"
    BY <1>1, <2>1, MovesAlone
  <2>3. CASE entry.at # None
    <3>1. pc'[t] = "l2"
      BY <2>2, <2>3
    <3>2. QED
      BY <3>1, NothingHeld DEF HoldingOn
  <2>4. CASE entry.at = None
    <3>1. v \in VCluster /\ v[1] \in L1Index /\ q.at = v /\ q.map = Unallocated /\ q \in Local
      <4>1. v \in VCluster /\ v[1] \in L1Index
        BY <1>1 DEF Local, VCluster
      <4>2. q \in Local
        BY <1>1, <2>2, RegAfter
      <4>3. q.at = v /\ q.map = Unallocated
        BY <1>1 DEF Local
      <4>4. QED
        BY <4>1, <4>2, <4>3
    <3>2. x = Stored /\ IsStore(x)
      BY <2>1, StoredNext DEF Stored, memory
    <3>3. Now(x, v) = NoEntry
      BY <2>4, <3>1, <3>2, Numbers DEF Now, EntryAt, Targets, Stored
    <3>4. FindsNow(x, q)
      BY <3>1, <3>3 DEF FindsNow, Unallocated
    <3>5. pc'[t] = "fetch"
      BY <2>2, <2>4
    <3>6. Observe
      BY <1>1, MovingObserves
    <3>7. ViewOf(x)[<<v, q.range.from>>] \in seen'[t] /\ q.range.from \in Word
      <4>1. reg'[t] \in Local /\ pc'[t] # "idle"
        BY <2>2, <3>1, <3>5
      <4>2. ViewOf(x)[<<reg'[t].at, reg'[t].range.from>>] \in seen'[t]
        BY <3>6, <4>1, SeenGrows
      <4>3. q.range.from \in Word
        BY <3>1 DEF Local, CallRange
      <4> HIDE DEF q, x
      <4>4. QED
        BY <2>2, <3>1, <4>2, <4>3
    <3>8. q.map \in ClusterMap /\ Placed(q.map, Clusters) /\ Clusters \in 0 .. Clusters
          /\ q.map.case = "Unallocated"
      BY <3>1, PlainTyped, Numbers
    <3> HIDE DEF q, x
    <3>9. ClusterWords(x.dev.data, x.img.backing, q.at, q.map)[q.range.from] \in seen'[t]
      BY <3>1, <3>2, <3>4, <3>7, <3>8, WordsAreView
    <3>10. Holding(x, "fetch", q, seen'[t])
      BY <3>8, <3>9 DEF Holding
    <3>11. QED
      BY <2>2, <3>5, <3>10 DEF HoldingOn, x
  <2>5. QED
    BY <2>3, <2>4
<1>4. QED
  BY <1>2, <1>3

(* An entry of the store, mapped, is what a reader may go to.              *)
LEMMA EntryHolds ==
    ASSUME NEW s, IsStore(s), Apart(s), NEW v \in VCluster, NEW e \in L2Entry, Has(s, v, e),
           NEW b \in BOOLEAN, NEW q \in Local, q.at = v, q.map = MapOf(e, b),
           NEW len \in 0 .. Clusters, Placed(q.map, len), NEW had,
           ClusterWords(s.dev.data, s.img.backing, v, q.map)[q.range.from] \in had
    PROVE  Holding(s, "fetch", q, had)
<1> DEFINE host == q.map.host
<1>1. ASSUME q.map.case = "Plain"
      PROVE  s.dev.rc[host] > 0 /\ \A u \in VCluster : Bears(s, u, host) => u = q.at
  <2>1. e.kind = "standard" /\ e.at = host
    BY <1>1, MapOfEntry
  <2>2. host \in Cluster
    BY <1>1, PlacedInCluster DEF Local
  <2>3. Bears(s, v, host)
    BY <2>1 DEF Bears
  <2>4. QED
    BY <2>2, <2>3 DEF Apart, DataApart, Counted
<1>2. ASSUME q.map.case = "Compressed"
      PROVE  IsPayload(Opened(s, q.at)) /\ \E c \in BOOLEAN : q.map = MapOf(Opened(s, q.at), c)
  <2>1. IsPayload(e)
    BY <1>2, MapOfEntry
  <2>2. e.kind # "standard"
    BY <2>1 DEF IsPayload
  <2>3. e = Opened(s, v)
    BY <2>2 DEF Apart, OnlyStandardMade
  <2>4. QED
    BY <2>1, <2>3
<1>3. QED
  BY <1>1, <1>2 DEF Holding

(* A lookup that goes on has an entry of the store in hand: the disk's, or *)
(* one its writer has replaced and not forgotten yet.                      *)
LEMMA LookupL2Finds ==
    ASSUME Typed, Typed', ReadingInv, NEW t \in Readers, LookupL2(t), ~Leave(t)
    PROVE  LET v == reg[t].at
               e == l2Cache'[2][v[2]]
               q == reg'[t]
           IN
           /\ v \in VCluster /\ e \in L2Entry /\ Has(Stored', v, e)
           /\ e = Now(Stored, v) \/ Behind(v, e)
           /\ pc'[t] = "fetch" /\ q \in Local /\ q.at = v /\ q.range.from \in Word
           /\ \E b \in BOOLEAN : q.map = MapOf(e, b)
           /\ imageLen \in 0 .. Clusters /\ Placed(q.map, imageLen)
           /\ UNCHANGED <<img, dev, durable, l1>>
<1> DEFINE v == reg[t].at
           cache == Cached(v[1], reg[t].l1Entry.at)
           e == cache[2][v[2]]
           copied == reg[t].l1Entry.copied
           map == MapOf(e, copied)
           q == [reg[t] EXCEPT !.map = map]
<1>1. t \in Threads /\ t \notin Writers /\ Moving(t) /\ reg[t] \in Local
  BY TypedParts, WriteAssumption DEF Moving, Lookup
<1>2. /\ map.case = "Zero" \/ Inside(map.last)
      /\ Set(t, q) /\ Go(t, "fetch") /\ l2Cache' = cache
      /\ UNCHANGED <<img, dev, durable, l1, imageLen>>
  BY <1>1 DEF LookupL2, Looked
<1>3. reg'[t] = q /\ pc'[t] = "fetch"
  BY <1>1, <1>2, MovesAlone
<1>4. q \in Local
  BY <1>1, <1>3, RegAfter
<1>5. v \in VCluster /\ v[1] \in L1Index /\ v[2] \in L2Index /\ copied \in BOOLEAN
  BY <1>1 DEF Local, VCluster, L1Entry
<1>6. q.at = v /\ q.map = map
  BY <1>1 DEF Local
<1>7. l2Cache' # <<>> /\ l2Cache'[1] = v[1] /\ (e = Now(Stored, v) \/ Behind(v, e))
  BY <1>1, <1>2, <1>5, CachedTrue DEF ReadingInv
<1>8. l2Cache' \in L1Index \X [L2Index -> L2Entry]
  BY <1>7, RegAfter
<1>9. e \in L2Entry /\ l2Cache'[2][v[2]] = e
  BY <1>2, <1>5, <1>8
<1>10. Has(Stored', v, e)
  BY <1>7, <1>9 DEF Has, Stored
<1>11. imageLen \in 0 .. Clusters /\ Placed(map, imageLen)
  BY <1>2, TypedParts DEF Placed, Inside
<1>12. q.range.from \in Word
  BY <1>4 DEF Local, CallRange
<1> HIDE DEF q
<1>13. \E b \in BOOLEAN : q.map = MapOf(e, b)
  BY <1>5, <1>6
<1> HIDE DEF e, map
<1>14. QED
  BY <1>2, <1>3, <1>4, <1>5, <1>6, <1>7, <1>9, <1>10, <1>11, <1>12, <1>13

LEMMA LookupL2Holds ==
    ASSUME Typed, Typed', Serial, ReadingInv, NothingFreed, NEW t \in Readers, LookupL2(t)
    PROVE  HoldingOn(t)
<1> DEFINE v == reg[t].at
           e == l2Cache'[2][v[2]]
           q == reg'[t]
           s == Stored
           x == Stored'
<1>1. t \in Threads /\ Moving(t)
  BY TypedParts DEF Moving, Lookup
<1>2. CASE Leave(t)
  <2>1. pc'[t] = "idle"
    BY <1>1, <1>2, MovesAlone
  <2>2. QED
    BY <2>1, NothingHeld DEF HoldingOn
<1>3. CASE ~Leave(t)
  <2>1. /\ v \in VCluster /\ e \in L2Entry /\ Has(x, v, e) /\ (e = Now(s, v) \/ Behind(v, e))
        /\ pc'[t] = "fetch" /\ q \in Local /\ q.at = v /\ q.range.from \in Word
        /\ \E b \in BOOLEAN : q.map = MapOf(e, b)
        /\ imageLen \in 0 .. Clusters /\ Placed(q.map, imageLen)
        /\ UNCHANGED <<img, dev, durable, l1>>
    BY <1>3, LookupL2Finds
  <2>2. Observe
    BY <1>1, MovingObserves
  <2>3. IsStore(x) /\ Apart(x) /\ x.img = img /\ x.dev = dev /\ Now(x, v) = Now(s, v)
    BY <1>1, <2>1, StoredNext, ApartNext DEF Stored, Now
  <2>4. /\ ViewOf(x)[<<v, q.range.from>>] \in seen'[t]
        /\ \A k \in Writers : pc[k] \in {"entryFlush", "forgetL2"} /\ reg[k].at = v =>
             ClusterWords(dev.data, img.backing, v, reg[k].map)[q.range.from] \in seen'[t]
    BY <2>1, <2>2, SeenGrows
  <2> HIDE DEF q, x, s, e
  <2>5. PICK b \in BOOLEAN : q.map = MapOf(e, b)
    BY <2>1
  <2>6. q.map \in ClusterMap
    BY <2>1, <2>5, MapTyped
  <2>7. ClusterWords(x.dev.data, x.img.backing, v, q.map)[q.range.from] \in seen'[t]
    <3>1. CASE e = Now(s, v)
      <4>1. FindsNow(x, q)
        BY <2>1, <2>3, <2>5, <3>1 DEF FindsNow
      <4>2. QED
        BY <2>1, <2>3, <2>4, <2>6, <4>1, WordsAreView
    <3>2. CASE Behind(v, e)
      <4>1. PICK k \in Writers : /\ pc[k] \in {"entryFlush", "forgetL2"} /\ reg[k].at = v
                                 /\ \E c \in BOOLEAN : reg[k].map = MapOf(e, c)
        BY <3>2 DEF Behind
      <4>2. PICK c \in BOOLEAN : reg[k].map = MapOf(e, c)
        BY <4>1
      <4>3. MapOf(e, c) \in ClusterMap
        BY <2>1, MapTyped
      <4>4. /\ MapOf(e, c).case = MapOf(e, b).case /\ MapOf(e, c).host = MapOf(e, b).host
            /\ MapOf(e, c).last = MapOf(e, b).last /\ MapOf(e, c).part = MapOf(e, b).part
        BY DEF MapOf
      <4>5. ClusterWords(dev.data, img.backing, v, reg[k].map)
                = ClusterWords(dev.data, img.backing, v, q.map)
        BY <2>5, <2>6, <4>2, <4>3, <4>4, WordsOfEither
      <4>6. ClusterWords(dev.data, img.backing, v, reg[k].map)[q.range.from] \in seen'[t]
        BY <2>4, <4>1
      <4>7. QED
        BY <2>3, <4>5, <4>6
    <3>3. QED
      BY <2>1, <3>1, <3>2
  <2>8. Holding(x, "fetch", q, seen'[t])
    BY <2>1, <2>3, <2>5, <2>7, EntryHolds
  <2>9. QED
    BY <2>1, <2>8 DEF HoldingOn, x, q
<1>4. QED
  BY <1>2, <1>3

LEMMA FetchHolds ==
    ASSUME Typed, Typed', ReadingInv, NEW t \in Readers, Fetch(t)
    PROVE  HoldingOn(t)
<1> DEFINE v == reg[t].at
           map == reg[t].map
           hit == map.case = "Compressed" /\ DeCached(v)
           found == ClusterWords(dev.data, img.backing, v, map)
           words == IF hit THEN deCache[2] ELSE found
           w == reg[t].range.from
           q == [reg[t] EXCEPT !.full = words, !.val = words[w]]
           s == Stored
<1>1. t \in Threads /\ Moving(t) /\ reg[t] \in Local /\ LocalsGood(t) /\ imageLen \in 0 .. Clusters
  BY TypedParts DEF Moving, ReadStep
<1>2. /\ pc[t] = "fetch" /\ Set(t, q) /\ Stored' = s
      /\ Go(t, IF map.case = "Compressed" /\ ~hit THEN "store" ELSE "done")
  BY DEF Fetch, Stored, memory
<1>3. reg'[t] = q /\ pc'[t] = IF map.case = "Compressed" /\ ~hit THEN "store" ELSE "done"
  BY <1>1, <1>2, MovesAlone
<1>4. q \in Local
  BY <1>1, <1>3, RegAfter
<1>5. q.at = v /\ q.range.from = w /\ q.full = words /\ q.val = words[w]
  BY <1>1 DEF Local
<1>6. Holding(s, "fetch", reg[t], seen[t])
  BY <1>2 DEF ReadingInv
<1>7. v \in VCluster /\ Placed(map, imageLen) /\ IsStore(s) /\ PayloadsStay(s)
      /\ DeTrue(s, deCache)
  BY <1>1, StoredTyped DEF Local, LocalsGood, GoodAt, ReadingInv, Apart
<1>8. s.dev = dev /\ s.img = img
  BY DEF Stored
<1>9. found[w] \in seen[t]
  BY <1>6, <1>8 DEF Holding
<1>10. ASSUME map.case = "Compressed" PROVE IsPayload(Opened(s, v)) /\ found = PayloadOf(s, v)
  <2>1. IsPayload(Opened(s, v)) /\ \E b \in BOOLEAN : map = MapOf(Opened(s, v), b)
    BY <1>6, <1>10 DEF Holding
  <2>2. PICK b \in BOOLEAN : map = MapOf(Opened(s, v), b)
    BY <2>1
  <2> HIDE DEF s, map
  <2>3. ClusterWords(s.dev.data, s.img.backing, v, map) = PayloadOf(s, v)
    BY <1>1, <1>7, <2>1, <2>2, PayloadWords
  <2>4. QED
    BY <1>8, <2>1, <2>3
<1>11. words = found
  <2>1. CASE hit
    <3>1. deCache[2] = PayloadOf(s, v)
      BY <1>7, <2>1 DEF DeTrue, DeCached
    <3>2. QED
      BY <1>10, <2>1, <3>1
  <2>2. CASE ~hit
    BY <2>2
  <2>3. QED
    BY <2>1, <2>2
<1>12. Observe /\ pc'[t] # "idle"
  BY <1>1, <1>3, MovingObserves
<1>13. seen[t] \subseteq seen'[t]
  BY <1>3, <1>4, <1>12, SeenGrows
<1> HIDE DEF q, words, found, s, map
<1>14. q.val \in seen'[t]
  BY <1>5, <1>9, <1>11, <1>13
<1>15. pc'[t] = "store" => IsPayload(Opened(s, q.at)) /\ q.full = PayloadOf(s, q.at)
  BY <1>3, <1>5, <1>10, <1>11
<1>16. pc'[t] \in {"store", "done"}
  BY <1>3
<1>17. Holding(s, pc'[t], q, seen'[t])
  BY <1>14, <1>15, <1>16 DEF Holding
<1>18. QED
  BY <1>2, <1>3, <1>17 DEF HoldingOn

LEMMA StoreHolds ==
    ASSUME Typed, Typed', ReadingInv, NEW t \in Readers, Store(t)
    PROVE  HoldingOn(t)
<1>1. t \in Threads /\ Moving(t)
  BY TypedParts DEF Moving, ReadStep
<1>2. pc[t] = "store" /\ pc'[t] = "done" /\ reg'[t] = reg[t]
  BY <1>1, MovesAlone DEF Store
<1>3. Observe /\ reg'[t] \in Local
  BY <1>1, MovingObserves, RegAfter
<1>4. seen[t] \subseteq seen'[t]
  BY <1>2, <1>3, SeenGrows
<1>5. reg[t].val \in seen[t]
  <2>1. Holding(Stored, "store", reg[t], seen[t])
    BY <1>2 DEF ReadingInv
  <2>2. QED
    BY <2>1 DEF Holding
<1>6. reg'[t].val \in seen'[t]
  BY <1>2, <1>4, <1>5
<1>7. QED
  BY <1>2, <1>6 DEF HoldingOn, Holding

LEMMA MoverHolds ==
    ASSUME Typed, Typed', Serial, ReadingInv, NothingFreed, NEW t \in Readers, Moving(t)
    PROVE  HoldingOn(t)
<1>1. t \in Threads /\ t \notin Writers
  BY WriteAssumption, TypedParts
<1>2. CASE Leave(t) \/ StartRead(t)
  <2>1. pc'[t] \in {"idle", "l1"}
    BY <1>1, <1>2, MovesAlone DEF StartRead
  <2>2. QED
    BY <2>1, NothingHeld DEF HoldingOn
<1>3. CASE ~Leave(t) /\ ~StartRead(t)
  <2>1. LookupL1(t) \/ LookupL2(t) \/ Fetch(t) \/ Store(t)
    BY <1>1, <1>3 DEF Moving, Lookup, Undecodable, DeviceError, ReadStep, EndRead
  <2>2. QED
    BY <2>1, LookupL1Holds, LookupL2Holds, FetchHolds, StoreHolds
<1>4. QED
  BY <1>2, <1>3

LEMMA HoldingNext ==
    ASSUME Typed, Typed', Serial, ReadingInv, NothingFreed, NEW t \in Threads, Moving(t)
    PROVE  \A u \in Readers : Holding(Stored', pc'[u], reg'[u], seen'[u])
  BY ReaderStays, MoverHolds DEF HoldingOn

(***************************************************************************)
(* No writer fills the cluster a reader goes to                            *)
(***************************************************************************)
(* What a writer has taken it had before, or the count was zero.           *)
LEMMA NewFrom ==
    ASSUME Typed, ReadingInv, NEW t \in Writers, Moving(t), faults' = 0, HoldsNew(pc'[t], reg'[t])
    PROVE  \/ dev.rc[reg'[t].new] = 0
           \/ HoldsNew(pc[t], reg[t]) /\ reg'[t].new = reg[t].new
<1>1. t \in Threads /\ reg[t] \in Local /\ reg[t].why # "copy" /\ t \notin Readers
  BY AtHand, WhyNotCopy, WriteAssumption
<1>2. ~(pc'[t] \in Unburdened \cup {"plan", "inPlace"} /\ reg'[t].why # "copy")
  BY StepHolds
<1>3. ~(pc'[t] = "allocate" /\ reg'[t].why = "data")
  BY StepHolds
<1>4. faults \in Nat /\ ~Fault
  <2>1. faults \in Nat
    BY TypedParts DEF BoundsTyped
  <2>2. Fault => faults' = faults + 1
    BY DEF Fault
  <2>3. QED
    BY <2>1, <2>2
<1>5. Leave(t) => pc'[t] = "idle" /\ reg'[t] = Blank
  BY <1>1, MovesAlone, LeaveTyped DEF Leave, Set
<1>6. ~Leave(t)
  BY <1>2, <1>5, BlankTyped DEF Unburdened
<1>7. CASE LookupL1(t) \/ LookupL2(t)
  <2> DEFINE v == reg[t].at
             e == Cached(v[1], reg[t].l1Entry.at)[2][v[2]]
             one == [reg[t] EXCEPT !.l1Entry = l1[v[1]], !.map = Unallocated]
             two == [reg[t] EXCEPT !.map = MapOf(e, reg[t].l1Entry.copied)]
  <2>1. /\ Set(t, one) \/ Set(t, two)
        /\ Go(t, "plan") \/ Go(t, "l2")
    BY <1>1, <1>6, <1>7 DEF LookupL1, LookupL2, Looked
  <2>2. pc'[t] \in {"l2", "plan"} /\ reg'[t] \in {one, two}
    BY <1>1, <2>1, MovesAlone
  <2>3. one.why = reg[t].why /\ two.why = reg[t].why
    BY <1>1 DEF Local
  <2>4. QED
    BY <1>1, <1>2, <2>2, <2>3 DEF Unburdened
<1>8. CASE \/ Undecodable(t) \/ DeviceError(t) \/ StartWrite(t) \/ TakeWriteLock(t) \/ NoRoom(t)
           \/ NextChunk(t) \/ EndWrite(t) \/ WriteEntry(t) \/ FlushEntry(t) \/ ForgetL2(t)
           \/ WriteInPlace(t) \/ ForgetData(t) \/ WriteRelease(t) \/ FlushRelease(t)
           \/ ReleaseFails(t)
  BY <1>1, <1>2, <1>8, LeavesUnburdened
<1>9. CASE PlanInPlace(t)
  <2>1. pc'[t] = "inPlace" /\ reg'[t] = reg[t]
    BY <1>1, <1>9, MovesAlone DEF PlanInPlace
  <2>2. QED
    BY <1>1, <1>2, <2>1
<1>10. CASE PlanReallocate(t)
  <2> DEFINE full == Spliced(Seed(reg[t].at, reg[t].map), reg[t].range, reg[t].at, reg[t].val)
             q == [reg[t] EXCEPT !.full = full, !.old = ReleaseOf(reg[t].map), !.why = "data"]
  <2>1. Set(t, q) /\ Go(t, "allocate")
    BY <1>10 DEF PlanReallocate
  <2>2. pc'[t] = "allocate" /\ reg'[t] = q
    BY <1>1, <2>1, MovesAlone
  <2>3. q.why = "data"
    BY <1>1 DEF Local
  <2>4. QED
    BY <1>3, <2>2, <2>3
<1>11. CASE Allocate(t)
  <2>1. PICK c \in Cluster :
            /\ FreeCluster(c)
            /\ Set(t, IF reg[t].why = "data" THEN [reg[t] EXCEPT !.new = c]
                      ELSE [reg[t] EXCEPT !.table = c])
    BY <1>4, <1>11 DEF Allocate
  <2>2. dev.rc[c] = 0
    BY <2>1 DEF FreeCluster
  <2>3. CASE reg[t].why = "data"
    <3>1. reg'[t].new = c
      BY <1>1, <2>1, <2>3, MovesAlone DEF Local
    <3>2. QED
      BY <2>2, <3>1
  <2>4. CASE reg[t].why # "data"
    <3>1. reg'[t].new = reg[t].new
      BY <1>1, <2>1, <2>4, MovesAlone DEF Local
    <3>2. HoldsNew(pc[t], reg[t])
      BY <1>11, <2>4, StepHolds DEF Allocate
    <3>3. QED
      BY <3>1, <3>2
  <2>5. QED
    BY <2>3, <2>4
<1>12. CASE Repoint(t)
  <2>1. pc[t] = "repoint" /\ reg'[t].new = reg[t].new
    BY <1>1, <1>12, MovesAlone DEF Repoint, Local
  <2>2. QED
    BY <2>1, StepHolds
<1>13. CASE \/ FlushAllocate(t) \/ FlushFill(t) \/ FlushZero(t) \/ FlushL1(t)
            \/ Fill(t) \/ Zero(t) \/ WriteL1(t)
  <2>1. pc[t] \in {"allocateFlush", "fill", "fillFlush", "zero", "zeroFlush", "l1Write", "l1Flush"}
    BY <1>13 DEF FlushAllocate, FlushFill, FlushZero, FlushL1, Fill, Zero, WriteL1
  <2>2. UNCHANGED reg
    BY <1>6, <1>13 DEF FlushAllocate, FlushFill, FlushZero, FlushL1, Fill, Zero, WriteL1, FlushThen,
       WrittenTo
  <2>3. reg'[t].new = reg[t].new
    BY <2>2
  <2>4. HoldsNew(pc[t], reg[t])
    BY <2>1, StepHolds
  <2>5. QED
    BY <2>3, <2>4
<1>14. ~CopyTable(t) /\ ~FlushCopy(t)
  <2>1. pc[t] \notin {"copy", "copyFlush"}
    BY AtHand DEF Doing
  <2>2. QED
    BY <2>1 DEF CopyTable, FlushCopy
<1>15. QED
  BY <1>1, <1>7, <1>8, <1>9, <1>10, <1>11, <1>12, <1>13, <1>14 DEF Moving, Lookup, WriteStep

LEMMA AvoidsNext ==
    ASSUME Typed, Typed', Serial, ReadingInv, NothingFreed, NEW t \in Threads, Moving(t), faults' = 0
    PROVE  \A k \in Writers, u \in Readers : Avoids(pc'[k], reg'[k], pc'[u], reg'[u])
<1> SUFFICES ASSUME NEW k \in Writers, NEW u \in Readers,
                    HoldsNew(pc'[k], reg'[k]), pc'[u] = "fetch", reg'[u].map.case = "Plain"
             PROVE  reg'[k].new # reg'[u].map.host
  BY DEF Avoids
<1> DEFINE host == reg'[u].map.host
<1>1. k \in Threads /\ u \in Threads /\ k # u
  BY TypedParts, WriteAssumption
<1>2. CASE t = u
  <2>1. ~Leave(u) /\ LookupL2(u)
    <3>1. ~Leave(u)
      BY <1>1, <1>2, MovesAlone
    <3>2. ~LookupL1(u)
      <4>1. LookupL1(u) => reg'[u].map = Unallocated
        BY <1>1, <1>2, <3>1, MovesAlone, TypedParts DEF LookupL1, Local
      <4>2. QED
        BY <4>1, PlainTyped
    <3>3. ~StartRead(u) /\ ~Fetch(u) /\ ~Store(u) /\ ~EndRead(u)
      BY <1>1, <1>2, <3>1, MovesAlone DEF StartRead, Fetch, Store, EndRead
    <3>4. QED
      BY <1>1, <1>2, <3>1, <3>2, <3>3, WriteAssumption
         DEF Moving, Lookup, Undecodable, DeviceError, ReadStep
  <2>2. PICK e \in L2Entry : /\ reg[u].at \in VCluster /\ Has(Stored', reg[u].at, e)
                             /\ \E b \in BOOLEAN : reg'[u].map = MapOf(e, b)
    BY <2>1, LookupL2Finds
  <2>3. e.kind = "standard" /\ e.at = host
    BY <2>2, MapOfEntry
  <2>4. Bears(Stored', reg[u].at, host)
    BY <2>2, <2>3 DEF Bears
  <2>5. Doing(Stored', pc'[k], reg'[k])
    BY DoingBeside
  <2>6. Vacant(Stored', reg'[k].new)
    BY <2>5 DEF Doing
  <2>7. QED
    BY <2>2, <2>4, <2>6 DEF Vacant
<1>3. CASE t # u
  <2>1. pc[u] = "fetch" /\ reg[u].map.case = "Plain" /\ reg[u].map.host = host
    BY <1>1, <1>3, MovesAlone
  <2>2. HoldsNew(pc[k], reg[k]) => reg[k].new # host
    BY <2>1 DEF ReadingInv, Avoids
  <2>3. CASE t # k
    <3>1. pc'[k] = pc[k] /\ reg'[k] = reg[k]
      BY <1>1, <2>3, MovesAlone
    <3>2. QED
      BY <2>2, <3>1
  <2>4. CASE t = k
    <3>1. \/ dev.rc[reg'[k].new] = 0
          \/ HoldsNew(pc[k], reg[k]) /\ reg'[k].new = reg[k].new
      BY <2>4, NewFrom
    <3>2. dev.rc[host] > 0
      BY <2>1 DEF ReadingInv, Holding, Stored
    <3>3. QED
      BY <2>2, <3>1, <3>2
  <2>5. QED
    BY <2>3, <2>4
<1>4. QED
  BY <1>2, <1>3

LEMMA MovesRead ==
    ASSUME Typed, Typed', Serial, ReadingInv, NothingFreed, NEW t \in Threads, Moving(t), faults' = 0
    PROVE  ReadingInv'
<1>1. img' = img
  BY MovingObserves
<1>2. Apart(Stored') /\ CacheTrue(Stored)' /\ DeTrue(Stored', deCache') /\ L1Kept'
  BY <1>1, ApartNext, CacheNext, DeCacheNext, L1KeptNext
<1>3. \A k \in Writers : Doing(Stored', pc'[k], reg'[k])
  BY DoingBeside
<1>4. \A u \in Readers : Holding(Stored', pc'[u], reg'[u], seen'[u])
  BY HoldingNext
<1>5. \A k \in Writers, u \in Readers : Avoids(pc'[k], reg'[k], pc'[u], reg'[u])
  BY AvoidsNext
<1>6. QED
  BY <1>2, <1>3, <1>4, <1>5 DEF ReadingInv

(***************************************************************************)
(* flush(), a loss of power, and the image as it is opened                 *)
(***************************************************************************)
LEMMA FlushReads ==
    ASSUME Typed, Typed', ReadingInv, Flush
    PROVE  ReadingInv'
<1> DEFINE s == Stored
           x == Stored'
<1>1. /\ durable' = dev /\ UNCHANGED <<img, dev, memory>> /\ UNCHANGED <<pc, reg, seen>>
      /\ UNCHANGED <<l1, imageLen, l2Cache, deCache>>
  BY DEF Flush, Settle, memory
<1>2. \A r : Effect(s, x, "idle", r)
  BY <1>1, FlushEffect
<1>3. x.img = s.img /\ x.dev = s.dev /\ x.l1 = s.l1 /\ x.durable = s.dev /\ x.cache = s.cache
  BY <1>1 DEF Stored
<1>4. IsStore(s) /\ IsStore(x) /\ Apart(s)
  BY StoredTyped, StoredNext DEF ReadingInv
<1>5. Apart(x)
  <2>1. Blank.at \in VCluster
    BY BlankTyped, Numbers
  <2> HIDE DEF s, x
  <2>2. QED
    BY <1>2, <1>4, <2>1, IdleApart
<1>6. CacheTrue(Stored)'
  <2>1. \A v : Now(Stored', v) = Now(Stored, v)
    BY <1>3 DEF Now
  <2>2. \A v, e : Behind(v, e) => Behind(v, e)'
    BY <1>1 DEF Behind
  <2>3. CacheTrue(Stored)
    BY DEF ReadingInv
  <2>4. QED
    BY <1>3, <2>1, <2>2, <2>3 DEF CacheTrue
<1>7. DeTrue(x, deCache')
  <2>1. DeTrue(s, deCache) /\ deCache' = deCache
    BY <1>1 DEF ReadingInv
  <2> HIDE DEF s, x
  <2>2. QED
    BY <1>3, <2>1, OpenedSame DEF DeTrue
<1>8. L1Kept'
  BY <1>1 DEF ReadingInv, L1Kept
<1>9. ASSUME NEW t \in Writers PROVE Doing(x, pc'[t], reg'[t])
  <2>1. Doing(s, pc[t], reg[t]) /\ reg[t] \in Local
    BY AtHand
  <2> HIDE DEF s, x
  <2>2. Doing(x, pc[t], reg[t])
    BY <1>2, <1>3, <2>1, DoingStands
  <2>3. QED
    BY <1>1, <2>2
<1>10. ASSUME NEW u \in Readers PROVE Holding(x, pc'[u], reg'[u], seen'[u])
  <2>1. /\ Holding(s, pc[u], reg[u], seen[u]) /\ reg[u] \in Local /\ LocalsGood(u)
        /\ imageLen \in 0 .. Clusters
    BY TypedParts DEF ReadingInv
  <2>2. Placed(reg[u].map, imageLen)
    BY <2>1 DEF LocalsGood, GoodAt
  <2> HIDE DEF s, x
  <2>3. Holding(x, pc[u], reg[u], seen[u])
    BY <1>2, <1>4, <1>5, <2>1, <2>2, HoldingStays
  <2>4. QED
    BY <1>1, <2>3
<1>11. \A t \in Writers, u \in Readers : Avoids(pc'[t], reg'[t], pc'[u], reg'[u])
  BY <1>1 DEF ReadingInv
<1>12. QED
  BY <1>5, <1>6, <1>7, <1>8, <1>9, <1>10, <1>11 DEF ReadingInv

(* What survives is made of what was there.                                *)
LEMMA LeftApart ==
    ASSUME Typed, Apart(Stored), NEW d \in Survivors
    PROVE  Apart(Left(d))
<1> DEFINE s == Stored
           x == Left(d)
<1>1. Mixes(d, s) /\ Within(x, s)
  BY LeftWithin
<1>2. x.dev = d /\ x.durable = d
  BY DEF Left
<1>3. IsStore(s)
  BY StoredTyped
<1> HIDE DEF s, x
<1>4. Gains(s, x, {}, {})
  BY <1>1, WithinGains
<1>5. CountsLast(s, x)
  BY <1>1, <1>2 DEF Mixes, CountsLast, Counted, One
<1>6. ASSUME NEW c \in Cluster, OfPayload(s, c) PROVE d.data[c] = s.img.dev.data[c]
  <2>1. s.dev.data[c] = s.img.dev.data[c] /\ s.durable.data[c] = s.img.dev.data[c]
    BY <1>6 DEF s, Apart, PayloadsStay
  <2>2. \A w \in Word : d.data[c][w] = s.img.dev.data[c][w]
    BY <1>1, <2>1 DEF Mixes
  <2>3. d.data[c] \in [Word -> Nat] /\ s.img.dev.data[c] \in [Word -> Nat]
    BY <1>1, <1>3 DEF Mixes, Device, IsStore, Image
  <2>4. QED
    BY <2>2, <2>3
<1>7. WordsStay(s, x)
  BY <1>2, <1>6 DEF WordsStay
<1>8. QED
  BY <1>4, <1>5, <1>7, ApartKeeps DEF s, x

(* With every thread idle and nothing cached there is little to say.       *)
LEMMA RestReads ==
    ASSUME Apart(Stored), l2Cache = <<>>, deCache = <<>>, pc = Idle, reg = NoLocals
    PROVE  ReadingInv
<1>1. CacheTrue(Stored) /\ DeTrue(Stored, deCache)
  BY DEF CacheTrue, Stored, DeTrue
<1>2. \A t \in Threads : pc[t] = "idle" /\ reg[t] = Blank
  BY DEF Idle, NoLocals
<1>3. L1Kept
  BY <1>2 DEF L1Kept
<1>4. "idle" \in Unburdened /\ Blank.why # "copy"
  BY BlankTyped DEF Unburdened
<1>5. \A t \in Writers : Doing(Stored, pc[t], reg[t]) /\ ~HoldsNew(pc[t], reg[t])
  BY <1>2, <1>4, UnburdenedDoing, StepHolds DEF Threads
<1>6. \A u \in Readers : Holding(Stored, pc[u], reg[u], seen[u])
  BY <1>2, NothingHeld DEF Threads
<1>7. QED
  BY <1>1, <1>3, <1>5, <1>6 DEF ReadingInv, Avoids

LEMMA RestReadsNext ==
    (/\ Apart(Stored) /\ l2Cache = <<>> /\ deCache = <<>> /\ pc = Idle
     /\ reg = NoLocals)' => ReadingInv'
<1>1. (/\ Apart(Stored) /\ l2Cache = <<>> /\ deCache = <<>> /\ pc = Idle
       /\ reg = NoLocals) => ReadingInv
  BY RestReads
<1>2. QED
  BY <1>1, PTL

LEMMA CrashReads ==
    ASSUME Typed, ReadingInv, Crash
    PROVE  ReadingInv'
<1>1. dev' \in Survivors /\ Stored' = Left(dev')
  BY DEF Crash, Stored, Left
<1>2. Apart(Stored')
  BY <1>1, LeftApart DEF ReadingInv
<1>3. Apart(Stored)'
  BY <1>2
<1>4. (/\ Apart(Stored) /\ l2Cache = <<>> /\ deCache = <<>> /\ pc = Idle
       /\ reg = NoLocals)'
  BY <1>3 DEF Crash
<1>5. QED
  BY <1>4, RestReadsNext

(* An image in which nothing is shared is apart when it is opened.         *)
LEMMA OpenedApart ==
    ASSUME NEW s, IsStore(s), AtRest(s), s.dev = s.img.dev,
           SoundImage(s.img), Unshared(s.img)
    PROVE  Apart(s)
<1> DEFINE d == s.dev
           paths(c) == PathsThrough(d, Targets(d.l1), c)
<1>1. /\ \A i \in L1Index : \A c : Names(s, i, c) <=> d.l1[i].at = c
      /\ \A v \in VCluster, e \in L2Entry : Has(s, v, e) => e = Opened(s, v)
      /\ s.durable = d
  BY AtRestFacts DEF Opened, AtRest
<1>2. \A c : \A v \in VCluster : Reaches(Opened(s, v), c) => v \in paths(c)
  BY DEF PathsThrough, Reaches, Opened
<1>3. ASSUME NEW c \in Cluster, NEW p, p \in paths(c) PROVE Counted(s, c)
  <2>1. References(d, s.img.snap, c) <= d.rc[c]
    BY DEF SoundImage
  <2>2. References(d, s.img.snap, c) = Cardinality(Refs(s, c)) + Cardinality(Kept(s, c))
    BY DEF References, Refs, Kept
  <2>3. Refs(s, c) = paths(c) /\ Refs(s, c) \in SUBSET Place /\ Kept(s, c) \in SUBSET Place
    BY RefsFacts DEF Refs
  <2>4. p \in Place
    BY <1>3, <2>3
  <2> HIDE DEF d, paths
  <2>5. /\ Cardinality(Refs(s, c) \ {p}) \in Nat /\ Cardinality(Kept(s, c)) \in Nat
        /\ Cardinality(Refs(s, c)) = Cardinality(Refs(s, c) \ {p}) + 1
    BY <1>3, <2>3, <2>4, SplitCount, Counting
  <2>6. d.rc[c] \in Nat
    BY RcTyped DEF d
  <2>7. d.rc[c] > 0
    BY <2>1, <2>2, <2>5, <2>6
  <2>8. QED
    BY <1>1, <2>7 DEF Counted, d
<1>4. TablesApart(s)
  <2> SUFFICES ASSUME NEW i \in L1Index, NEW a \in Cluster, Names(s, i, a)
               PROVE  One(s, a) /\ \A k \in L1Index : Names(s, k, a) => k = i
    BY DEF TablesApart
  <2>1. d.l1[i].at = a
    BY <1>1
  <2>2. One(s, a)
    BY <1>1, <2>1 DEF Unshared, One
  <2>3. paths(a) = {<<i>>}
    BY <2>1 DEF SoundImage
  <2>4. ASSUME NEW k \in L1Index, Names(s, k, a) PROVE k = i
    <3>1. d.l1[k].at = a
      BY <1>1, <2>4
    <3>2. <<k>> \in paths(a)
      BY <3>1 DEF PathsThrough, Targets
    <3>3. <<k>> = <<i>>
      BY <2>3, <3>2
    <3>4. QED
      BY <3>3
  <2>5. QED
    BY <2>2, <2>4
<1>5. ASSUME NEW v \in VCluster, NEW c \in Cluster, Bears(s, v, c)
      PROVE  /\ Counted(s, c) /\ ~OfPayload(s, c)
             /\ \A u \in VCluster : Bears(s, u, c) => u = v
  <2>1. \A u \in VCluster : Bears(s, u, c) => Opened(s, u).kind = "standard" /\ Opened(s, u).at = c
    BY <1>1 DEF Bears
  <2>2. Opened(s, v).kind = "standard" /\ Opened(s, v).at = c
    BY <1>5, <2>1
  <2>3. paths(c) = {v}
    BY <2>2 DEF Unshared, Opened
  <2>4. \A u \in VCluster : Reaches(Opened(s, u), c) => u = v
    BY <1>2, <2>3
  <2>5. \A u \in VCluster : Bears(s, u, c) => u = v
    BY <2>1, <2>4 DEF Reaches
  <2>6. ~OfPayload(s, c)
    BY <2>2, <2>4 DEF OfPayload, IsPayload
  <2>7. v \in paths(c)
    BY <2>3
  <2>8. QED
    BY <1>3, <2>5, <2>6, <2>7
<1>6. ASSUME NEW c \in Cluster, OfPayload(s, c) PROVE Counted(s, c)
  <2>1. PICK u \in VCluster : Reaches(Opened(s, u), c)
    BY <1>6 DEF OfPayload
  <2>2. u \in paths(c)
    BY <1>2, <2>1
  <2>3. QED
    BY <1>3, <2>2
<1>7. DataApart(s) /\ PayloadsStay(s) /\ OnlyStandardMade(s)
  BY <1>1, <1>5, <1>6 DEF DataApart, PayloadsStay, OnlyStandardMade
<1>8. QED
  BY <1>4, <1>7 DEF Apart

LEMMA InitReads ==
    ASSUME \A image \in Images : SoundImage(image) /\ Unshared(image), Init, Typed
    PROVE  ReadingInv
<1>1. IsStore(Stored) /\ AtRest(Stored) /\ Stored.dev = Stored.img.dev /\ Stored.img \in Images
  BY StoredTyped DEF Init, Stored, AtRest
<1>2. Apart(Stored)
  BY <1>1, OpenedApart
<1>3. QED
  BY <1>2, RestReads DEF Init

(***************************************************************************)
(* Reads are current                                                       *)
(***************************************************************************)
LEMMA NextMoves ==
    ASSUME Next
    PROVE  (\E t \in Threads : Moving(t)) \/ Flush \/ Crash
  BY DEF Next, Moving, Threads

LEMMA ReadingNext ==
    ASSUME Typed, Serial, ReadingInv, NothingFreed, faults' = 0, [Next]_vars
    PROVE  ReadingInv'
<1>1. CASE UNCHANGED vars
  <2>1. UNCHANGED <<img, dev, durable, l1, l2Cache, deCache, pc, reg, seen>>
    BY <1>1 DEF vars, memory
  <2>2. Stored' = Stored
    BY <2>1 DEF Stored
  <2>3. CacheTrue(Stored)'
    BY <2>1, <2>2 DEF ReadingInv, CacheTrue, Behind
  <2>4. QED
    BY <2>1, <2>2, <2>3 DEF ReadingInv, L1Kept
<1>2. CASE Next
  <2>1. Typed'
    BY <1>2, NextTyped
  <2>2. QED
    BY <1>2, <2>1, NextMoves, MovesRead, FlushReads, CrashReads
<1>3. QED
  BY <1>1, <1>2

Untroubled == faults = 0 /\ NothingFreed

(* Of an image that shares no table and no cluster of plain data between   *)
(* two of its virtual clusters: read_at returns, for each word, what a     *)
(* lookup would have found at some moment of the call, or what the writer  *)
(* had replaced and not yet dropped from the L2 cache, however its steps   *)
(* fall between those of write_at, of flush() and of other reads.  The     *)
(* premises are that so far no device call has failed, for then the L1     *)
(* table in memory and the device's may differ, and that no release has    *)
(* brought a count to zero: read_at keeps a host offset after it has given *)
(* up every lock, and a freed cluster may be filled for someone else.      *)
THEOREM ReadsStayCurrent ==
    ASSUME \A image \in Images : SoundImage(image) /\ Unshared(image)
    PROVE  Spec /\ [](faults = 0 /\ NothingFreed) => []ReadsAreCurrent
<1>1. Init => Typed /\ Serial /\ ReadingInv
  BY InitTyped, InitReads
<1>2. Typed /\ Serial /\ [Next]_vars => Typed' /\ Serial'
  BY NextTyped
<1>3. Typed /\ Serial /\ ReadingInv /\ Untroubled /\ Untroubled' /\ [Next]_vars => ReadingInv'
  BY ReadingNext DEF Untroubled
<1>4. ReadingInv => ReadsAreCurrent
  BY DEF ReadingInv, Holding, ReadsAreCurrent
<1>5. faults = 0 /\ NothingFreed <=> Untroubled
  BY DEF Untroubled
<1>6. QED
  BY <1>1, <1>2, <1>3, <1>4, <1>5, PTL DEF Spec

(***************************************************************************)
(* A finished chunk, with readers beside the writers                       *)
(***************************************************************************)
(* The words a writer brings: on their way into the new cluster, in it     *)
(* before the table leads there, and found through the tables at the end.  *)
Brings(s, step, r) ==
    LET e == Now(s, r.at) IN
    /\ Filling(step, r.why) => Holds(r.full, r)
    /\ Carries(step, r.why) \/ Pointed(step, r.why) =>
        r.new \in Cluster /\ Holds(s.dev.data[r.new], r)
    /\ Pointed(step, r.why) => e = L2EntryFor(r.new)
    /\ step = "next" => e.kind = "standard" /\ e.at \in Cluster /\ Holds(s.dev.data[e.at], r)

LEMMA NothingBrought ==
    ASSUME NEW s, NEW r, NEW step \in {"idle", "lock", "l1", "l2", "plan", "inPlace"}
    PROVE  Brings(s, step, r)
  BY DEF Brings, Filling, Carries, Pointed, ReleaseSteps

LEMMA CarryBrings ==
    ASSUME NEW s, NEW x, NEW step, NEW r, Effect(s, x, step, r), Brings(s, step, r),
           step \notin {"fill", "inPlace"}, Carries(step, r.why) \/ Pointed(step, r.why),
           NEW q, q.at = r.at, q.range = r.range, q.val = r.val, q.new = r.new
    PROVE  q.new \in Cluster /\ Holds(x.dev.data[q.new], q)
<1>1. r.new \in Cluster /\ Holds(s.dev.data[r.new], r)
  BY DEF Brings
<1>2. ~Overwrites(step, r, r.new)
  BY DEF Overwrites
<1>3. x.dev.data[r.new] = s.dev.data[r.new]
  BY <1>1, <1>2 DEF Effect
<1>4. QED
  BY <1>1, <1>3 DEF Holds

LEMMA MadePlain ==
    ASSUME NEW c \in Cluster
    PROVE  L2EntryFor(c).kind = "standard" /\ L2EntryFor(c).at = c
  BY DEF L2EntryFor, NoEntry

(* From the plan to the new cluster.                                       *)
LEMMA PlanBrings ==
    ASSUME Typed, ReadingInv, NEW t \in Writers, Brings(Stored, pc[t], reg[t]),
           PlanReallocate(t) \/ Allocate(t) \/ FlushAllocate(t), Effect(Stored, Stored', pc[t], reg[t])
    PROVE  Brings(Stored', pc'[t], reg'[t])
<1> DEFINE r == reg[t]
           s == Stored
           x == Stored'
<1>1. /\ r \in Local /\ Doing(s, pc[t], r) /\ Chunk(r.range, r.at) \subseteq Word
  BY AtHand DEF Chunk
<1>2. /\ \A step : Go(t, step) => pc'[t] = step
      /\ \A locals : Set(t, locals) => reg'[t] = locals
      /\ UNCHANGED reg => reg'[t] = r
  BY GoSet
<1>3. Leave(t) => Brings(x, pc'[t], reg'[t])
  BY <1>2, NothingBrought DEF Leave
<1>4. CASE PlanReallocate(t)
  <2>1. PICK words, old :
            /\ Set(t, [r EXCEPT !.full = words, !.old = old, !.why = "data"])
            /\ \A w \in Chunk(r.range, r.at) : words[w] = r.val
    <3> DEFINE words == Spliced(Seed(r.at, r.map), r.range, r.at, r.val)
               old == ReleaseOf(r.map)
    <3>1. \A w \in Chunk(r.range, r.at) : words[w] = r.val
      BY <1>1 DEF Spliced
    <3>2. Set(t, [r EXCEPT !.full = words, !.old = old, !.why = "data"])
      BY <1>4 DEF PlanReallocate
    <3> HIDE DEF words, old
    <3>3. QED
      BY <3>1, <3>2
  <2>2. reg'[t] = [r EXCEPT !.full = words, !.old = old, !.why = "data"]
    BY <1>2, <2>1
  <2>3. /\ reg'[t].at = r.at /\ reg'[t].range = r.range /\ reg'[t].val = r.val
        /\ reg'[t].full = words /\ reg'[t].why = "data"
    BY <1>1, <2>2 DEF Local
  <2>4. pc'[t] = "allocate"
    BY <1>2, <1>4 DEF PlanReallocate
  <2>5. Holds(reg'[t].full, reg'[t])
    BY <2>1, <2>3 DEF Holds
  <2>6. QED
    BY <2>3, <2>4, <2>5 DEF Brings, Filling, Carries, Pointed, ReleaseSteps
<1>5. CASE Allocate(t)
  <2>1. pc[t] = "allocate"
    BY <1>5 DEF Allocate
  <2>2. ASSUME NEW c,
               Set(t, IF r.why = "data" THEN [r EXCEPT !.new = c] ELSE [r EXCEPT !.table = c]),
               Go(t, "allocateFlush")
        PROVE  Brings(x, pc'[t], reg'[t])
    <3>1. /\ reg'[t].at = r.at /\ reg'[t].range = r.range /\ reg'[t].val = r.val
          /\ reg'[t].full = r.full /\ reg'[t].why = r.why /\ pc'[t] = "allocateFlush"
          /\ r.why # "data" => reg'[t].new = r.new
      BY <1>1, <1>2, <2>2 DEF Local
    <3>2. CASE r.why = "data"
      <4>1. Holds(r.full, r)
        BY <2>1, <3>2 DEF Brings, Filling
      <4>2. QED
        BY <3>1, <3>2, <4>1 DEF Brings, Filling, Carries, Pointed, Holds, ReleaseSteps
    <3>3. CASE r.why # "data"
      <4>1. Carries(pc[t], r.why)
        BY <2>1, <3>3 DEF Carries
      <4>2. reg'[t].new \in Cluster /\ Holds(x.dev.data[reg'[t].new], reg'[t])
        BY <2>1, <3>1, <3>3, <4>1, CarryBrings
      <4>3. QED
        BY <3>1, <3>3, <4>2 DEF Brings, Filling, Carries, Pointed, ReleaseSteps
    <3>4. QED
      BY <3>2, <3>3
  <2>3. QED
    BY <1>3, <1>5, <2>2 DEF Allocate
<1>6. CASE FlushAllocate(t)
  <2>1. pc[t] = "allocateFlush" /\ r.why \in {"data", "table"}
    BY <1>1, <1>6, AtHand DEF FlushAllocate, LocalsGood, GoodAt, Doing
  <2>2. /\ pc'[t] = IF r.why = "data" THEN "fill" ELSE "zero"
        /\ reg'[t] = r
    BY <1>2, <1>6, <2>1 DEF FlushAllocate, FlushThen
  <2>3. CASE r.why = "data"
    <3>1. Holds(r.full, r)
      BY <2>1, <2>3 DEF Brings, Filling
    <3>2. QED
      BY <2>2, <2>3, <3>1 DEF Brings, Filling, Carries, Pointed, ReleaseSteps
  <2>4. CASE r.why # "data"
    <3>1. Carries(pc[t], r.why)
      BY <2>1, <2>4 DEF Carries
    <3>2. r.new \in Cluster /\ Holds(x.dev.data[r.new], r)
      BY <2>1, <3>1, CarryBrings
    <3>3. QED
      BY <2>2, <2>4, <3>2 DEF Brings, Filling, Carries, Pointed, ReleaseSteps
  <2>5. QED
    BY <2>3, <2>4
<1>7. QED
  BY <1>4, <1>5, <1>6

(* The words land, in place or in the new cluster.                         *)
LEMMA WordsBrings ==
    ASSUME Typed, ReadingInv, NEW t \in Writers, Brings(Stored, pc[t], reg[t]),
           WriteInPlace(t) \/ Fill(t), Effect(Stored, Stored', pc[t], reg[t])
    PROVE  Brings(Stored', pc'[t], reg'[t])
<1> DEFINE r == reg[t]
           s == Stored
           x == Stored'
<1>1. /\ r \in Local /\ LocalsGood(t) /\ Doing(s, pc[t], r) /\ Chunk(r.range, r.at) \subseteq Word
      /\ r.at \in VCluster /\ r.map \in ClusterMap /\ imageLen \in 0 .. Clusters /\ dev \in Device
  BY AtHand, TypedParts DEF Chunk, StoreTyped
<1>2. /\ \A step : Go(t, step) => pc'[t] = step
      /\ UNCHANGED reg => reg'[t] = r
  BY GoSet
<1>3. Leave(t) => Brings(x, pc'[t], reg'[t])
  BY <1>2, NothingBrought DEF Leave
<1>4. x.dev = dev'
  BY DEF Stored
<1>5. CASE WriteInPlace(t)
  <2>1. pc[t] = "inPlace" /\ r.map.case = "Plain"
    BY <1>1, <1>5 DEF WriteInPlace, LocalsGood, GoodAt
  <2>2. r.map.host \in Cluster
    BY <1>1, <2>1, PlacedInCluster DEF LocalsGood, GoodAt
  <2>3. Holds(dev'.data[r.map.host], r)
    <3>1. dev' = [dev EXCEPT !.data[r.map.host] = Spliced(@, r.range, r.at, r.val)]
      BY <1>5 DEF WriteInPlace
    <3>2. dev'.data[r.map.host] = Spliced(dev.data[r.map.host], r.range, r.at, r.val)
      BY <1>1, <2>2, <3>1 DEF Device
    <3>3. QED
      BY <1>1, <3>2 DEF Holds, Spliced
  <2>4. PICK b \in BOOLEAN : r.map = MapOf(Now(s, r.at), b)
    BY <1>1, <2>1 DEF Doing, FindsNow
  <2>5. Now(s, r.at) \in L2Entry
    BY <1>1, AtHand, NowFacts
  <2>6. Now(s, r.at).kind = "standard" /\ Now(s, r.at).at = r.map.host
    BY <2>1, <2>4, <2>5 DEF MapOf, L2Entry
  <2>7. Now(x, r.at) = Now(s, r.at)
    BY <1>1, <2>1 DEF Effect
  <2>8. CASE Go(t, "next") /\ UNCHANGED reg
    <3>1. pc'[t] = "next" /\ reg'[t] = r
      BY <1>2, <2>8
    <3>2. QED
      BY <1>4, <2>2, <2>3, <2>6, <2>7, <3>1 DEF Brings, Filling, Carries, Pointed, ReleaseSteps
  <2>9. QED
    BY <1>3, <1>5, <2>8 DEF WriteInPlace, WrittenTo
<1>6. CASE Fill(t)
  <2>1. pc[t] = "fill" /\ r.new \in Cluster
    BY <1>1, <1>6 DEF Fill, LocalsGood, GoodAt
  <2>2. dev'.data[r.new] = r.full
    BY <1>1, <1>6, <2>1 DEF Fill, Device
  <2>3. Holds(r.full, r)
    BY <1>1, <2>1 DEF Brings, Filling
  <2>4. CASE Go(t, "fillFlush") /\ UNCHANGED reg
    <3>1. pc'[t] = "fillFlush" /\ reg'[t] = r
      BY <1>2, <2>4
    <3>2. QED
      BY <1>4, <2>1, <2>2, <2>3, <3>1 DEF Brings, Filling, Carries, Pointed, ReleaseSteps
  <2>5. QED
    BY <1>3, <1>6, <2>4 DEF Fill, WrittenTo
<1>7. QED
  BY <1>5, <1>6

(* The new cluster on its way into the table: no word of it changes.       *)
LEMMA OnwardBrings ==
    ASSUME Typed, ReadingInv, NEW t \in Writers, Brings(Stored, pc[t], reg[t]),
           \/ FlushFill(t) \/ Repoint(t) \/ Zero(t) \/ FlushZero(t) \/ CopyTable(t) \/ FlushCopy(t)
           \/ WriteL1(t) \/ FlushL1(t),
           Effect(Stored, Stored', pc[t], reg[t])
    PROVE  Brings(Stored', pc'[t], reg'[t])
<1> DEFINE r == reg[t]
           s == Stored
           x == Stored'
<1>1. r \in Local /\ Doing(s, pc[t], r)
  BY AtHand
<1>2. /\ \A step : Go(t, step) => pc'[t] = step
      /\ \A locals : Set(t, locals) => reg'[t] = locals
      /\ UNCHANGED reg => reg'[t] = r
  BY GoSet
<1>3. Leave(t) => Brings(x, pc'[t], reg'[t])
  BY <1>2, NothingBrought DEF Leave
<1>4. Carries(pc[t], r.why) /\ pc[t] \notin {"fill", "inPlace"}
  BY DEF Carries, FlushFill, Repoint, Zero, FlushZero, CopyTable, FlushCopy, WriteL1, FlushL1
<1>5. ASSUME NEW step \in {"repoint", "zeroFlush", "copyFlush", "l1Write", "l1Flush", "entry"},
             pc'[t] = step, reg'[t].at = r.at, reg'[t].range = r.range, reg'[t].val = r.val,
             reg'[t].new = r.new
      PROVE  Brings(x, pc'[t], reg'[t])
  <2>1. reg'[t].new \in Cluster /\ Holds(x.dev.data[reg'[t].new], reg'[t])
    BY <1>4, <1>5, CarryBrings
  <2>2. QED
    BY <1>5, <2>1 DEF Brings, Filling, Carries, Pointed, ReleaseSteps
<1>6. CASE FlushFill(t) \/ FlushZero(t) \/ FlushCopy(t)
  BY <1>2, <1>5, <1>6 DEF FlushFill, FlushZero, FlushCopy, FlushThen
<1>7. CASE Zero(t) \/ CopyTable(t) \/ WriteL1(t)
  <2>1. \/ Leave(t)
        \/ (Go(t, "zeroFlush") \/ Go(t, "copyFlush") \/ Go(t, "l1Flush")) /\ UNCHANGED reg
    BY <1>7 DEF Zero, CopyTable, WriteL1, WrittenTo
  <2>2. QED
    BY <1>2, <1>3, <1>5, <2>1
<1>8. CASE Repoint(t)
  <2> DEFINE entry == l1[r.at[1]]
  <2>1. CASE Set(t, [r EXCEPT !.table = entry.at]) /\ Go(t, "entry")
    <3>1. /\ reg'[t].at = r.at /\ reg'[t].range = r.range /\ reg'[t].val = r.val
          /\ reg'[t].new = r.new /\ pc'[t] = "entry"
      BY <1>1, <1>2, <2>1 DEF Local
    <3>2. QED
      BY <1>5, <3>1
  <2>2. ASSUME NEW why, why # "data", Set(t, [r EXCEPT !.why = why, !.l1Entry = entry]),
               Go(t, "allocate")
        PROVE  Brings(x, pc'[t], reg'[t])
    <3>1. /\ reg'[t].at = r.at /\ reg'[t].range = r.range /\ reg'[t].val = r.val
          /\ reg'[t].new = r.new /\ reg'[t].why = why /\ pc'[t] = "allocate"
      BY <1>1, <1>2, <2>2 DEF Local
    <3>2. reg'[t].new \in Cluster /\ Holds(x.dev.data[reg'[t].new], reg'[t])
      BY <1>4, <3>1, CarryBrings
    <3>3. QED
      BY <2>2, <3>1, <3>2 DEF Brings, Filling, Carries, Pointed, ReleaseSteps
  <2>3. WhatTable(entry) # "data"
    BY DEF WhatTable
  <2>4. QED
    BY <1>8, <2>1, <2>2, <2>3 DEF Repoint
<1>9. CASE FlushL1(t)
  <2>1. pc'[t] = "entry" /\ reg'[t] = r
    BY <1>1, <1>2, <1>9 DEF FlushL1, Doing
  <2>2. QED
    BY <1>5, <2>1
<1>10. QED
  BY <1>6, <1>7, <1>8, <1>9

(* The entry, the caches and the release.                                  *)
LEMMA PublishBrings ==
    ASSUME Typed, ReadingInv, NEW t \in Writers, Brings(Stored, pc[t], reg[t]),
           \/ WriteEntry(t) \/ FlushEntry(t) \/ ForgetL2(t) \/ ForgetData(t)
           \/ WriteRelease(t) \/ FlushRelease(t) \/ ReleaseFails(t),
           Effect(Stored, Stored', pc[t], reg[t])
    PROVE  Brings(Stored', pc'[t], reg'[t])
<1> DEFINE r == reg[t]
           s == Stored
           x == Stored'
<1>1. r \in Local /\ Doing(s, pc[t], r) /\ r.at \in VCluster /\ r.why # "copy"
  BY AtHand DEF Doing
<1>2. /\ \A step : Go(t, step) => pc'[t] = step
      /\ \A locals : Set(t, locals) => reg'[t] = locals
      /\ UNCHANGED reg => reg'[t] = r
  BY GoSet
<1>3. Leave(t) => Brings(x, pc'[t], reg'[t])
  BY <1>2, NothingBrought DEF Leave
<1>4. CASE WriteEntry(t)
  <2>1. pc[t] = "entry"
    BY <1>4 DEF WriteEntry
  <2>2. r.table \in Cluster /\ r.table = s.l1[r.at[1]].at
    BY <1>1, <2>1 DEF Doing
  <2>3. EntryPut(s, x, r.table, r.at[2], r.new)
    BY <1>4, <2>2, EntryWrites
  <2>4. Now(x, r.at) = L2EntryFor(r.new)
    <3>1. x.l1 = s.l1 /\ x.dev.table[r.table][r.at[2]] = L2EntryFor(r.new)
      BY <2>3 DEF EntryPut
    <3>2. x.l1[r.at[1]].at \in Cluster => Now(x, r.at) = x.dev.table[x.l1[r.at[1]].at][r.at[2]]
      BY <1>1, NowIs
    <3> HIDE DEF s, x
    <3>3. QED
      BY <2>2, <3>1, <3>2
  <2>5. Carries(pc[t], r.why)
    BY <2>1 DEF Carries
  <2>6. r.new \in Cluster /\ Holds(x.dev.data[r.new], r)
    BY <2>1, <2>5, CarryBrings
  <2>7. CASE Go(t, "entryFlush") /\ UNCHANGED reg
    <3>1. pc'[t] = "entryFlush" /\ reg'[t] = r
      BY <1>2, <2>7
    <3>2. QED
      BY <2>4, <2>6, <3>1 DEF Brings, Filling, Carries, Pointed, ReleaseSteps
  <2>8. QED
    BY <1>3, <1>4, <2>7 DEF WriteEntry, Written, WrittenTo
<1>5. CASE ~WriteEntry(t)
  <2>1. /\ pc[t] \in {"entryFlush", "forgetL2", "forgetData"} \cup ReleaseSteps
        /\ pc'[t] \in {"forgetL2", "forgetData", "next"} \cup ReleaseSteps
        /\ reg'[t] = r \/ reg'[t] = [r EXCEPT !.why = "release"]
    BY <1>1, <1>2, <1>5 DEF FlushEntry, ForgetL2, ForgetData, WriteRelease, FlushRelease, FlushThen,
                            ReleaseFails, ReleaseSteps, AfterRelease
  <2>2. Pointed(pc[t], r.why) /\ pc[t] \notin {"fill", "inPlace", "entry"}
    BY <1>1, <2>1 DEF Pointed, ReleaseSteps
  <2>3. /\ reg'[t].at = r.at /\ reg'[t].range = r.range /\ reg'[t].val = r.val
        /\ reg'[t].new = r.new /\ reg'[t].why # "copy"
    BY <1>1, <2>1 DEF Local
  <2>4. reg'[t].new \in Cluster /\ Holds(x.dev.data[reg'[t].new], reg'[t])
    BY <2>2, <2>3, CarryBrings
  <2>5. Now(x, r.at) = Now(s, r.at) /\ Now(s, r.at) = L2EntryFor(r.new)
    BY <1>1, <2>2 DEF Effect, Brings
  <2>6. L2EntryFor(r.new).kind = "standard" /\ L2EntryFor(r.new).at = r.new
    BY <2>3, <2>4, MadePlain
  <2>7. QED
    BY <2>1, <2>3, <2>4, <2>5, <2>6 DEF Brings, Filling, Carries, Pointed, ReleaseSteps
<1>6. QED
  BY <1>4, <1>5

LEMMA WriterBrings ==
    ASSUME Typed, Serial, ReadingInv, NothingFreed, NEW t \in Writers, Brings(Stored, pc[t], reg[t]),
           Lookup(t) \/ DeviceError(t) \/ StartWrite(t) \/ WriteStep(t)
    PROVE  Brings(Stored', pc'[t], reg'[t])
<1>1. Effect(Stored, Stored', pc[t], reg[t])
  BY WriterEffect
<1>2. /\ \A step : Go(t, step) => pc'[t] = step
      /\ Leave(t) => pc'[t] = "idle"
  BY GoSet DEF Leave
<1>3. CASE \/ Lookup(t) \/ DeviceError(t) \/ StartWrite(t) \/ TakeWriteLock(t) \/ PlanInPlace(t)
           \/ NoRoom(t) \/ NextChunk(t) \/ EndWrite(t)
  <2>1. pc'[t] \in {"idle", "lock", "l1", "l2", "plan", "inPlace"}
    BY <1>2, <1>3 DEF Lookup, LookupL1, LookupL2, Looked, Undecodable, DeviceError, StartWrite,
                      TakeWriteLock, PlanInPlace, NoRoom, NextChunk, EndWrite
  <2>2. QED
    BY <2>1, NothingBrought
<1>4. QED
  BY <1>1, <1>3, PlanBrings, WordsBrings, OnwardBrings, PublishBrings DEF WriteStep

AllBring == \A t \in Writers : Brings(Stored, pc[t], reg[t])

(* Another thread's step: no cluster a writer has filled is written to, and*)
(* nobody else is past the lock.                                           *)
LEMMA BringsNext ==
    ASSUME Typed, Serial, ReadingInv, NothingFreed, AllBring, [Next]_vars
    PROVE  AllBring'
<1> DEFINE s == Stored
           x == Stored'
<1> SUFFICES ASSUME NEW k \in Writers PROVE Brings(x, pc'[k], reg'[k])
  BY DEF AllBring
<1>1. Brings(s, pc[k], reg[k])
  BY DEF AllBring
<1>2. ASSUME x.dev = s.dev, x.l1 = s.l1, pc'[k] = pc[k], reg'[k] = reg[k]
      PROVE  Brings(x, pc'[k], reg'[k])
  <2>1. Now(x, reg[k].at) = Now(s, reg[k].at)
    BY <1>2 DEF Now
  <2>2. QED
    BY <1>1, <1>2, <2>1 DEF Brings
<1>3. CASE Flush \/ UNCHANGED vars
  BY <1>2, <1>3 DEF Flush, vars, memory, Stored
<1>4. CASE Crash
  <2>1. pc'[k] = "idle"
    BY <1>4 DEF Crash, Idle, Threads
  <2>2. QED
    BY <2>1, NothingBrought
<1>5. ASSUME NEW t \in Threads, Moving(t) PROVE Brings(x, pc'[k], reg'[k])
  <2>1. CASE t \notin Writers
    <3>1. t \in Readers /\ pc'[k] = pc[k] /\ reg'[k] = reg[k]
      BY <1>5, <2>1, MovesAlone, TypedParts DEF Threads
    <3>2. UNCHANGED <<dev, l1>>
      BY <1>5, <2>1 DEF Moving, Lookup, LookupL1, LookupL2, Undecodable, DeviceError, StartRead,
                        ReadStep, Fetch, Store, EndRead, memory
    <3>3. QED
      BY <1>2, <3>1, <3>2 DEF Stored
  <2>2. CASE t \in Writers /\ t = k
    <3>1. Lookup(t) \/ DeviceError(t) \/ StartWrite(t) \/ WriteStep(t)
      BY <1>5, <2>2, WriteAssumption DEF Moving
    <3>2. QED
      BY <1>1, <2>2, <3>1, WriterBrings
  <2>3. CASE t \in Writers /\ t # k
    <3>1. Lookup(t) \/ DeviceError(t) \/ StartWrite(t) \/ WriteStep(t)
      BY <1>5, <2>3, WriteAssumption DEF Moving
    <3>2. /\ pc'[k] = pc[k] /\ reg'[k] = reg[k]
          /\ pc[k] \in {"idle", "lock"} \/ x = s
      BY <2>3, <3>1, Beside
    <3>3. CASE pc[k] \in {"idle", "lock"}
      BY <3>2, <3>3, NothingBrought
    <3>4. QED
      BY <1>1, <3>2, <3>3
  <2>4. QED
    BY <2>1, <2>2, <2>3
<1>6. QED
  BY <1>3, <1>4, <1>5, NextMoves

LEMMA BroughtIsVisible ==
    ASSUME Typed, Serial, ReadingInv, AllBring
    PROVE  WriteIsVisible
<1> SUFFICES ASSUME NEW t \in Writers, pc[t] = "next", NEW w \in Chunk(reg[t].range, reg[t].at)
             PROVE  Visible(reg[t].at)[w] = reg[t].val
  BY DEF WriteIsVisible
<1> DEFINE v == reg[t].at
           e == Now(Stored, v)
<1>1. v \in VCluster /\ v[1] \in L1Index /\ v[2] \in L2Index
  BY AtHand
<1>2. e.kind = "standard" /\ e.at \in Cluster /\ dev.data[e.at][w] = reg[t].val
  <2>1. Brings(Stored, pc[t], reg[t])
    BY DEF AllBring
  <2>2. Stored.dev = dev
    BY DEF Stored
  <2>3. QED
    BY <2>1, <2>2 DEF Brings, Holds
<1>3. l1[v[1]].at \in Cluster /\ e = dev.table[l1[v[1]].at][v[2]]
  <2>1. Stored.l1 = l1 /\ Stored.dev = dev
    BY DEF Stored
  <2>2. NoEntry.at \notin Cluster
    BY Numbers DEF NoEntry
  <2>3. QED
    BY <1>1, <1>2, <2>1, <2>2, NowIs
<1>4. \A f : ~Behind(v, f)
  BY DEF Behind, Serial
<1>5. Cached(v[1], l1[v[1]].at)[2][v[2]] = e
  <2>1. CASE l2Cache # <<>> /\ l2Cache[1] = v[1]
    <3>1. Stored.cache = l2Cache /\ CacheTrue(Stored)
      BY DEF Stored, ReadingInv
    <3>2. l2Cache[2][v[2]] = e
      BY <1>1, <1>4, <2>1, <3>1 DEF CacheTrue
    <3>3. QED
      BY <2>1, <3>2 DEF Cached
  <2>2. CASE ~(l2Cache # <<>> /\ l2Cache[1] = v[1])
    BY <1>3, <2>2 DEF Cached
  <2>3. QED
    BY <2>1, <2>2
<1>6. l1[v[1]].at # None
  BY <1>3, Numbers DEF None, Cluster
<1>7. MapOf(e, FALSE).case = "Plain" /\ MapOf(e, FALSE).host = e.at
  BY <1>2, Numbers DEF MapOf
<1> HIDE DEF e
<1>8. Visible(v) = ClusterWords(dev.data, img.backing, v, MapOf(e, FALSE))
  BY <1>5, <1>6, <1>7 DEF Visible
<1>9. QED
  BY <1>2, <1>7, <1>8 DEF ClusterWords

(* write_at's last chunk beside readers: when a writer is done with a      *)
(* chunk, a lookup that starts then finds the new words through both       *)
(* caches, though readers fill them too.  The premises are those of        *)
(* ReadsStayCurrent: on an image with a shared table a reader may put the  *)
(* superseded one back into the L2 cache, and the lookup finds the old     *)
(* words.                                                                  *)
THEOREM WritesShowToReaders ==
    ASSUME \A image \in Images : SoundImage(image) /\ Unshared(image)
    PROVE  Spec /\ [](faults = 0 /\ NothingFreed) => []WriteIsVisible
<1>1. Init => Typed /\ Serial /\ ReadingInv /\ AllBring
  <2>1. Init => AllBring
    BY NothingBrought DEF Init, Idle, AllBring, Threads
  <2>2. QED
    BY <2>1, InitTyped, InitReads
<1>2. Typed /\ Serial /\ [Next]_vars => Typed' /\ Serial'
  BY NextTyped
<1>3. Typed /\ Serial /\ ReadingInv /\ Untroubled /\ Untroubled' /\ [Next]_vars => ReadingInv'
  BY ReadingNext DEF Untroubled
<1>4. Typed /\ Serial /\ ReadingInv /\ AllBring /\ Untroubled /\ [Next]_vars => AllBring'
  BY BringsNext DEF Untroubled
<1>5. Typed /\ Serial /\ ReadingInv /\ AllBring => WriteIsVisible
  BY BroughtIsVisible
<1>6. faults = 0 /\ NothingFreed <=> Untroubled
  BY DEF Untroubled
<1>7. QED
  BY <1>1, <1>2, <1>3, <1>4, <1>5, <1>6, PTL DEF Spec

(***************************************************************************)
(* Payloads that do not decode, with readers beside the writers            *)
(***************************************************************************)
GoodPayload(s, v) ==
    IsPayload(Opened(s, v)) /\ Decodes(s.img.dev.data, MapOf(Opened(s, v), FALSE))

Checking(step, r) == step = "allocate" /\ r.why = "data" /\ r.map.case = "Compressed"

(* What is cached, about to be cached, or about to be copied, decodes.     *)
PayloadsGood ==
    /\ deCache # <<>> => GoodPayload(Stored, deCache[1])
    /\ \A u \in Readers : pc[u] = "store" => GoodPayload(Stored, reg[u].at)
    /\ \A t \in Writers : Checking(pc[t], reg[t]) => GoodPayload(Stored, reg[t].at)

(* A payload decodes on the device as it did when the image was opened.    *)
LEMMA DecodesAsOpened ==
    ASSUME NEW s, IsStore(s), PayloadsStay(s), NEW v \in VCluster, IsPayload(Opened(s, v)),
           NEW b \in BOOLEAN, NEW map, map = MapOf(Opened(s, v), b),
           NEW len \in 0 .. Clusters, Placed(map, len)
    PROVE  Decodes(s.dev.data, map) <=> Decodes(s.img.dev.data, MapOf(Opened(s, v), FALSE))
<1> DEFINE e == Opened(s, v)
           once == MapOf(e, FALSE)
           was == s.img.dev.data
<1>1. e \in L2Entry
  BY OpenedIn
<1>2. /\ map \in ClusterMap /\ map.case = "Compressed"
      /\ map.host = e.at /\ map.last = LastOf(e) /\ map.part = e.part
      /\ once.host = e.at /\ once.last = LastOf(e) /\ once.part = e.part
  BY <1>1, MapOfEntry, MapTyped
<1>3. map.host \in Cluster /\ map.last \in Cluster
  BY <1>2, PlacedInCluster
<1>4. OfPayload(s, map.host) /\ OfPayload(s, map.last)
  BY <1>2 DEF OfPayload, Reaches
<1>5. s.dev.data[map.host] = was[map.host] /\ s.dev.data[map.last] = was[map.last]
  BY <1>3, <1>4 DEF PayloadsStay
<1>6. Decodes(s.dev.data, map) <=> Decodes(was, map)
  BY <1>5, PayloadSame
<1>7. map.host = once.host /\ map.last = once.last /\ map.part = once.part
  BY <1>2
<1> HIDE DEF once, was
<1>8. Decodes(was, map) <=> Decodes(was, once)
  BY <1>7, PayloadPlace
<1>9. QED
  BY <1>6, <1>8 DEF once, was

(* A writer's compressed mapping is the entry of the image as opened.      *)
LEMMA WriterPayload ==
    ASSUME Typed, ReadingInv, NEW t \in Writers, reg[t].map.case = "Compressed",
           pc[t] = "plan" \/ Copying(pc[t], reg[t])
    PROVE  /\ IsPayload(Opened(Stored, reg[t].at))
           /\ Decodes(dev.data, reg[t].map) <=> GoodPayload(Stored, reg[t].at)
<1> DEFINE s == Stored
           r == reg[t]
           e == Now(s, r.at)
<1>1. IsStore(s) /\ Apart(s) /\ r.at \in VCluster /\ FindsNow(s, r) /\ Placed(r.map, imageLen)
  BY AtHand DEF Doing, LocalsGood, GoodAt
<1>2. imageLen \in 0 .. Clusters
  BY TypedParts
<1>3. PICK b \in BOOLEAN : r.map = MapOf(e, b)
  BY <1>1 DEF FindsNow
<1>4. IsPayload(e)
  BY <1>1, <1>3, NowFacts, MapOfEntry
<1>5. e = Opened(s, r.at) /\ IsPayload(Opened(s, r.at))
  BY <1>1, <1>4, FoundOpened DEF Apart
<1>6. Decodes(s.dev.data, r.map) <=> Decodes(s.img.dev.data, MapOf(Opened(s, r.at), FALSE))
  BY <1>1, <1>2, <1>3, <1>5, DecodesAsOpened DEF Apart
<1>7. s.dev.data = dev.data
  BY DEF Stored
<1>8. QED
  BY <1>5, <1>6, <1>7 DEF GoodPayload

LEMMA ReaderPayload ==
    ASSUME Typed, ReadingInv, NEW u \in Readers, reg[u].map.case = "Compressed", pc[u] = "fetch"
    PROVE  Decodes(dev.data, reg[u].map) <=> GoodPayload(Stored, reg[u].at)
<1> DEFINE s == Stored
           r == reg[u]
<1>1. /\ IsStore(s) /\ Apart(s) /\ Holding(s, pc[u], r, seen[u])
      /\ r \in Local /\ LocalsGood(u) /\ imageLen \in 0 .. Clusters
  BY TypedParts, StoredTyped DEF ReadingInv
<1>2. r.at \in VCluster /\ Placed(r.map, imageLen)
  BY <1>1 DEF Local, LocalsGood, GoodAt
<1>3. IsPayload(Opened(s, r.at)) /\ \E b \in BOOLEAN : r.map = MapOf(Opened(s, r.at), b)
  BY <1>1 DEF Holding
<1>4. Decodes(s.dev.data, r.map) <=> Decodes(s.img.dev.data, MapOf(Opened(s, r.at), FALSE))
  BY <1>1, <1>2, <1>3, DecodesAsOpened DEF Apart
<1>5. s.dev.data = dev.data
  BY DEF Stored
<1>6. QED
  BY <1>3, <1>4, <1>5 DEF GoodPayload

(* What plan_write goes on with has been decoded, or was found in the      *)
(* cache, where nothing else gets.                                         *)
LEMMA PlannedGood ==
    ASSUME Typed, ReadingInv, PayloadsGood, NEW t \in Writers, PlanReallocate(t),
           reg[t].map.case = "Compressed"
    PROVE  GoodPayload(Stored, reg[t].at)
<1>1. pc[t] = "plan" /\ (DeCached(reg[t].at) \/ Decodes(dev.data, reg[t].map))
  BY DEF PlanReallocate, Readable
<1>2. QED
  BY <1>1, WriterPayload DEF DeCached, PayloadsGood

LEMMA CachedGood ==
    ASSUME Typed, ReadingInv, PayloadsGood, NEW t \in Threads, Moving(t), deCache' # <<>>
    PROVE  GoodPayload(Stored, deCache'[1])
<1>1. CASE deCache' = deCache
  BY <1>1 DEF PayloadsGood
<1>2. CASE t \in Writers /\ PlanReallocate(t)
  <2>1. deCache' = IF reg[t].map.case = "Compressed"
                   THEN <<reg[t].at, Seed(reg[t].at, reg[t].map)>> ELSE deCache
    BY <1>2 DEF PlanReallocate
  <2>2. CASE reg[t].map.case = "Compressed"
    <3>1. deCache'[1] = reg[t].at
      BY <2>1, <2>2
    <3>2. QED
      BY <1>2, <2>2, <3>1, PlannedGood
  <2>3. QED
    BY <1>1, <2>1, <2>2
<1>3. CASE t \in Readers /\ Store(t)
  <2>1. pc[t] = "store" /\ deCache'[1] = reg[t].at
    BY <1>3 DEF Store
  <2>2. QED
    BY <1>3, <2>1 DEF PayloadsGood
<1>4. QED
  BY <1>1, <1>2, <1>3, DeCacheMoves

LEMMA StoreGood ==
    ASSUME Typed, ReadingInv, PayloadsGood, NEW t \in Threads, Moving(t), NEW u \in Readers,
           pc'[u] = "store"
    PROVE  GoodPayload(Stored, reg'[u].at)
<1>1. u \in Threads
  BY TypedParts
<1>2. CASE u # t
  BY <1>1, <1>2, MovesAlone DEF PayloadsGood
<1>3. CASE u = t
  <2>1. u \notin Writers
    BY WriteAssumption
  <2>2. Fetch(u)
    BY <1>3, <2>1, MovesAlone
    DEF Moving, Lookup, LookupL1, LookupL2, Looked, Undecodable, DeviceError, StartRead, ReadStep,
        Store, EndRead
  <2>3. /\ pc[u] = "fetch" /\ Readable(reg[u].at, reg[u].map)
        /\ \E words : Set(u, [reg[u] EXCEPT !.full = words, !.val = words[reg[u].range.from]])
        /\ Go(u, IF reg[u].map.case = "Compressed"
                    /\ ~(reg[u].map.case = "Compressed" /\ DeCached(reg[u].at))
                 THEN "store" ELSE "done")
    BY <2>2 DEF Fetch
  <2>4. reg[u].map.case = "Compressed" /\ ~DeCached(reg[u].at)
    BY <1>3, <2>3, MovesAlone
  <2>5. Decodes(dev.data, reg[u].map)
    BY <2>3, <2>4 DEF Readable
  <2>6. reg'[u].at = reg[u].at
    <3>1. PICK words : Set(u, [reg[u] EXCEPT !.full = words, !.val = words[reg[u].range.from]])
      BY <2>3
    <3>2. reg'[u] = [reg[u] EXCEPT !.full = words, !.val = words[reg[u].range.from]]
      BY <1>3, <3>1, MovesAlone
    <3>3. reg[u] \in Local
      BY <1>1, TypedParts
    <3>4. QED
      BY <3>2, <3>3 DEF Local
  <2>7. QED
    BY <2>3, <2>4, <2>5, <2>6, ReaderPayload
<1>4. QED
  BY <1>2, <1>3

LEMMA ChecksGood ==
    ASSUME Typed, ReadingInv, PayloadsGood, NEW t \in Threads, Moving(t), NEW k \in Writers,
           Checking(pc'[k], reg'[k])
    PROVE  GoodPayload(Stored, reg'[k].at)
<1>1. k \in Threads /\ pc'[k] = "allocate" /\ reg'[k].why = "data" /\ reg'[k].map.case = "Compressed"
  BY TypedParts DEF Checking
<1>2. CASE k # t
  BY <1>1, <1>2, MovesAlone DEF PayloadsGood, Checking
<1>3. CASE k = t
  <2>1. Lookup(k) \/ DeviceError(k) \/ StartWrite(k) \/ WriteStep(k)
    BY <1>3, WriteAssumption DEF Moving
  <2>2. PlanReallocate(k) \/ Repoint(k)
    BY <1>1, <1>3, <2>1, MovesAlone
    DEF Lookup, LookupL1, LookupL2, Looked, Undecodable, DeviceError, StartWrite, WriteStep,
        TakeWriteLock, PlanInPlace, WriteInPlace, WrittenTo, Allocate, NoRoom, FlushAllocate, Fill,
        FlushFill, Zero, FlushZero, CopyTable, FlushCopy, WriteL1, FlushL1, WriteEntry, Written,
        FlushEntry, ForgetL2, ForgetData, WriteRelease, FlushRelease, ReleaseFails, AfterRelease,
        NextChunk, EndWrite, FlushThen
  <2>3. CASE PlanReallocate(k)
    <3>1. PICK words, old : Set(k, [reg[k] EXCEPT !.full = words, !.old = old, !.why = "data"])
      BY <2>3 DEF PlanReallocate
    <3>2. reg'[k] = [reg[k] EXCEPT !.full = words, !.old = old, !.why = "data"]
      BY <1>3, <3>1, MovesAlone
    <3>3. reg[k] \in Local
      BY <1>1, TypedParts
    <3>4. reg'[k].at = reg[k].at /\ reg'[k].map = reg[k].map
      BY <3>2, <3>3 DEF Local
    <3>5. QED
      BY <1>1, <2>3, <3>4, PlannedGood
  <2>4. CASE Repoint(k)
    <3> DEFINE entry == l1[reg[k].at[1]]
    <3>1. WhatTable(entry) # "data"
      BY DEF WhatTable
    <3>2. reg'[k] = [reg[k] EXCEPT !.why = WhatTable(entry), !.l1Entry = entry]
      BY <1>1, <1>3, <2>4, MovesAlone DEF Repoint
    <3>3. reg'[k].why = WhatTable(entry)
      BY <1>1, <3>2, TypedParts DEF Local
    <3>4. QED
      BY <1>1, <3>1, <3>3
  <2>5. QED
    BY <2>2, <2>3, <2>4
<1>4. QED
  BY <1>2, <1>3

LEMMA PayloadsGoodNext ==
    ASSUME Typed, ReadingInv, PayloadsGood, [Next]_vars
    PROVE  PayloadsGood'
<1> DEFINE Same == img' = img
<1>1. ASSUME Same PROVE \A v : GoodPayload(Stored', v) <=> GoodPayload(Stored, v)
  <2>1. Stored'.img = Stored.img
    BY <1>1 DEF Stored
  <2>2. QED
    BY <2>1, OpenedSame DEF GoodPayload
<1>2. CASE Flush \/ UNCHANGED vars
  <2>1. UNCHANGED <<img, deCache, pc, reg>>
    BY <1>2 DEF Flush, vars, memory
  <2>2. QED
    BY <1>1, <2>1 DEF PayloadsGood
<1>3. CASE Crash
  <2>1. deCache' = <<>> /\ \A t \in Threads : pc'[t] = "idle"
    BY <1>3 DEF Crash, Idle
  <2>2. QED
    BY <2>1, TypedParts DEF PayloadsGood, Checking
<1>4. ASSUME NEW t \in Threads, Moving(t) PROVE PayloadsGood'
  <2>1. img' = img
    BY <1>4, MovingObserves
  <2>2. QED
    BY <1>1, <1>4, <2>1, CachedGood, StoreGood, ChecksGood DEF PayloadsGood
<1>5. QED
  BY <1>2, <1>3, <1>4, NextMoves

(* Beside readers too, and under the premises of ReadsStayCurrent: no      *)
(* thread works at an offset past the device's end, and write_at allocates *)
(* nothing in place of a payload that does not decode, whichever call put  *)
(* what it finds into the decompression cache.                             *)
THEOREM DamageRefusedBesideReaders ==
    ASSUME \A image \in Images : SoundImage(image) /\ Unshared(image)
    PROVE  Spec /\ [](faults = 0 /\ NothingFreed) => []DamageIsRefused
<1>1. Init => Typed /\ Serial /\ ReadingInv /\ PayloadsGood
  <2>1. Init => PayloadsGood
    BY DEF Init, Idle, PayloadsGood, Checking, Threads
  <2>2. QED
    BY <2>1, InitTyped, InitReads
<1>2. Typed /\ Serial /\ [Next]_vars => Typed' /\ Serial'
  BY NextTyped
<1>3. Typed /\ Serial /\ ReadingInv /\ Untroubled /\ Untroubled' /\ [Next]_vars => ReadingInv'
  BY ReadingNext DEF Untroubled
<1>4. Typed /\ ReadingInv /\ PayloadsGood /\ [Next]_vars => PayloadsGood'
  BY PayloadsGoodNext
<1>5. Typed /\ ReadingInv /\ PayloadsGood => PayloadsAreChecked
  <2> SUFFICES ASSUME Typed, ReadingInv, PayloadsGood, NEW t \in Writers, Checking(pc[t], reg[t])
               PROVE  Decodes(dev.data, reg[t].map)
    BY DEF PayloadsAreChecked, Checking
  <2>1. GoodPayload(Stored, reg[t].at)
    BY DEF PayloadsGood
  <2>2. QED
    BY <2>1, WriterPayload DEF Checking, Copying
<1>6. faults = 0 /\ NothingFreed <=> Untroubled
  BY DEF Untroubled
<1>7. OffsetsAreChecked /\ PayloadsAreChecked => DamageIsRefused
  BY DEF DamageIsRefused
<1>8. QED
  BY <1>1, <1>2, <1>3, <1>4, <1>5, <1>6, <1>7, OffsetsStayInside, PTL DEF Spec
=============================================================================
