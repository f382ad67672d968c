--------------------------- MODULE ExtentsProofs ---------------------------
(***************************************************************************)
(* Extents for every word width, image, disk size and number of writes by  *)
(* the other thread: the extents tile the disk and say what was true since *)
(* the walk began, an undisturbed walk is exact, a walk costs what it      *)
(* must; a fresh entry reads back, and a payload's span covers it.         *)
(***************************************************************************)
EXTENDS Extents, Integers, FiniteSetTheorems, TLAPS

(***************************************************************************)
(* Division                                                                *)
(***************************************************************************)
LEMMA DivMod ==
    ASSUME NEW a \in Nat, NEW c \in Nat \ {0}
    PROVE  a \div c \in Nat /\ a % c \in 0 .. c - 1 /\ a = c * (a \div c) + (a % c)
<1>1. a \div c \in Int /\ a % c \in 0 .. c - 1 /\ a = c * (a \div c) + (a % c)
  OBVIOUS
<1>2. CASE a \div c < 0
  <2>1. c * (a \div c) <= c * (-1)
    BY <1>1, <1>2
  <2>2. QED
    BY <1>1, <2>1
<1>3. QED
  BY <1>1, <1>2

LEMMA LessTimes ==
    ASSUME NEW c \in Nat, NEW p \in Nat, NEW q \in Nat, p < q
    PROVE  c * p + c <= c * q
<1>1. c * (p + 1) <= c * q
  OBVIOUS
<1>2. c * (p + 1) = c * p + c
  OBVIOUS
<1>3. QED
  BY <1>1, <1>2

(* Quotient and remainder are the only ones.                               *)
LEMMA DivModUnique ==
    ASSUME NEW a \in Nat, NEW c \in Nat \ {0}, NEW q \in Nat, NEW r \in 0 .. c - 1,
           a = c * q + r
    PROVE  a \div c = q /\ a % c = r
<1> DEFINE p == a \div c
           s == a % c
<1>1. p \in Nat /\ s \in 0 .. c - 1 /\ a = c * p + s
  BY DivMod
<1> HIDE DEF p, s
<1>2. CASE p < q
  <2>1. c * p + c <= c * q
    BY <1>1, <1>2, LessTimes
  <2>2. c * p \in Nat /\ c * q \in Nat
    BY <1>1
  <2>3. QED
    BY <1>1, <2>1, <2>2
<1>3. CASE q < p
  <2>1. c * q + c <= c * p
    BY <1>1, <1>3, LessTimes
  <2>2. c * p \in Nat /\ c * q \in Nat
    BY <1>1
  <2>3. QED
    BY <1>1, <2>1, <2>2
<1>4. CASE p = q
  <2>1. c * p \in Nat /\ c * p = c * q
    BY <1>1, <1>4
  <2>2. s = r
    BY <1>1, <2>1
  <2>3. QED
    BY <1>4, <2>2 DEF p, s
<1>5. QED
  BY <1>1, <1>2, <1>3, <1>4

LEMMA SmallMod ==
    ASSUME NEW a \in Nat, NEW c \in Nat \ {0}, a < c
    PROVE  a % c = a /\ a \div c = 0
<1>1. a = c * 0 + a /\ a \in 0 .. c - 1
  OBVIOUS
<1>2. QED
  BY <1>1, DivModUnique

LEMMA MultipleMod ==
    ASSUME NEW c \in Nat \ {0}, NEW q \in Nat
    PROVE  (c * q) % c = 0 /\ (c * q) \div c = q
<1>1. c * q \in Nat /\ c * q = c * q + 0 /\ 0 \in 0 .. c - 1
  OBVIOUS
<1>2. QED
  BY <1>1, DivModUnique

(* The next cluster after an aligned offset is aligned.                    *)
LEMMA NextAligned ==
    ASSUME NEW a \in Nat, NEW c \in Nat \ {0}, a % c = 0
    PROVE  (a + c) % c = 0
<1> DEFINE q == a \div c
<1>1. q \in Nat /\ a = c * q + 0
  BY DivMod
<1> HIDE DEF q
<1>2. a + c = c * (q + 1)
  BY <1>1
<1>3. QED
  BY <1>1, <1>2, MultipleMod

(* Aligned offsets are at least a cluster apart.                           *)
LEMMA AlignedApart ==
    ASSUME NEW a \in Nat, NEW b \in Nat, NEW c \in Nat \ {0}, a % c = 0, b % c = 0,
           a <= b, b < a + c
    PROVE  a = b
<1> DEFINE p == a \div c
           q == b \div c
<1>1. p \in Nat /\ q \in Nat /\ a = c * p + 0 /\ b = c * q + 0
  BY DivMod
<1> HIDE DEF p, q
<1>2. CASE p < q
  <2>1. c * p + c <= c * q
    BY <1>1, <1>2, LessTimes
  <2>2. QED
    BY <1>1, <2>1
<1>3. CASE q < p
  <2>1. c * q + c <= c * p
    BY <1>1, <1>3, LessTimes
  <2>2. c * p \in Nat /\ c * q \in Nat
    BY <1>1
  <2>3. QED
    BY <1>1, <2>1, <2>2
<1>4. QED
  BY <1>1, <1>2, <1>3

(* Below the limit, the offset field is the offset's sectors.              *)
LEMMA OffsetFieldIs ==
    ASSUME NEW host \in Nat, host < OffsetLimit
    PROVE  /\ OffsetField(host) \in Nat
           /\ OffsetField(host) = host - (host % Sector)
           /\ OffsetField(host) <= host
           /\ OffsetField(host) % Sector = 0
<1> DEFINE q == host \div Sector
<1>1. Sector \in Nat \ {0} /\ OffsetLimit \in Nat \ {0}
  BY WidthAssumption
<1>2. host % OffsetLimit = host
  BY <1>1, SmallMod
<1>3. q \in Nat /\ host % Sector \in 0 .. Sector - 1 /\ host = Sector * q + (host % Sector)
  BY <1>1, DivMod
<1>4. OffsetField(host) = q * Sector
  BY <1>2 DEF OffsetField
<1> HIDE DEF q
<1>5. q \in Nat
  BY <1>3
<1>6. (Sector * q) % Sector = 0
  BY <1>1, <1>5, MultipleMod
<1>7. Sector * q \in Nat /\ q * Sector = Sector * q
  BY <1>1, <1>5
<1>8. QED
  BY <1>1, <1>3, <1>4, <1>6, <1>7

(* Whole sectors are even: no flag bit is set.                             *)
LEMMA SectorsAreEven ==
    ASSUME NEW body \in Nat, body % Sector = 0
    PROVE  body % 2 = 0
<1> DEFINE half == Sector \div 2
           q == body \div Sector
<1>1. Sector \in Nat \ {0} /\ Sector % 2 = 0
  BY WidthAssumption
<1>2. half \in Nat /\ Sector = 2 * half
  BY <1>1, DivMod
<1>3. q \in Nat /\ body = Sector * q + 0
  BY <1>1, DivMod
<1> HIDE DEF half, q
<1>4. half * q \in Nat /\ body = 2 * (half * q)
  BY <1>2, <1>3
<1>5. QED
  BY <1>4, MultipleMod

(***************************************************************************)
(* The writer                                                              *)
(***************************************************************************)
(* Between its steps the writer holds a cluster of its own for the data,   *)
(* and knows the L2 table that the L1 entry names.                         *)
WriterSound ==
    /\ DOMAIN writer = {"step", "virt", "data", "at"}
    /\ writer.step \in {"table", "entry"} =>
        /\ writer.virt \in Starts(image)
        /\ writer.data \in Nat \ {0} /\ writer.data % ClusterSize = 0
        /\ writer.data + ClusterSize <= image.len
    /\ writer.step = "entry" =>
        /\ TableOf(image, writer.virt).case = "Table"
        /\ TableOf(image, writer.virt).at = writer.at

Housed == ImageTyped(image) /\ TablesApart(image) /\ Settled(image) /\ WriterSound

LEMMA AlignedToSector ==
    ASSUME NEW a \in Nat, NEW c \in Nat \ {0}, a % c = 0, c % Sector = 0
    PROVE  a % Sector = 0
<1> DEFINE k == c \div Sector
           q == a \div c
<1>1. Sector \in Nat \ {0}
  BY WidthAssumption
<1>2. k \in Nat /\ c = Sector * k + 0
  BY <1>1, DivMod
<1>3. q \in Nat /\ a = c * q + 0
  BY DivMod
<1> HIDE DEF k, q
<1>4. k * q \in Nat /\ a = Sector * (k * q)
  BY <1>1, <1>2, <1>3
<1>5. QED
  BY <1>1, <1>4, MultipleMod

(* A word made for a whole cluster names it, as a table and as data.       *)
LEMMA EntryNames ==
    ASSUME NEW c \in Nat \ {0}, c % Sector = 0, NEW host \in Nat \ {0}, host % c = 0,
           host < OffsetLimit
    PROVE  /\ L2EntryFor(host) \in Word
           /\ \A n \in Nat : host + c <= n =>
               /\ L2TableOffset(L2EntryFor(host), c, n)
                    = [case |-> "Table", at |-> host, copied |-> TRUE]
               /\ \A version :
                   StatusIn(ClusterMap(L2EntryFor(host), FALSE, version, c, n)) = "Allocated"
<1> DEFINE word == L2EntryFor(host)
<1>1. Sector \in Nat \ {0} /\ OffsetLimit \in Nat \ {0} /\ BodyLimit \in Nat
      /\ OffsetLimit < BodyLimit
  BY WidthAssumption
<1>2. host % Sector = 0
  BY AlignedToSector
<1>3. OffsetField(host) = host
  BY <1>2, OffsetFieldIs
<1>4. word.body = host /\ word.copied = TRUE /\ word.compressed = FALSE
  BY <1>3 DEF L2EntryFor
<1>5. word \in Word
  <2>1. host \in 0 .. BodyLimit - 1
    BY <1>1
  <2>2. QED
    BY <1>3, <2>1 DEF L2EntryFor, Word
<1> HIDE DEF word
<1>6. ~L1Reserved(word)
  BY <1>1, <1>2, <1>4 DEF L1Reserved
<1>7. ~ZeroFlag(host)
  BY <1>2, SectorsAreEven DEF ZeroFlag
<1>8. \A version : ~L2Reserved(version, word)
  <2>1. 0 \div 2 = 0
    BY SmallMod
  <2>2. QED
    BY <1>1, <1>2, <1>4, <1>7, <2>1 DEF L2Reserved
<1>9. ASSUME NEW n \in Nat, host + c <= n
      PROVE  /\ L2TableOffset(word, c, n) = [case |-> "Table", at |-> host, copied |-> TRUE]
             /\ \A version : StatusIn(ClusterMap(word, FALSE, version, c, n)) = "Allocated"
  <2>1. HostOffsetOK(c, n, host)
    BY <1>9 DEF HostOffsetOK, SpanInside
  <2>2. L2TableOffset(word, c, n) = [case |-> "Table", at |-> host, copied |-> TRUE]
    BY <1>3, <1>4, <1>6, <2>1 DEF L2TableOffset
  <2>3. ASSUME NEW version
        PROVE  ClusterMap(word, FALSE, version, c, n).case = "Plain"
    BY <1>3, <1>4, <1>7, <1>8, <2>1 DEF ClusterMap
  <2>4. QED
    BY <2>2, <2>3 DEF StatusIn
<1>10. QED
  BY <1>5, <1>9 DEF word

LEMMA EmptySays ==
    /\ EmptyWord \in Word
    /\ \A version, c, n : StatusIn(ClusterMap(EmptyWord, FALSE, version, c, n)) = "Unallocated"
<1>1. Sector \in Nat \ {0} /\ OffsetLimit \in Nat \ {0} /\ BodyLimit \in Nat /\ 0 < BodyLimit
  BY WidthAssumption
<1>2. EmptyWord.body = 0 /\ ~EmptyWord.compressed
  BY DEF EmptyWord
<1>3. EmptyWord \in Word
  BY <1>1 DEF EmptyWord, Word
<1>4. 0 % Sector = 0 /\ 0 \div 2 = 0 /\ 0 % 2 = 0
  BY <1>1, SmallMod
<1>5. ~ZeroFlag(0)
  BY <1>4 DEF ZeroFlag
<1>6. \A version : ~L2Reserved(version, EmptyWord)
  BY <1>1, <1>2, <1>4, <1>5 DEF L2Reserved
<1>7. OffsetField(0) = 0
  BY <1>1, <1>4, OffsetFieldIs
<1>8. ASSUME NEW version, NEW c, NEW n
      PROVE  ClusterMap(EmptyWord, FALSE, version, c, n) = Unallocated
  BY <1>2, <1>5, <1>6, <1>7, <1>8 DEF ClusterMap
<1>9. StatusIn(Unallocated) = "Unallocated"
  BY DEF StatusIn, Unallocated
<1>10. QED
  BY <1>3, <1>8, <1>9

(* COPIED has no part in a status.                                         *)
LEMMA CopiedAside ==
    ASSUME NEW w, NEW flag, NEW v, NEW c, NEW n
    PROVE  StatusIn(ClusterMap(w, flag, v, c, n)) = StatusIn(ClusterMap(w, FALSE, v, c, n))
<1>1. ClusterMap(w, flag, v, c, n).case = ClusterMap(w, FALSE, v, c, n).case
  BY DEF ClusterMap, Corrupt, Unallocated
<1>2. QED
  BY <1>1 DEF StatusIn

LEMMA StatusOf ==
    ASSUME NEW w, NEW flag
    PROVE  StatusIn(ClusterMap(w, flag, image.version, image.cluster_size, image.len))
             = WordStatus(image, w, image.len)
<1> DEFINE v == image.version
           c == image.cluster_size
           n == image.len
<1>1. WordStatus(image, w, image.len) = StatusIn(ClusterMap(w, FALSE, v, c, n))
  BY DEF WordStatus
<1> HIDE DEF v, c, n
<1>2. StatusIn(ClusterMap(w, flag, v, c, n)) = StatusIn(ClusterMap(w, FALSE, v, c, n))
  BY CopiedAside
<1>3. QED
  BY <1>1, <1>2 DEF v, c, n

(* A cluster past the end of the image.                                    *)
LEMMA FreshFacts ==
    ASSUME ImageTyped(image)
    PROVE  Fresh \in Nat \ {0} /\ image.len <= Fresh /\ Fresh % ClusterSize = 0
<1> DEFINE c == ClusterSize
           n == image.len
           m == n + c - 1
           q == m \div c
<1>1. c \in Nat \ {0} /\ n \in Nat \ {0} /\ m \in Nat /\ m = n + c - 1
  BY DEF ImageTyped, ClusterSize
<1>2. Fresh = q * c
  BY DEF Fresh
<1> HIDE DEF c, n, m
<1>3. q \in Nat /\ m % c \in 0 .. c - 1 /\ m = c * q + (m % c)
  BY <1>1, DivMod
<1> HIDE DEF q
<1>4. c * q \in Nat /\ (c * q) % c = 0
  BY <1>1, <1>3, MultipleMod
<1>5. Fresh = c * q
  BY <1>1, <1>2, <1>3
<1>6. n <= c * q
  BY <1>1, <1>3, <1>4
<1>7. QED
  BY <1>1, <1>4, <1>5, <1>6 DEF c, n

(* The image grows, and keeps its geometry.                                *)
Grows ==
    /\ DOMAIN image' = DOMAIN image /\ image'.version = image.version
    /\ image'.cluster_size = image.cluster_size
    /\ image'.virtual_size = image.virtual_size
    /\ image'.capacity = image.capacity
    /\ image'.len \in Nat /\ image.len <= image'.len /\ image'.len <= image'.capacity
    /\ DOMAIN image'.l1 = DOMAIN image.l1

LEMMA GrownIsTyped ==
    ASSUME ImageTyped(image), Grows, image'.l1 \in [DOMAIN image.l1 -> Word],
           DOMAIN image'.table \subseteq Nat,
           image'.table \in [DOMAIN image'.table -> [0 .. L2Entries(image) - 1 -> Word]]
    PROVE  ImageTyped(image')
<1>1. L2Entries(image') = L2Entries(image)
  BY DEF Grows, L2Entries
<1>2. QED
  BY <1>1 DEF Grows, ImageTyped

LEMMA Standing ==
    ASSUME Grows
    PROVE  /\ Total' = Total /\ ClusterSize' = ClusterSize /\ Starts(image)' = Starts(image)
           /\ L2Entries(image') = L2Entries(image)
           /\ \A virt : /\ L1IndexOf(image', virt) = L1IndexOf(image, virt)
                        /\ L2IndexOf(image', virt) = L2IndexOf(image, virt)
  BY DEF Grows, Total, ClusterSize, Starts, L2Entries, L1IndexOf, L2IndexOf

(* A settled word says the same after it.                                  *)
LEMMA WordStands ==
    ASSUME ImageTyped(image), Grows, NEW word, WordSettled(image, word)
    PROVE  /\ WordSettled(image', word)
           /\ WordStatus(image', word, image'.len) = WordStatus(image, word, image.len)
<1>1. image.len \in Nat /\ image.capacity \in Nat
  BY DEF ImageTyped
<1>2. \A len : WordStatus(image', word, len) = WordStatus(image, word, len)
  BY DEF Grows, WordStatus
<1>3. image'.len \in image.len .. image.capacity
  BY <1>1 DEF Grows
<1>4. \A len \in image'.len .. image'.capacity : len \in image.len .. image.capacity
  BY <1>1 DEF Grows
<1>5. QED
  BY <1>2, <1>3, <1>4 DEF WordSettled

LEMMA NameStands ==
    ASSUME Housed, Grows, NEW i \in DOMAIN image.l1
    PROVE  /\ TableNamed(image', image.l1[i]) = TableNamed(image, image.l1[i])
           /\ \A len \in image'.len .. image'.capacity :
                  L2TableOffset(image.l1[i], image'.cluster_size, len)
                    = TableNamed(image, image.l1[i])
<1>1. image.len \in Nat /\ image.capacity \in Nat
  BY DEF Housed, ImageTyped
<1>2. image'.len \in image.len .. image.capacity
  BY <1>1 DEF Grows
<1>3. \A len \in image'.len .. image'.capacity : len \in image.len .. image.capacity
  BY <1>1 DEF Grows
<1>4. QED
  BY <1>2, <1>3 DEF Grows, Housed, Settled, TableNamed

(* A table that an L1 entry names lies within the image.                   *)
LEMMA NamedIsInside ==
    ASSUME NEW img, NEW word, TableNamed(img, word).case = "Table"
    PROVE  TableNamed(img, word).at + img.cluster_size <= img.len
  BY DEF TableNamed, L2TableOffset, HostOffsetOK, SpanInside, Corrupt, Unallocated

LEMMA RoomFacts ==
    ASSUME Housed, HasRoom
    PROVE  /\ Fresh \in Nat \ {0} /\ Fresh % ClusterSize = 0 /\ image.len <= Fresh
           /\ Fresh < OffsetLimit /\ ClusterSize \in Nat \ {0} /\ ClusterSize % Sector = 0
           /\ Fresh + ClusterSize \in Nat /\ Fresh + ClusterSize <= image.capacity
           /\ image.len <= Fresh + ClusterSize
<1>1. /\ Fresh \in Nat \ {0} /\ Fresh % ClusterSize = 0 /\ image.len <= Fresh
  BY FreshFacts DEF Housed
<1>2. /\ ClusterSize \in Nat \ {0} /\ ClusterSize % Sector = 0 /\ image.len \in Nat
      /\ image.capacity \in Nat /\ image.capacity <= OffsetLimit /\ OffsetLimit \in Nat
  BY WidthAssumption DEF Housed, ImageTyped, ClusterSize
<1>3. Fresh + ClusterSize <= image.capacity
  BY DEF HasRoom
<1>4. QED
  BY <1>1, <1>2, <1>3

(* It grows and no word changes.                                           *)
LEMMA BeginIsHoused ==
    ASSUME Housed, BeginWrite
    PROVE  Housed' /\ Grows /\ UNCHANGED <<image.l1, image.table>>
<1>1. /\ HasRoom /\ image' = [image EXCEPT !.len = Fresh + ClusterSize]
      /\ \E virt \in Starts(image) : writer' = [step |-> "table", virt |-> virt, data |-> Fresh, at |-> 0]
  BY DEF BeginWrite
<1>2. /\ Fresh \in Nat \ {0} /\ Fresh % ClusterSize = 0
      /\ Fresh + ClusterSize \in Nat /\ Fresh + ClusterSize <= image.capacity
      /\ image.len <= Fresh + ClusterSize
  BY <1>1, RoomFacts
<1>3. /\ Grows /\ UNCHANGED <<image.l1, image.table>> /\ image'.len = Fresh + ClusterSize
  BY <1>1, <1>2 DEF Housed, ImageTyped, Grows
<1>4. ImageTyped(image')
  <2>1. /\ image.l1 \in [DOMAIN image.l1 -> Word]
        /\ image.table \in [DOMAIN image.table -> [0 .. L2Entries(image) - 1 -> Word]]
        /\ DOMAIN image.table \subseteq Nat
    BY DEF Housed, ImageTyped
  <2>2. QED
    BY <1>3, <2>1, GrownIsTyped DEF Housed
<1>5. TablesApart(image')
  BY <1>3, NameStands DEF Housed, TablesApart
<1>6. Settled(image')
  <2>1. \A at \in DOMAIN image.table, j \in 0 .. L2Entries(image) - 1 :
            WordSettled(image', image.table[at][j])
    BY <1>3, WordStands DEF Housed, Settled
  <2>2. L2Entries(image') = L2Entries(image)
    BY <1>3, Standing
  <2>3. QED
    BY <1>3, <2>1, <2>2, NameStands DEF Settled
<1>7. WriterSound'
  <2>1. /\ DOMAIN writer' = {"step", "virt", "data", "at"}
        /\ writer'.step = "table" /\ writer'.data = Fresh /\ writer'.virt \in Starts(image)
    BY <1>1
  <2>2. ClusterSize' = ClusterSize /\ ClusterSize \in Nat /\ Starts(image)' = Starts(image)
    BY <1>3, Standing DEF Housed, ImageTyped, ClusterSize
  <2>3. QED
    BY <1>2, <1>3, <2>1, <2>2 DEF WriterSound
<1>8. QED
  BY <1>3, <1>4, <1>5, <1>6, <1>7 DEF Housed

(* A new table of settled words takes the place of the one named, if any.  *)
LEMMA RepointIsHoused ==
    ASSUME Housed, NEW bytes \in [0 .. L2Entries(image) - 1 -> Word], Repoint(bytes),
           \A j \in 0 .. L2Entries(image) - 1 : WordSettled(image, bytes[j]),
           L1IndexOf(image, writer.virt) \in DOMAIN image.l1,
           writer.step = "table"
    PROVE  /\ Housed' /\ Grows
           /\ Fresh \notin {TableNamed(image, image.l1[i]).at : i \in
                              {k \in DOMAIN image.l1 :
                                  TableNamed(image, image.l1[k]).case = "Table"}}
           /\ \A i \in DOMAIN image.l1 :
               TableNamed(image', image'.l1[i])
                 = IF i = L1IndexOf(image, writer.virt)
                   THEN [case |-> "Table", at |-> Fresh, copied |-> TRUE]
                   ELSE TableNamed(image, image.l1[i])
           /\ \A at \in DOMAIN image.table : at # Fresh =>
               at \in DOMAIN image'.table /\ image'.table[at] = image.table[at]
<1> DEFINE index == L1IndexOf(image, writer.virt)
<1>1. HasRoom /\ image' = Repointed(bytes) /\ writer' = [writer EXCEPT !.step = "entry", !.at = Fresh]
  BY DEF Repoint, WriterGoes
<1>2. /\ Fresh \in Nat \ {0} /\ Fresh % ClusterSize = 0 /\ image.len <= Fresh
      /\ Fresh < OffsetLimit /\ ClusterSize \in Nat \ {0} /\ ClusterSize % Sector = 0
      /\ Fresh + ClusterSize \in Nat /\ Fresh + ClusterSize <= image.capacity
      /\ image.len <= Fresh + ClusterSize /\ image.len \in Nat
  BY <1>1, RoomFacts DEF Housed, ImageTyped
<1>3. /\ DOMAIN image' = DOMAIN image
      /\ image'.version = image.version /\ image'.cluster_size = image.cluster_size
      /\ image'.virtual_size = image.virtual_size /\ image'.capacity = image.capacity
      /\ image'.len = Fresh + ClusterSize
      /\ image'.l1 = [image.l1 EXCEPT ![index] = L2EntryFor(Fresh)]
      /\ image'.table = [at \in DOMAIN image.table \cup {Fresh} |->
                            IF at = Fresh THEN bytes ELSE image.table[at]]
  BY <1>1 DEF Repointed, Housed, ImageTyped
<1>4. Grows
  BY <1>2, <1>3 DEF Grows
<1> HIDE DEF index
<1>5. /\ L2EntryFor(Fresh) \in Word
      /\ \A n \in Nat : Fresh + ClusterSize <= n =>
          /\ L2TableOffset(L2EntryFor(Fresh), ClusterSize, n)
               = [case |-> "Table", at |-> Fresh, copied |-> TRUE]
  BY <1>2, EntryNames
<1>6. image.l1 \in [DOMAIN image.l1 -> Word] /\ index \in DOMAIN image.l1
  BY DEF Housed, ImageTyped, index
<1>7. ImageTyped(image')
  <2>1. image'.l1 \in [DOMAIN image.l1 -> Word]
    BY <1>3, <1>5, <1>6
  <2>2. image'.table \in [DOMAIN image'.table -> [0 .. L2Entries(image) - 1 -> Word]]
    <3>1. image.table \in [DOMAIN image.table -> [0 .. L2Entries(image) - 1 -> Word]]
      BY DEF Housed, ImageTyped
    <3>2. QED
      BY <1>3, <3>1
  <2>3. DOMAIN image'.table \subseteq Nat
    BY <1>2, <1>3 DEF Housed, ImageTyped
  <2>4. QED
    BY <1>4, <2>1, <2>2, <2>3, GrownIsTyped DEF Housed
<1>8. ASSUME NEW i \in DOMAIN image.l1
      PROVE  /\ TableNamed(image', image'.l1[i])
                  = IF i = index THEN [case |-> "Table", at |-> Fresh, copied |-> TRUE]
                    ELSE TableNamed(image, image.l1[i])
             /\ \A len \in image'.len .. image'.capacity :
                    L2TableOffset(image'.l1[i], image'.cluster_size, len)
                      = TableNamed(image', image'.l1[i])
  <2>1. CASE i = index
    <3>1. image'.l1[i] = L2EntryFor(Fresh)
      BY <1>3, <1>6, <2>1
    <3>2. TableNamed(image', image'.l1[i]) = [case |-> "Table", at |-> Fresh, copied |-> TRUE]
      <4>1. image'.len \in Nat /\ Fresh + ClusterSize <= image'.len
        BY <1>2, <1>3
      <4>2. TableNamed(image', image'.l1[i])
              = L2TableOffset(L2EntryFor(Fresh), ClusterSize, image'.len)
        BY <1>3, <3>1 DEF TableNamed, ClusterSize
      <4>3. QED
        BY <1>5, <4>1, <4>2
    <3>3. \A len \in image'.len .. image'.capacity : len \in Nat /\ Fresh + ClusterSize <= len
      BY <1>2, <1>3
    <3>4. QED
      BY <1>3, <1>5, <2>1, <3>1, <3>2, <3>3 DEF ClusterSize
  <2>2. CASE i # index
    <3>1. image'.l1[i] = image.l1[i]
      BY <1>3, <1>6, <2>2
    <3>2. QED
      BY <1>4, <2>2, <3>1, NameStands
  <2>3. QED
    BY <2>1, <2>2
<1>9. ASSUME NEW i \in DOMAIN image.l1, TableNamed(image, image.l1[i]).case = "Table"
      PROVE  TableNamed(image, image.l1[i]).at # Fresh
  <2>1. TableNamed(image, image.l1[i]).at + image.cluster_size <= image.len
    BY <1>9, NamedIsInside
  <2>2. QED
    BY <1>2, <2>1 DEF ClusterSize
<1>10. TablesApart(image')
  <2> SUFFICES ASSUME NEW i \in DOMAIN image.l1, NEW k \in DOMAIN image.l1,
                      TableNamed(image', image'.l1[i]).case = "Table"
               PROVE  /\ TableNamed(image', image'.l1[i]).at \in DOMAIN image'.table
                      /\ TableNamed(image', image'.l1[k]).case = "Table"
                         /\ TableNamed(image', image'.l1[k]).at = TableNamed(image', image'.l1[i]).at
                         => i = k
    BY <1>4 DEF TablesApart, Grows
  <2>1. TableNamed(image', image'.l1[i]).at \in DOMAIN image'.table
    BY <1>3, <1>8 DEF Housed, TablesApart
  <2>2. QED
    BY <1>8, <1>9, <2>1 DEF Housed, TablesApart
<1>11. \A at \in DOMAIN image.table : at # Fresh =>
               at \in DOMAIN image'.table /\ image'.table[at] = image.table[at]
  BY <1>3
<1>12. Settled(image')
  <2>1. ASSUME NEW at \in DOMAIN image'.table, NEW j \in 0 .. L2Entries(image) - 1
        PROVE  WordSettled(image', image'.table[at][j])
    <3>1. CASE at = Fresh
      <4>1. image'.table[at] = bytes
        BY <1>3, <3>1
      <4>2. QED
        BY <1>4, <4>1, WordStands DEF Housed
    <3>2. CASE at # Fresh
      <4>1. at \in DOMAIN image.table /\ image'.table[at] = image.table[at]
        BY <1>3, <3>2
      <4>2. QED
        BY <1>4, <4>1, WordStands DEF Housed, Settled
    <3>3. QED
      BY <3>1, <3>2
  <2>2. L2Entries(image') = L2Entries(image) /\ DOMAIN image'.l1 = DOMAIN image.l1
    BY <1>4, Standing DEF Grows
  <2>3. QED
    BY <1>8, <2>1, <2>2 DEF Settled
<1>13. WriterSound'
  <2>1. writer'.step = "entry" /\ writer'.at = Fresh /\ writer'.data = writer.data
        /\ writer'.virt = writer.virt
    BY <1>1 DEF Housed, WriterSound
  <2>2. L1IndexOf(image', writer.virt) = index /\ ClusterSize' = ClusterSize
    BY <1>4, Standing DEF index
  <2>3. TableOf(image', writer.virt) = [case |-> "Table", at |-> Fresh, copied |-> TRUE]
    BY <1>4, <1>6, <1>8, <2>2 DEF TableOf, Grows
  <2>4. writer.virt \in Starts(image)' /\ writer.data \in Nat \ {0} /\ writer.data % ClusterSize = 0
        /\ writer.data + ClusterSize <= image.len
    BY <1>4, Standing DEF Housed, WriterSound
  <2>5. writer.data + ClusterSize <= image'.len
    BY <1>2, <1>4, <2>4 DEF Grows
  <2>6. DOMAIN writer' = {"step", "virt", "data", "at"}
    BY <1>1 DEF Housed, WriterSound
  <2>7. QED
    BY <2>1, <2>2, <2>3, <2>4, <2>5, <2>6 DEF WriterSound
<1>14. QED
  BY <1>4, <1>7, <1>8, <1>9, <1>10, <1>11, <1>12, <1>13 DEF Housed, index

LEMMA L2EntriesFacts ==
    ASSUME ImageTyped(image), NEW virt \in Nat
    PROVE  /\ L2Entries(image) \in Nat \ {0} /\ L1IndexOf(image, virt) \in Nat
           /\ L2IndexOf(image, virt) \in 0 .. L2Entries(image) - 1
<1> DEFINE c == image.cluster_size
           k == c \div EntryBytes
           n == virt \div c
<1>1. c \in Nat \ {0} /\ EntryBytes \in Nat \ {0} /\ EntryBytes <= c
  BY WalkAssumption DEF ImageTyped
<1>2. /\ k \in Nat /\ c % EntryBytes \in 0 .. EntryBytes - 1
      /\ c = EntryBytes * k + (c % EntryBytes)
  BY <1>1, DivMod
<1>3. L2Entries(image) = k /\ L1IndexOf(image, virt) = n \div k /\ L2IndexOf(image, virt) = n % k
  BY DEF L2Entries, L1IndexOf, L2IndexOf
<1>4. n \in Nat
  BY <1>1, DivMod
<1> HIDE DEF c, k, n
<1>5. k # 0
  <2>1. CASE k = 0
    <3>1. EntryBytes * k = 0
      BY <1>1, <2>1
    <3>2. QED
      BY <1>1, <1>2, <3>1
  <2>2. QED
    BY <2>1
<1>6. n \div k \in Nat /\ n % k \in 0 .. k - 1
  BY <1>2, <1>4, <1>5, DivMod
<1>7. QED
  BY <1>2, <1>3, <1>5, <1>6

(* What the table steps write: no entry, or the entries of the old table.  *)
LEMMA TableIsHoused ==
    ASSUME Housed, AddTable \/ CopyTable
    PROVE  \E bytes \in [0 .. L2Entries(image) - 1 -> Word] :
             /\ Repoint(bytes) /\ writer.step = "table"
             /\ \A j \in 0 .. L2Entries(image) - 1 : WordSettled(image, bytes[j])
             /\ L1IndexOf(image, writer.virt) \in DOMAIN image.l1
<1>1. CASE AddTable
  <2> DEFINE bytes == [j \in 0 .. L2Entries(image) - 1 |-> EmptyWord]
  <2>1. Repoint(bytes) /\ writer.step = "table"
    BY <1>1 DEF AddTable
  <2>2. bytes \in [0 .. L2Entries(image) - 1 -> Word]
    BY EmptySays
  <2>3. WordSettled(image, EmptyWord)
    BY EmptySays DEF WordSettled, WordStatus
  <2>4. \A j \in 0 .. L2Entries(image) - 1 : WordSettled(image, bytes[j])
    BY <2>3
  <2>5. L1IndexOf(image, writer.virt) \in DOMAIN image.l1
    BY <1>1 DEF AddTable, TableOf, Corrupt
  <2> HIDE DEF bytes
  <2>6. QED
    BY <2>1, <2>2, <2>4, <2>5
<1>2. CASE CopyTable
  <2> DEFINE bytes == image.table[TableOf(image, writer.virt).at]
  <2>1. /\ Repoint(bytes) /\ writer.step = "table"
        /\ TableOf(image, writer.virt).case = "Table"
    BY <1>2 DEF CopyTable
  <2>2. /\ L1IndexOf(image, writer.virt) \in DOMAIN image.l1
        /\ TableOf(image, writer.virt) = TableNamed(image, image.l1[L1IndexOf(image, writer.virt)])
    BY <2>1 DEF TableOf, Corrupt
  <2>3. TableOf(image, writer.virt).at \in DOMAIN image.table
    BY <2>1, <2>2 DEF Housed, TablesApart
  <2>4. bytes \in [0 .. L2Entries(image) - 1 -> Word]
    BY <2>3 DEF Housed, ImageTyped
  <2>5. \A j \in 0 .. L2Entries(image) - 1 : WordSettled(image, bytes[j])
    BY <2>3 DEF Housed, Settled
  <2> HIDE DEF bytes
  <2>6. QED
    BY <2>1, <2>2, <2>4, <2>5
<1>3. QED
  BY <1>1, <1>2

(* An entry of a table in use names a cluster within the image.            *)
LEMMA EntryIsHoused ==
    ASSUME Housed, WriteEntry
    PROVE  /\ Housed' /\ Grows /\ UNCHANGED image.l1 /\ image'.len = image.len
           /\ DOMAIN image'.table = DOMAIN image.table
           /\ \A at \in DOMAIN image.table : at # writer.at => image'.table[at] = image.table[at]
<1> DEFINE word == L2EntryFor(writer.data)
           entry == L2IndexOf(image, writer.virt)
<1>1. /\ writer.step = "entry"
      /\ image' = [image EXCEPT !.table[writer.at][entry] = word]
      /\ writer' = [writer EXCEPT !.step = "caches", !.at = writer.at]
  BY DEF WriteEntry, WriterGoes
<1>2. /\ DOMAIN image' = DOMAIN image
      /\ image'.version = image.version /\ image'.cluster_size = image.cluster_size
      /\ image'.virtual_size = image.virtual_size /\ image'.capacity = image.capacity
      /\ image'.len = image.len /\ image'.l1 = image.l1
      /\ image'.table = [image.table EXCEPT ![writer.at][entry] = word]
  BY <1>1 DEF Housed, ImageTyped
<1>3. /\ image.len \in Nat /\ image.len <= image.capacity /\ image.capacity \in Nat
      /\ image.capacity <= OffsetLimit /\ OffsetLimit \in Nat
      /\ ClusterSize \in Nat \ {0} /\ ClusterSize % Sector = 0
  BY WidthAssumption DEF Housed, ImageTyped, ClusterSize
<1>4. Grows
  BY <1>2, <1>3 DEF Grows
<1>5. /\ writer.data \in Nat \ {0} /\ writer.data % ClusterSize = 0
      /\ writer.data + ClusterSize <= image.len
  BY <1>1 DEF Housed, WriterSound
<1>6. writer.data < OffsetLimit
  BY <1>3, <1>5
<1> HIDE DEF entry
<1>7. /\ word \in Word
      /\ \A n \in Nat : writer.data + ClusterSize <= n =>
          \A version :
             StatusIn(ClusterMap(word, FALSE, version, ClusterSize, n)) = "Allocated"
  BY <1>3, <1>5, <1>6, EntryNames
<1> HIDE DEF word
<1>8. \A n \in Nat : image.len <= n => WordStatus(image, word, n) = "Allocated"
  <2>1. \A n \in Nat : image.len <= n => writer.data + ClusterSize <= n
    BY <1>3, <1>5
  <2>2. \A n : WordStatus(image, word, n)
                 = StatusIn(ClusterMap(word, FALSE, image.version, ClusterSize, n))
    BY DEF WordStatus, ClusterSize
  <2>3. QED
    BY <1>7, <2>1, <2>2
<1>9. WordSettled(image, word)
  BY <1>3, <1>8 DEF WordSettled
<1>10. /\ image.table \in [DOMAIN image.table -> [0 .. L2Entries(image) - 1 -> Word]]
       /\ image.l1 \in [DOMAIN image.l1 -> Word] /\ DOMAIN image.table \subseteq Nat
  BY DEF Housed, ImageTyped
<1>11. /\ DOMAIN image'.table = DOMAIN image.table
       /\ \A at \in DOMAIN image.table : at # writer.at => image'.table[at] = image.table[at]
       /\ \A at \in DOMAIN image.table, j \in 0 .. L2Entries(image) - 1 :
              image'.table[at][j] \in {image.table[at][j], word}
       /\ image'.table \in [DOMAIN image.table -> [0 .. L2Entries(image) - 1 -> Word]]
  <2>1. /\ DOMAIN image'.table = DOMAIN image.table
        /\ \A at \in DOMAIN image.table : at # writer.at => image'.table[at] = image.table[at]
    BY <1>2, <1>10
  <2>2. writer.at \in DOMAIN image.table =>
            image'.table[writer.at] = [image.table[writer.at] EXCEPT ![entry] = word]
    BY <1>2, <1>10
  <2>3. \A at \in DOMAIN image.table : image.table[at] \in [0 .. L2Entries(image) - 1 -> Word]
    BY <1>10
  <2>4. ASSUME NEW at \in DOMAIN image.table
        PROVE  /\ image'.table[at] \in [0 .. L2Entries(image) - 1 -> Word]
               /\ \A j \in 0 .. L2Entries(image) - 1 :
                      image'.table[at][j] \in {image.table[at][j], word}
    <3>1. CASE at = writer.at
      BY <1>7, <2>2, <2>3, <3>1
    <3>2. CASE at # writer.at
      BY <2>1, <2>3, <3>2
    <3>3. QED
      BY <3>1, <3>2
  <2>5. image'.table = [at \in DOMAIN image.table |-> image'.table[at]]
    BY <1>2, <1>10
  <2>6. QED
    BY <2>1, <2>4, <2>5
<1>12. ImageTyped(image')
  BY <1>2, <1>4, <1>10, <1>11, GrownIsTyped DEF Housed
<1>13. TablesApart(image')
  <2>1. \A i \in DOMAIN image.l1 : TableNamed(image', image'.l1[i]) = TableNamed(image, image.l1[i])
    BY <1>2 DEF TableNamed
  <2>2. QED
    BY <1>2, <1>11, <2>1 DEF Housed, TablesApart
<1>14. Settled(image')
  <2>1. L2Entries(image') = L2Entries(image)
    BY <1>4, Standing
  <2>2. ASSUME NEW at \in DOMAIN image.table, NEW j \in 0 .. L2Entries(image) - 1
        PROVE  WordSettled(image', image'.table[at][j])
    <3>1. WordSettled(image, image'.table[at][j])
      BY <1>9, <1>11 DEF Housed, Settled
    <3>2. QED
      BY <1>4, <3>1, WordStands DEF Housed
  <2>3. QED
    BY <1>2, <1>4, <1>11, <2>1, <2>2, NameStands DEF Settled
<1>15. WriterSound'
  BY <1>1 DEF Housed, WriterSound
<1>16. QED
  BY <1>2, <1>4, <1>11, <1>12, <1>13, <1>14, <1>15 DEF Housed

LEMMA StillIsHoused ==
    ASSUME Housed, UNCHANGED image
    PROVE  Grows /\ (ImageTyped(image) /\ TablesApart(image) /\ Settled(image))'
<1>1. Grows
  BY DEF Housed, ImageTyped, Grows
<1>2. QED
  BY <1>1 DEF Housed

LEMMA WalkKeepsImage ==
    ASSUME Walk
    PROVE  UNCHANGED <<image, writer, seen, writes>>
  BY DEF Walk, ReadL1, Begin, BeginFails, Merge, MergeFails, Break, Finish, GiveUp, Yield, history

LEMMA HousedInitially == Init => Housed
  BY ImagesAssumption DEF Init, Housed, WriterSound, NoWrite

LEMMA HousedStays ==
    ASSUME Housed, [Next]_vars
    PROVE  Housed' /\ Grows
<1>1. CASE BeginWrite
  BY <1>1, BeginIsHoused
<1>2. CASE AddTable \/ CopyTable
  BY <1>2, TableIsHoused, RepointIsHoused
<1>3. CASE WriteEntry
  BY <1>3, EntryIsHoused
<1>4. CASE KeepTable
  <2>1. UNCHANGED image
    BY <1>4 DEF KeepTable
  <2>2. WriterSound'
    BY <1>4, <2>1 DEF KeepTable, WriterGoes, Housed, WriterSound, ClusterSize
  <2>3. QED
    BY <2>1, <2>2, StillIsHoused DEF Housed
<1>5. CASE ForgetCaches \/ WriteFails
  <2>1. UNCHANGED image /\ writer' = NoWrite
    BY <1>5 DEF ForgetCaches, WriteFails
  <2>2. WriterSound'
    BY <2>1 DEF WriterSound, NoWrite
  <2>3. QED
    BY <2>1, <2>2, StillIsHoused DEF Housed
<1>6. CASE Walk \/ UNCHANGED vars
  <2>1. UNCHANGED <<image, writer>>
    BY <1>6, WalkKeepsImage DEF vars
  <2>2. WriterSound'
    BY <2>1 DEF Housed, WriterSound, ClusterSize
  <2>3. QED
    BY <2>1, <2>2, StillIsHoused DEF Housed
<1>7. QED
  BY <1>1, <1>2, <1>3, <1>4, <1>5, <1>6 DEF Next, Write

(***************************************************************************)
(* The extents                                                             *)
(***************************************************************************)
(* Where a run ends the next cluster begins, unless the disk ends there.   *)
AtCluster(virt) == virt % ClusterSize = 0 \/ virt = Total

(* The inductive invariant: the extents so far, and the run that follows.  *)
Tiled ==
    /\ Housed
    /\ cursor \in 0 .. Total
    /\ run \in Run \cup {None}
    /\ yielded \in Seq(Run \cup {Failure})
    /\ ~Failed => AtCluster(cursor)
    /\ run # None => AtCluster(run.end)
    /\ ExtentsTile

LEMMA HousedStands ==
    ASSUME Housed, UNCHANGED <<image, writer>>
    PROVE  Housed'
<1>1. WriterSound'
  BY DEF Housed, WriterSound, ClusterSize
<1>2. QED
  BY <1>1, StillIsHoused DEF Housed

LEMMA GeometryFacts ==
    ASSUME Tiled
    PROVE  Total \in Nat /\ ClusterSize \in Nat \ {0}
  BY DEF Tiled, Housed, ImageTyped, Total, ClusterSize

LEMMA FailureIsNoRun == Failure \notin Run
  BY DEF Failure, Run, Status

LEMMA AppendFacts ==
    ASSUME NEW S, NEW s \in Seq(S), NEW x \in S
    PROVE  /\ Append(s, x) \in Seq(S) /\ Append(s, x) # <<>>
           /\ Len(s) \in Nat /\ Len(Append(s, x)) = Len(s) + 1
           /\ \A n \in 1 .. Len(s) : Append(s, x)[n] = s[n]
           /\ Append(s, x)[Len(s) + 1] = x
  OBVIOUS

(* The end of the cluster after an aligned offset: beyond it, within the   *)
(* disk, and where a cluster begins unless the disk ends.                  *)
LEMMA NextEnd ==
    ASSUME Tiled, NEW virt \in Nat, virt < Total, virt % ClusterSize = 0
    PROVE  LET end == Min2(virt + ClusterSize, Total) IN
           /\ end \in Nat /\ virt < end /\ end <= Total /\ AtCluster(end)
<1>1. Total \in Nat /\ ClusterSize \in Nat \ {0}
  BY GeometryFacts
<1>2. (virt + ClusterSize) % ClusterSize = 0
  BY <1>1, NextAligned
<1>3. QED
  BY <1>1, <1>2 DEF Min2, AtCluster

LEMMA TiledInitially == Init => Tiled
<1> SUFFICES ASSUME Init PROVE Tiled
  OBVIOUS
<1>1. Housed /\ Total \in Nat /\ ClusterSize \in Nat \ {0}
  BY HousedInitially DEF Housed, ImageTyped, Total, ClusterSize
<1>2. 0 % ClusterSize = 0
  BY <1>1, SmallMod
<1>3. ~Failed /\ yielded = <<>> /\ ExtentsOnly = 0
  BY DEF Init, Failed, ExtentsOnly
<1>4. yielded \in Seq(Run \cup {Failure})
  BY <1>3
<1>5. QED
  BY <1>1, <1>2, <1>3, <1>4 DEF Init, Tiled, AtCluster, ExtentsTile

(* A step of the walk that keeps the image and the extents, and starts a   *)
(* run at the cursor or lengthens it.                                      *)
LEMMA RunKeepsTiled ==
    ASSUME Tiled, UNCHANGED <<image, writer, cursor, yielded>>, run' \in Run,
           run'.start = cursor, cursor < run'.end, run'.end <= Total, AtCluster(run'.end),
           ~Failed
    PROVE  Tiled'
<1>1. /\ Housed' /\ Total' = Total /\ ClusterSize' = ClusterSize
      /\ Failed' = Failed /\ ExtentsOnly' = ExtentsOnly
  BY HousedStands DEF Tiled, Total, ClusterSize, Failed, ExtentsOnly
<1>2. AtCluster(run.end)' /\ (AtCluster(cursor))'
  BY <1>1 DEF Tiled, AtCluster
<1>3. ExtentsTile'
  BY <1>1 DEF Tiled, ExtentsTile
<1>4. QED
  BY <1>1, <1>2, <1>3 DEF Tiled

LEMMA WalkingIsSound ==
    ASSUME Tiled, cursor < Total \/ run # None
    PROVE  ~Failed
<1>1. Total \in Nat
  BY GeometryFacts
<1>2. QED
  BY <1>1 DEF Tiled, ExtentsTile

LEMMA BeginKeepsTiled ==
    ASSUME Tiled, Begin
    PROVE  Tiled'
<1>1. Total \in Nat /\ ClusterSize \in Nat \ {0} /\ cursor \in Nat /\ cursor < Total
  BY GeometryFacts DEF Tiled, Begin
<1>2. ~Failed
  BY <1>1, WalkingIsSound
<1>3. cursor % ClusterSize = 0
  BY <1>1, <1>2 DEF Tiled, AtCluster
<1>4. PICK status \in Status : run' = NewRun(cursor, status)
  BY DEF Begin, Status
<1>5. LET end == Min2(cursor + ClusterSize, Total) IN
      end \in Nat /\ cursor < end /\ end <= Total /\ AtCluster(end)
  BY <1>1, <1>3, NextEnd
<1>6. run' \in Run /\ run'.start = cursor /\ run'.end = Min2(cursor + ClusterSize, Total)
  BY <1>1, <1>4, <1>5 DEF NewRun, Run
<1>7. QED
  BY <1>2, <1>5, <1>6, RunKeepsTiled DEF Begin

LEMMA MergeKeepsTiled ==
    ASSUME Tiled, Merge
    PROVE  Tiled'
<1>1. Total \in Nat /\ ClusterSize \in Nat \ {0} /\ run \in Run /\ cursor \in Nat
  BY GeometryFacts DEF Tiled, Merge
<1>2. ~Failed
  BY WalkingIsSound DEF Merge
<1>3. /\ run.start = cursor /\ cursor < run.end /\ run.end < Total /\ run.end \in Nat
      /\ run.end % ClusterSize = 0
  BY <1>1, <1>2 DEF Tiled, ExtentsTile, AtCluster, Merge, Run
<1>4. LET end == Min2(run.end + ClusterSize, Total) IN
      end \in Nat /\ run.end < end /\ end <= Total /\ AtCluster(end)
  BY <1>1, <1>3, NextEnd
<1>5. run' = [run EXCEPT !.end = Min2(run.end + ClusterSize, Total)]
  BY DEF Merge
<1>6. /\ run' \in Run /\ run'.start = cursor
      /\ run'.end = Min2(run.end + ClusterSize, Total)
  BY <1>1, <1>3, <1>4, <1>5 DEF Run
<1>7. cursor < run'.end
  BY <1>1, <1>3, <1>4, <1>6
<1>8. QED
  BY <1>2, <1>4, <1>6, <1>7, RunKeepsTiled DEF Merge

(* An error takes the place of the run and ends the walk.                  *)
LEMMA GiveUpKeepsTiled ==
    ASSUME Tiled, GiveUp, ~Failed
    PROVE  Tiled'
<1>1. /\ Housed' /\ Total' = Total /\ ClusterSize' = ClusterSize
      /\ Total \in Nat /\ cursor' = Total /\ run' = None
  BY GeometryFacts, HousedStands DEF Tiled, GiveUp, Total, ClusterSize
<1>2. yielded \in Seq(Run \cup {Failure}) /\ yielded' = Append(yielded, Failure)
  BY DEF Tiled, GiveUp
<1>3. /\ yielded' \in Seq(Run \cup {Failure}) /\ yielded' # <<>>
      /\ Len(yielded) \in Nat /\ Len(yielded') = Len(yielded) + 1
      /\ \A n \in 1 .. Len(yielded) : yielded'[n] = yielded[n]
      /\ yielded'[Len(yielded) + 1] = Failure
  BY <1>2, AppendFacts
<1>4. Failed' /\ ExtentsOnly' = Len(yielded) /\ ExtentsOnly = Len(yielded)
  BY <1>3 DEF Failed, ExtentsOnly
<1>5. ExtentsTile'
  BY <1>1, <1>3, <1>4 DEF Tiled, ExtentsTile
<1>6. QED
  BY <1>1, <1>3, <1>4, <1>5 DEF Tiled

(* A run returned is the next extent.                                      *)
LEMMA YieldKeepsTiled ==
    ASSUME Tiled, Yield, run # None
    PROVE  Tiled'
<1>1. /\ Housed' /\ Total' = Total /\ ClusterSize' = ClusterSize
      /\ Total \in Nat /\ ClusterSize \in Nat \ {0} /\ run \in Run
      /\ cursor' = run.end /\ run' = None
  BY GeometryFacts, HousedStands DEF Tiled, Yield, Total, ClusterSize
<1>2. ~Failed
  BY WalkingIsSound
<1>3. /\ run.start = cursor /\ cursor < run.end /\ run.end <= Total /\ run.end \in Nat
      /\ AtCluster(run.end) /\ cursor \in Nat /\ cursor % ClusterSize = 0
  BY <1>1, <1>2 DEF Tiled, ExtentsTile, AtCluster, Run
<1>4. yielded \in Seq(Run \cup {Failure}) /\ yielded' = Append(yielded, run)
  BY DEF Tiled, Yield
<1>5. /\ yielded' \in Seq(Run \cup {Failure}) /\ yielded' # <<>>
      /\ Len(yielded) \in Nat /\ Len(yielded') = Len(yielded) + 1
      /\ \A n \in 1 .. Len(yielded) : yielded'[n] = yielded[n]
      /\ yielded'[Len(yielded) + 1] = run
  BY <1>1, <1>4, AppendFacts
<1>6. /\ ~Failed' /\ ExtentsOnly' = Len(yielded) + 1 /\ ExtentsOnly = Len(yielded)
      /\ run # Failure
  BY <1>1, <1>2, <1>5, FailureIsNoRun DEF Failed, ExtentsOnly
<1>7. cursor = (IF yielded = <<>> THEN 0 ELSE yielded[Len(yielded)].end)
  BY <1>2 DEF Tiled, ExtentsTile
<1>8. Len(yielded) = 0 <=> yielded = <<>>
  BY <1>4
<1>9. ASSUME NEW n \in 1 .. Len(yielded) + 1
      PROVE  /\ yielded'[n] # Failure
             /\ yielded'[n].start = (IF n = 1 THEN 0 ELSE yielded'[n - 1].end)
             /\ yielded'[n].start < yielded'[n].end
             /\ yielded'[n].end <= Total
             /\ yielded'[n].start % ClusterSize = 0
             /\ yielded'[n].end % ClusterSize = 0 \/ yielded'[n].end = Total
  <2>1. CASE n = Len(yielded) + 1
    <3>1. yielded'[n] = run
      BY <1>5, <2>1
    <3>2. run.start = (IF n = 1 THEN 0 ELSE yielded'[n - 1].end)
      BY <1>3, <1>5, <1>7, <1>8, <2>1
    <3>3. QED
      BY <1>3, <1>6, <3>1, <3>2 DEF AtCluster
  <2>2. CASE n \in 1 .. Len(yielded)
    <3>1. yielded'[n] = yielded[n] /\ (n # 1 => yielded'[n - 1] = yielded[n - 1])
      BY <1>5, <2>2
    <3>2. QED
      BY <1>6, <2>2, <3>1 DEF Tiled, ExtentsTile
  <2>3. QED
    BY <1>5, <2>1, <2>2
<1>10. ExtentsTile'
  BY <1>1, <1>5, <1>6, <1>9 DEF ExtentsTile
<1>11. AtCluster(cursor)'
  BY <1>1, <1>3 DEF AtCluster
<1>12. QED
  BY <1>1, <1>3, <1>5, <1>6, <1>10, <1>11 DEF Tiled

(* Another thread's write, and the first half of a lookup, leave the walk  *)
(* where it is.                                                            *)
LEMMA WriteKeepsWalk ==
    ASSUME Write
    PROVE  UNCHANGED <<cursor, run, looking, yielded, lookups, loads>>
  BY DEF Write, BeginWrite, AddTable, CopyTable, Repoint, KeepTable, WriteEntry, ForgetCaches,
         WriteFails, history

LEMMA StandingKeepsTiled ==
    ASSUME Tiled, Housed', Grows, UNCHANGED <<cursor, run, yielded>>
    PROVE  Tiled'
<1>1. /\ Failed' = Failed /\ ExtentsOnly' = ExtentsOnly
      /\ Total' = Total /\ ClusterSize' = ClusterSize
  BY Standing DEF Failed, ExtentsOnly
<1>2. \A virt : AtCluster(virt)' = AtCluster(virt)
  BY <1>1 DEF AtCluster
<1>3. ExtentsTile'
  BY <1>1 DEF Tiled, ExtentsTile
<1>4. QED
  BY <1>1, <1>2, <1>3 DEF Tiled

LEMMA TiledStays == Tiled /\ [Next]_vars => Tiled'
<1> SUFFICES ASSUME Tiled, [Next]_vars PROVE Tiled'
  OBVIOUS
<1>1. CASE Begin
  BY <1>1, BeginKeepsTiled
<1>2. CASE Merge
  BY <1>2, MergeKeepsTiled
<1>3. CASE BeginFails \/ MergeFails
  BY <1>3, GiveUpKeepsTiled, WalkingIsSound DEF BeginFails, MergeFails
<1>4. CASE Break \/ Finish
  BY <1>4, YieldKeepsTiled DEF Break, Finish
<1>5. CASE Write \/ ReadL1 \/ UNCHANGED vars
  <2>1. UNCHANGED <<cursor, run, yielded>>
    BY <1>5, WriteKeepsWalk DEF ReadL1, vars
  <2>2. Housed' /\ Grows
    BY HousedStays DEF Tiled
  <2>3. QED
    BY <2>1, <2>2, StandingKeepsTiled
<1>6. QED
  BY <1>1, <1>2, <1>3, <1>4, <1>5 DEF Next, Walk

LEMMA TiledHolds == Spec => []Tiled
  BY TiledInitially, TiledStays, PTL DEF Spec

(* Whoever writes meanwhile, whichever table cannot be read: the extents   *)
(* returned by the iterator (reader.rs, ExtentIter::next) tile the disk.   *)
THEOREM WalksTile == Spec => []ExtentsTile
<1>1. Tiled => ExtentsTile
  BY DEF Tiled
<1>2. QED
  BY <1>1, TiledHolds, PTL

(***************************************************************************)
(* The statuses                                                            *)
(***************************************************************************)
(* What a word says of a cluster is settled, and was the cluster's status  *)
(* at some moment of the walk.                                             *)
Told(word, virt) ==
    WordSettled(image, word) /\ WordStatus(image, word, image.len) \in seen[virt]

SameIndex(virt, other) == L1IndexOf(image, other) = L1IndexOf(image, virt)

(* A cluster's present status is among those it has had.                   *)
Watched ==
    /\ DOMAIN seen = Starts(image)
    /\ \A virt \in Starts(image) : StatusAt(image, virt) \in seen[virt]

(* So is what the cached bytes say of it, and what the table says that a   *)
(* lookup is about to read, be it superseded by then; it has been used     *)
(* under the one L1 entry alone.                                           *)
CacheTold ==
    \A virt \in Starts(image) :
        Serves(virt) => Told(cached.table[L2IndexOf(image, virt)], virt)

TableTold(at, virt) ==
    \A other \in Starts(image) :
        SameIndex(virt, other) => Told(image.table[at][L2IndexOf(image, other)], other)

LookingTold ==
    looking # Idle =>
        /\ looking.at \in DOMAIN image.table
        /\ looking.at \in Nat /\ looking.at + ClusterSize <= image.len
        /\ TableTold(looking.at, Frontier)
        /\ \A other \in Starts(image) :
            TableOf(image, other).case = "Table" /\ TableOf(image, other).at = looking.at
                => SameIndex(Frontier, other)

Observed == Tiled /\ Watched /\ CacheTold /\ LookingTold /\ ExtentsWereTrue

LEMMA StartsAreNat ==
    ASSUME Housed, NEW virt \in Starts(image)
    PROVE  /\ virt \in Nat /\ L1IndexOf(image, virt) \in Nat
           /\ L2IndexOf(image, virt) \in 0 .. L2Entries(image) - 1
<1>1. virt \in Nat
  BY DEF Housed, ImageTyped, Starts
<1>2. QED
  BY <1>1, L2EntriesFacts DEF Housed

LEMMA EmptyServesNone ==
    ASSUME Housed, NEW virt \in Starts(image), cached = Empty
    PROVE  ~Serves(virt)
  BY StartsAreNat, WalkAssumption DEF Serves, Empty

(* The table that an L1 entry names is there, tells what its clusters are, *)
(* and no other entry names it.                                            *)
LEMMA NamedTells ==
    ASSUME Housed, Watched, NEW virt \in Starts(image), TableOf(image, virt).case = "Table"
    PROVE  /\ TableOf(image, virt).at \in DOMAIN image.table
           /\ TableOf(image, virt).at \in Nat
           /\ TableOf(image, virt).at + ClusterSize <= image.len
           /\ TableTold(TableOf(image, virt).at, virt)
           /\ \A other \in Starts(image) :
               /\ TableOf(image, other).case = "Table"
               /\ TableOf(image, other).at = TableOf(image, virt).at
               => SameIndex(virt, other)
<1> DEFINE index == L1IndexOf(image, virt)
           at == TableOf(image, virt).at
<1>1. index \in DOMAIN image.l1 /\ TableOf(image, virt) = TableNamed(image, image.l1[index])
  BY DEF TableOf, Corrupt
<1>2. at \in DOMAIN image.table /\ at \in Nat
  BY <1>1 DEF Housed, TablesApart, ImageTyped
<1>3. at + ClusterSize <= image.len
  BY <1>1, NamedIsInside DEF ClusterSize
<1>4. ASSUME NEW other \in Starts(image), SameIndex(virt, other)
      PROVE  Told(image.table[at][L2IndexOf(image, other)], other)
  <2> DEFINE word == image.table[at][L2IndexOf(image, other)]
  <2>1. TableOf(image, other) = TableOf(image, virt)
    BY <1>4 DEF TableOf, SameIndex
  <2>2. StatusAt(image, other)
          = StatusIn(ClusterMap(word, TableOf(image, other).copied, image.version,
                                image.cluster_size, image.len))
    BY <2>1 DEF StatusAt, LookupCluster, EntryIn
  <2>3. WordSettled(image, word)
    BY <1>2, StartsAreNat DEF Housed, Settled
  <2> HIDE DEF word
  <2>4. StatusAt(image, other) = WordStatus(image, word, image.len)
    BY <2>2, StatusOf
  <2>5. QED
    BY <2>3, <2>4 DEF Told, Watched, word
<1>5. ASSUME NEW other \in Starts(image), TableOf(image, other).case = "Table",
             TableOf(image, other).at = at
      PROVE  SameIndex(virt, other)
  <2>1. /\ L1IndexOf(image, other) \in DOMAIN image.l1
        /\ TableOf(image, other) = TableNamed(image, image.l1[L1IndexOf(image, other)])
    BY <1>5 DEF TableOf, Corrupt
  <2>2. QED
    BY <1>1, <1>5, <2>1 DEF Housed, TablesApart, SameIndex
<1>6. QED
  BY <1>2, <1>3, <1>4, <1>5 DEF TableTold

(* What is kept in the cache after a table was read.                       *)
LEMMA KeptTells ==
    ASSUME Housed, CacheTold, NEW virt \in Starts(image), NEW at, TableTold(at, virt),
           NEW other \in Starts(image), Keeps(virt, at).index = L1IndexOf(image, other)
    PROVE  Told(Keeps(virt, at).table[L2IndexOf(image, other)], other)
<1>1. SameIndex(virt, other)
  BY DEF Keeps, SameIndex
<1>2. CASE Serves(virt)
  <2>1. Serves(other)
    BY <1>1, <1>2 DEF Serves, SameIndex
  <2>2. QED
    BY <1>2, <2>1 DEF CacheTold, Keeps, Contents
<1>3. CASE ~Serves(virt)
  BY <1>1, <1>3 DEF TableTold, Keeps, Contents
<1>4. QED
  BY <1>2, <1>3

LEMMA FrontierStarts ==
    ASSUME Tiled, Frontier < Total, cursor < Total \/ run # None
    PROVE  Frontier \in Starts(image)
<1>1. ~Failed /\ Total \in Nat
  BY WalkingIsSound, GeometryFacts
<1>2. Frontier \in Nat /\ Frontier % ClusterSize = 0
  BY <1>1 DEF Tiled, Frontier, AtCluster, Run
<1>3. QED
  BY <1>1, <1>2 DEF Starts, Total, ClusterSize

LEMMA ObservedInitially == Init => Observed
<1> SUFFICES ASSUME Init PROVE Observed
  OBVIOUS
<1>1. Tiled
  BY TiledInitially
<1>2. Watched /\ LookingTold
  BY DEF Init, Watched, LookingTold
<1>3. CacheTold
  BY <1>1, EmptyServesNone DEF Init, CacheTold, Tiled
<1>4. ExtentsWereTrue
  BY DEF Init, ExtentsWereTrue, ExtentsOnly, Failed
<1>5. QED
  BY <1>1, <1>2, <1>3, <1>4 DEF Observed

(* A lookup that ends says what its cluster was.                           *)
LEMMA LookupTells ==
    ASSUME Observed, Frontier \in Starts(image), NEW status, LookedUp(Frontier, status),
           UNCHANGED <<image, seen>>
    PROVE  status \in seen[Frontier] /\ CacheTold' /\ LookingTold'
<1>1. Housed
  BY DEF Observed, Tiled
<1>2. LookingTold'
  BY DEF LookedUp, LookingTold
<1>3. CASE NoTable(Frontier, status)
  <2>1. StatusAt(image, Frontier) = status
    BY <1>3 DEF NoTable, StatusAt, LookupCluster
  <2>2. CacheTold'
    BY <1>3 DEF NoTable, Observed, CacheTold, Serves, Told
  <2>3. QED
    BY <1>2, <2>1, <2>2 DEF Observed, Watched
<1>4. CASE FromTable(Frontier, status)
  <2> DEFINE bytes == Contents(Frontier, looking.at)
             word == bytes[L2IndexOf(image, Frontier)]
  <2>1. /\ looking # Idle /\ cached' = Keeps(Frontier, looking.at)
        /\ status = StatusIn(EntryIn(image, Frontier, bytes, looking.copied))
    BY <1>4 DEF FromTable, CacheAfter
  <2>2. TableTold(looking.at, Frontier)
    BY <2>1 DEF Observed, LookingTold
  <2>3. \A other \in Starts(image) : cached'.index = L1IndexOf(image, other) =>
            Told(cached'.table[L2IndexOf(image, other)], other)
    BY <1>1, <2>1, <2>2, KeptTells DEF Observed
  <2>4. CacheTold'
    BY <2>3 DEF CacheTold, Serves, Told
  <2>5. status = WordStatus(image, word, image.len)
    BY <2>1, CopiedAside DEF EntryIn, WordStatus
  <2>6. Told(word, Frontier)
    BY <2>1, <2>3 DEF Keeps
  <2>7. QED
    BY <1>2, <2>4, <2>5, <2>6 DEF Told
<1>5. QED
  BY <1>3, <1>4 DEF LookedUp

(* The one cluster a run gains by a lookup at virt.                        *)
LEMMA OneCluster ==
    ASSUME Tiled, NEW virt \in Nat, virt < Total, virt % ClusterSize = 0,
           NEW other \in Starts(image), virt <= other,
           other < Min2(virt + ClusterSize, Total)
    PROVE  other = virt
<1>1. /\ Total \in Nat /\ ClusterSize \in Nat \ {0}
      /\ other \in Nat /\ other % ClusterSize = 0 /\ other < virt + ClusterSize
  BY GeometryFacts DEF Starts, Min2, Total, ClusterSize
<1>2. QED
  BY <1>1, AlignedApart

LEMMA BeginIsTrue ==
    ASSUME Observed, Begin
    PROVE  Observed'
<1>1. /\ Total \in Nat /\ cursor \in Nat /\ cursor < Total /\ run = None
      /\ cursor % ClusterSize = 0 /\ Frontier = cursor
  BY GeometryFacts, WalkingIsSound DEF Observed, Tiled, Begin, AtCluster, Frontier
<1>2. cursor \in Starts(image)
  BY <1>1, FrontierStarts DEF Observed
<1>3. PICK status \in Status : LookedUp(cursor, status) /\ run' = NewRun(cursor, status)
  BY DEF Begin
<1>4. UNCHANGED <<image, cursor, yielded, seen>>
  BY DEF Begin
<1>5. status \in seen[cursor] /\ CacheTold' /\ LookingTold'
  BY <1>1, <1>2, <1>3, <1>4, LookupTells
<1>6. /\ run'.start = cursor /\ run'.end = Min2(cursor + ClusterSize, Total)
      /\ run'.status = status
  BY <1>3 DEF NewRun
<1>7. \A virt \in Starts(image) :
          cursor <= virt /\ virt < Min2(cursor + ClusterSize, Total) => virt = cursor
  BY <1>1, OneCluster DEF Observed
<1>8. ToldTrue(run)'
  BY <1>4, <1>5, <1>6, <1>7 DEF ToldTrue
<1>9. ExtentsWereTrue'
  BY <1>4, <1>8 DEF Observed, ExtentsWereTrue, ExtentsOnly, Failed, ToldTrue
<1>10. Tiled' /\ Watched'
  BY <1>4, BeginKeepsTiled DEF Observed, Watched
<1>11. QED
  BY <1>5, <1>9, <1>10 DEF Observed

LEMMA MergeIsTrue ==
    ASSUME Observed, Merge
    PROVE  Observed'
<1>1. /\ Total \in Nat /\ run \in Run /\ run.end \in Nat /\ run.end < Total
      /\ run.end % ClusterSize = 0 /\ run # None /\ run.start \in Nat /\ Frontier = run.end
  BY GeometryFacts, WalkingIsSound DEF Observed, Tiled, Merge, AtCluster, Run, Frontier
<1>2. run.end \in Starts(image)
  BY <1>1, FrontierStarts DEF Observed
<1>3. /\ UNCHANGED <<image, seen, cursor, yielded>> /\ LookedUp(run.end, run.status)
      /\ run' = [run EXCEPT !.end = Min2(run.end + ClusterSize, Total)]
  BY DEF Merge
<1>4. run.status \in seen[run.end] /\ CacheTold' /\ LookingTold'
  BY <1>1, <1>2, <1>3, LookupTells
<1>5. /\ run'.start = run.start /\ run'.status = run.status
      /\ run'.end = Min2(run.end + ClusterSize, Total)
  BY <1>1, <1>3 DEF Run
<1>6. ASSUME NEW virt \in Starts(image), run.start <= virt,
             virt < Min2(run.end + ClusterSize, Total)
      PROVE  run.status \in seen[virt]
  <2>1. virt \in Nat
    BY <1>1 DEF Starts, Total
  <2>2. CASE virt < run.end
    BY <1>1, <1>6, <2>2 DEF Observed, ExtentsWereTrue, ToldTrue
  <2>3. CASE run.end <= virt
    <3>1. virt = run.end
      BY <1>1, <1>6, <2>3, OneCluster DEF Observed
    <3>2. QED
      BY <1>4, <3>1
  <2>4. QED
    BY <1>1, <2>1, <2>2, <2>3
<1>7. ToldTrue(run)'
  BY <1>3, <1>5, <1>6 DEF ToldTrue
<1>8. ExtentsWereTrue'
  BY <1>3, <1>7 DEF Observed, ExtentsWereTrue, ExtentsOnly, Failed, ToldTrue
<1>9. Tiled' /\ Watched'
  BY <1>3, MergeKeepsTiled DEF Observed, Watched
<1>10. QED
  BY <1>4, <1>8, <1>9 DEF Observed

(* An error leaves the extents before it, a run returned is one more.      *)
LEMMA GiveUpIsTrue ==
    ASSUME Observed, GiveUp, ~Failed
    PROVE  ExtentsWereTrue' /\ Watched'
<1>1. yielded \in Seq(Run \cup {Failure}) /\ yielded' = Append(yielded, Failure)
  BY DEF Observed, Tiled, GiveUp
<1>2. /\ yielded' # <<>> /\ Len(yielded) \in Nat /\ Len(yielded') = Len(yielded) + 1
      /\ \A n \in 1 .. Len(yielded) : yielded'[n] = yielded[n]
      /\ yielded'[Len(yielded) + 1] = Failure
  BY <1>1, AppendFacts
<1>3. /\ ExtentsOnly' = Len(yielded) /\ UNCHANGED <<image, seen>> /\ run' = None
  BY <1>2 DEF Failed, ExtentsOnly, GiveUp
<1>4. ~Failed => ExtentsOnly = Len(yielded)
  BY DEF ExtentsOnly
<1>5. QED
  BY <1>2, <1>3, <1>4 DEF Observed, ExtentsWereTrue, ToldTrue, Watched

LEMMA YieldIsTrue ==
    ASSUME Observed, Yield, run # None
    PROVE  ExtentsWereTrue' /\ Watched'
<1>1. run \in Run /\ ~Failed
  BY WalkingIsSound DEF Observed, Tiled
<1>2. yielded \in Seq(Run \cup {Failure}) /\ yielded' = Append(yielded, run)
  BY DEF Observed, Tiled, Yield
<1>3. /\ yielded' # <<>> /\ Len(yielded) \in Nat /\ Len(yielded') = Len(yielded) + 1
      /\ \A n \in 1 .. Len(yielded) : yielded'[n] = yielded[n]
      /\ yielded'[Len(yielded) + 1] = run
  BY <1>1, <1>2, AppendFacts
<1>4. /\ ExtentsOnly' = Len(yielded) + 1 /\ ExtentsOnly = Len(yielded)
      /\ UNCHANGED <<image, seen>> /\ run' = None
  BY <1>1, <1>3, FailureIsNoRun DEF Failed, ExtentsOnly, Yield
<1>5. ASSUME NEW n \in 1 .. Len(yielded) + 1 PROVE ToldTrue(yielded[n])'
  <2>1. CASE n = Len(yielded) + 1
    BY <1>3, <1>4, <2>1 DEF Observed, ExtentsWereTrue, ToldTrue
  <2>2. CASE n \in 1 .. Len(yielded)
    BY <1>3, <1>4, <2>2 DEF Observed, ExtentsWereTrue, ToldTrue
  <2>3. QED
    BY <1>3, <2>1, <2>2
<1>6. QED
  BY <1>4, <1>5 DEF Observed, ExtentsWereTrue, Watched

LEMMA FailureIsTrue ==
    ASSUME Observed, BeginFails \/ MergeFails
    PROVE  Observed'
<1>1. GiveUp /\ ~Failed /\ Frontier < Total /\ (cursor < Total \/ run # None)
  BY WalkingIsSound DEF Observed, BeginFails, MergeFails, Frontier
<1>2. LookedUp(Frontier, "Error") \/ LoadFailed(Frontier)
  BY DEF BeginFails, MergeFails, LookupFails, Frontier
<1>3. Frontier \in Starts(image) /\ UNCHANGED <<image, seen>>
  BY <1>1, FrontierStarts DEF Observed, GiveUp
<1>4. CacheTold' /\ LookingTold'
  <2>1. CASE LookedUp(Frontier, "Error")
    BY <1>3, <2>1, LookupTells
  <2>2. CASE LoadFailed(Frontier)
    BY <1>3, <2>2 DEF LoadFailed, Observed, CacheTold, Serves, Told, LookingTold
  <2>3. QED
    BY <1>2, <2>1, <2>2
<1>5. QED
  BY <1>1, <1>4, GiveUpIsTrue, GiveUpKeepsTiled DEF Observed

LEMMA EndIsTrue ==
    ASSUME Observed, Break \/ Finish
    PROVE  Observed'
<1>1. Yield /\ run # None /\ UNCHANGED <<image, seen>>
  BY DEF Break, Finish, Yield
<1>2. CASE Break
  <2>1. Frontier = run.end /\ Frontier < Total
    BY <1>2 DEF Break, Frontier
  <2>2. Frontier \in Starts(image)
    BY <1>1, <2>1, FrontierStarts DEF Observed
  <2>3. PICK status : LookedUp(Frontier, status)
    BY <1>2, <2>1 DEF Break
  <2>4. CacheTold' /\ LookingTold'
    BY <1>1, <2>2, <2>3, LookupTells
  <2>5. QED
    BY <1>1, <2>4, YieldIsTrue, YieldKeepsTiled DEF Observed
<1>3. CASE Finish
  <2>1. UNCHANGED <<cached, looking>> /\ Frontier' = Frontier
    BY <1>1, <1>3 DEF Finish, Yield, Frontier
  <2>2. CacheTold'
    BY <1>1, <2>1 DEF Observed, CacheTold, Serves, Told
  <2>3. LookingTold'
    BY <1>1, <2>1 DEF Observed, LookingTold, TableTold, SameIndex, Told, ClusterSize
  <2>4. QED
    BY <1>1, <2>2, <2>3, YieldIsTrue, YieldKeepsTiled DEF Observed
<1>4. QED
  BY <1>2, <1>3

(* The first half of a lookup: the table found is the one in use.          *)
LEMMA ReadIsTrue ==
    ASSUME Observed, ReadL1
    PROVE  Observed'
<1>1. /\ Frontier < Total /\ looking' = TableOf(image, Frontier)
      /\ TableOf(image, Frontier).case = "Table"
      /\ UNCHANGED <<image, cached, cursor, run, yielded, writer, seen>>
  BY DEF ReadL1, history
<1>2. Frontier \in Starts(image)
  BY <1>1, FrontierStarts DEF Observed, Frontier
<1>3. Frontier' = Frontier
  BY <1>1 DEF Frontier
<1>4. LookingTold'
  <2>1. /\ looking'.at \in DOMAIN image.table /\ looking'.at \in Nat
        /\ looking'.at + ClusterSize <= image.len
        /\ TableTold(looking'.at, Frontier)
        /\ \A other \in Starts(image) :
            TableOf(image, other).case = "Table" /\ TableOf(image, other).at = looking'.at
                => SameIndex(Frontier, other)
    BY <1>1, <1>2, NamedTells DEF Observed, Tiled
  <2>2. QED
    BY <1>1, <1>3, <2>1 DEF LookingTold, TableTold, SameIndex, Told, ClusterSize
<1>5. Tiled'
  BY <1>1, HousedStands, StillIsHoused, StandingKeepsTiled DEF Observed, Tiled
<1>6. CacheTold' /\ Watched' /\ ExtentsWereTrue'
  BY <1>1 DEF Observed, CacheTold, Serves, Told, Watched, ExtentsWereTrue, ExtentsOnly, Failed,
              ToldTrue
<1>7. QED
  BY <1>4, <1>5, <1>6 DEF Observed

(* What the writer records, and what was told and is still.                *)
StillTold(word, virt) ==
    WordSettled(image', word) /\ WordStatus(image', word, image'.len) \in seen'[virt]

LEMMA WriteIsSeen ==
    ASSUME Observed, Write, Housed', Grows
    PROVE  /\ Watched'
           /\ \A virt \in Starts(image) : seen[virt] \subseteq seen'[virt]
           /\ \A word : \A virt \in Starts(image) : Told(word, virt) => StillTold(word, virt)
<1>1. SeenAfter \/ UNCHANGED <<image, seen>>
  BY DEF Write, BeginWrite, AddTable, CopyTable, Repoint, KeepTable, WriteEntry, ForgetCaches,
         WriteFails, history
<1>2. Starts(image)' = Starts(image)
  BY Standing
<1>3. Watched'
  BY <1>1, <1>2 DEF Observed, Watched, SeenAfter
<1>4. \A virt \in Starts(image) : seen[virt] \subseteq seen'[virt]
  BY <1>1 DEF SeenAfter
<1>5. ASSUME NEW word, NEW virt \in Starts(image), Told(word, virt)
      PROVE  StillTold(word, virt)
  BY <1>4, <1>5, WordStands DEF Told, StillTold, Observed, Tiled, Housed
<1>6. QED
  BY <1>3, <1>4, <1>5

LEMMA WriteKeepsCacheTold ==
    ASSUME Observed, Write, Housed', Grows
    PROVE  CacheTold'
<1>1. \A word : \A virt \in Starts(image) : Told(word, virt) => StillTold(word, virt)
  BY WriteIsSeen
<1>2. /\ Starts(image)' = Starts(image)
      /\ \A virt : /\ L1IndexOf(image', virt) = L1IndexOf(image, virt)
                   /\ L2IndexOf(image', virt) = L2IndexOf(image, virt)
  BY Standing
<1>3. Housed
  BY DEF Observed, Tiled
<1>4. \A other \in Starts(image) :
          cached'.index = L1IndexOf(image, other) =>
              Told(cached'.table[L2IndexOf(image, other)], other)
  <2>1. CASE BeginWrite
    <3>1. PICK virt \in Starts(image) :
              cached' = IF TableOf(image, virt).case = "Table"
                        THEN Keeps(virt, TableOf(image, virt).at) ELSE cached
      BY <2>1 DEF BeginWrite
    <3>2. CASE TableOf(image, virt).case = "Table"
      <4>1. TableTold(TableOf(image, virt).at, virt)
        BY <1>3, <3>2, NamedTells DEF Observed
      <4>2. QED
        BY <1>3, <3>1, <3>2, <4>1, KeptTells DEF Observed
    <3>3. CASE TableOf(image, virt).case # "Table"
      BY <3>1, <3>3 DEF Observed, CacheTold, Serves
    <3>4. QED
      BY <3>2, <3>3
  <2>2. CASE ForgetCaches
    BY <1>3, <2>2, StartsAreNat, WalkAssumption DEF ForgetCaches, Empty
  <2>3. CASE AddTable \/ CopyTable \/ KeepTable \/ WriteEntry \/ WriteFails
    <3>1. cached' = cached
      BY <2>3 DEF AddTable, CopyTable, Repoint, KeepTable, WriteEntry, WriteFails
    <3>2. QED
      BY <3>1 DEF Observed, CacheTold, Serves
  <2>4. QED
    BY <2>1, <2>2, <2>3 DEF Write
<1>5. \A other \in Starts(image) :
          cached'.index = L1IndexOf(image, other) =>
              StillTold(cached'.table[L2IndexOf(image, other)], other)
  BY <1>1, <1>4
<1>6. QED
  BY <1>2, <1>5 DEF CacheTold, Serves, Told, StillTold

(* A repointed L1 entry names a table that nothing named, the others what  *)
(* they did; the other steps change no name.                               *)
LEMMA WriteNames ==
    ASSUME Housed, Write, Grows, NEW virt
    PROVE  \/ TableOf(image', virt) = TableOf(image, virt)
           \/ /\ L1IndexOf(image, virt) = L1IndexOf(image, writer.virt)
              /\ TableOf(image', virt).at = Fresh
<1>1. L1IndexOf(image', virt) = L1IndexOf(image, virt) /\ DOMAIN image'.l1 = DOMAIN image.l1
  BY Standing DEF Grows
<1>2. CASE AddTable \/ CopyTable
  BY <1>1, <1>2, TableIsHoused, RepointIsHoused DEF TableOf
<1>3. CASE ~(AddTable \/ CopyTable)
  <2>1. UNCHANGED image.l1
    BY <1>3, BeginIsHoused, EntryIsHoused DEF Write, KeepTable, ForgetCaches, WriteFails
  <2>2. QED
    BY <1>1, <2>1, NameStands DEF TableOf
<1>4. QED
  BY <1>2, <1>3

(* Only an entry's write changes a table there already is, its own.        *)
LEMMA WriteKeepsTables ==
    ASSUME Housed, Write, NEW at \in DOMAIN image.table, at + ClusterSize <= image.len,
           at \in Nat, WriteEntry => at # writer.at
    PROVE  at \in DOMAIN image'.table /\ image'.table[at] = image.table[at]
<1>1. at # Fresh
  <2>1. ClusterSize \in Nat \ {0} /\ image.len \in Nat /\ Fresh \in Nat /\ image.len <= Fresh
    BY FreshFacts DEF Housed, ImageTyped, ClusterSize
  <2>2. QED
    BY <2>1
<1>2. CASE AddTable \/ CopyTable
  BY <1>1, <1>2, TableIsHoused, RepointIsHoused
<1>3. CASE WriteEntry
  BY <1>3, EntryIsHoused
<1>4. CASE BeginWrite
  BY <1>4, BeginIsHoused
<1>5. CASE KeepTable \/ ForgetCaches \/ WriteFails
  BY <1>5 DEF KeepTable, ForgetCaches, WriteFails
<1>6. QED
  BY <1>2, <1>3, <1>4, <1>5 DEF Write

LEMMA WriteKeepsLookingTold ==
    ASSUME Observed, Write, Housed', Grows
    PROVE  LookingTold'
<1> SUFFICES ASSUME looking # Idle
             PROVE  /\ looking.at \in DOMAIN image'.table /\ looking.at \in Nat
                    /\ looking.at + ClusterSize <= image'.len
                    /\ \A other \in Starts(image) : SameIndex(Frontier, other) =>
                         StillTold(image'.table[looking.at][L2IndexOf(image, other)], other)
                    /\ \A other \in Starts(image) :
                         TableOf(image', other).case = "Table"
                         /\ TableOf(image', other).at = looking.at
                         => SameIndex(Frontier, other)
  <2>1. UNCHANGED looking /\ Frontier' = Frontier
    BY WriteKeepsWalk DEF Frontier
  <2>2. /\ Starts(image)' = Starts(image) /\ ClusterSize' = ClusterSize
        /\ \A virt : /\ L1IndexOf(image', virt) = L1IndexOf(image, virt)
                     /\ L2IndexOf(image', virt) = L2IndexOf(image, virt)
    BY Standing
  <2>3. QED
    BY <2>1, <2>2 DEF LookingTold, TableTold, SameIndex, Told, StillTold
<1>1. /\ looking.at \in DOMAIN image.table /\ looking.at \in Nat
      /\ looking.at + ClusterSize <= image.len
      /\ TableTold(looking.at, Frontier) /\ Housed
      /\ \A other \in Starts(image) :
            TableOf(image, other).case = "Table" /\ TableOf(image, other).at = looking.at
                => SameIndex(Frontier, other)
  BY DEF Observed, LookingTold, Tiled
<1>2. /\ image.len \in Nat /\ image'.len \in Nat /\ image.len <= image'.len
      /\ looking.at \in Nat /\ ClusterSize \in Nat \ {0}
      /\ Fresh \in Nat /\ image.len <= Fresh
  BY <1>1, FreshFacts DEF Grows, Housed, ImageTyped, ClusterSize, Observed, LookingTold
<1>3. looking.at + ClusterSize <= image'.len /\ looking.at # Fresh
  BY <1>1, <1>2
<1>4. \A other \in Starts(image) :
            TableOf(image', other).case = "Table" /\ TableOf(image', other).at = looking.at
                => SameIndex(Frontier, other)
  BY <1>1, <1>3, WriteNames
<1>5. CASE WriteEntry /\ looking.at = writer.at
  <2>1. /\ writer.virt \in Starts(image) /\ TableOf(image, writer.virt).case = "Table"
        /\ TableOf(image, writer.virt).at = looking.at
        /\ DOMAIN image'.table = DOMAIN image.table /\ UNCHANGED image.l1
    BY <1>1, <1>5, EntryIsHoused DEF WriteEntry, Housed, WriterSound
  <2>2. SameIndex(Frontier, writer.virt)
    BY <1>1, <2>1
  <2>3. ASSUME NEW other \in Starts(image), SameIndex(Frontier, other)
        PROVE  StillTold(image'.table[looking.at][L2IndexOf(image, other)], other)
    <3> DEFINE word == image'.table[looking.at][L2IndexOf(image, other)]
    <3>1. L2IndexOf(image', other) = L2IndexOf(image, other)
          /\ L2Entries(image') = L2Entries(image)
          /\ L1IndexOf(image', other) = L1IndexOf(image, other)
      BY Standing
    <3>2. TableOf(image, other) = TableOf(image, writer.virt)
      BY <2>2, <2>3 DEF TableOf, SameIndex
    <3>3. TableOf(image', other) = TableOf(image, other)
      BY <1>1, <2>1, <3>1, NameStands DEF TableOf
    <3>4. StatusAt(image', other)
            = StatusIn(ClusterMap(word, TableOf(image', other).copied, image'.version,
                                  image'.cluster_size, image'.len))
      BY <2>1, <3>1, <3>2, <3>3 DEF StatusAt, LookupCluster, EntryIn
    <3>5. WordSettled(image', word)
      BY <1>1, <2>1, <3>1, StartsAreNat DEF Housed, Settled
    <3> HIDE DEF word
    <3>6. StatusAt(image', other) = WordStatus(image', word, image'.len)
      BY <3>4, CopiedAside DEF WordStatus
    <3>7. StatusAt(image', other) \in seen'[other]
      BY WriteIsSeen, Standing DEF Watched
    <3>8. QED
      BY <3>5, <3>6, <3>7 DEF StillTold, word
  <2>4. QED
    BY <1>1, <1>3, <1>4, <2>1, <2>3
<1>6. CASE ~(WriteEntry /\ looking.at = writer.at)
  <2>1. looking.at \in DOMAIN image'.table /\ image'.table[looking.at] = image.table[looking.at]
    BY <1>1, <1>2, <1>6, WriteKeepsTables
  <2>2. QED
    BY <1>1, <1>3, <1>4, <2>1, WriteIsSeen DEF TableTold
<1>7. QED
  BY <1>5, <1>6

LEMMA WriteIsTrue ==
    ASSUME Observed, Write
    PROVE  Observed'
<1>1. Housed' /\ Grows
  BY HousedStays DEF Observed, Tiled, Next
<1>2. UNCHANGED <<cursor, run, yielded>>
  BY WriteKeepsWalk
<1>3. Tiled'
  BY <1>1, <1>2, StandingKeepsTiled DEF Observed
<1>4. ExtentsWereTrue'
  <2>1. Starts(image)' = Starts(image) /\ ExtentsOnly' = ExtentsOnly
    BY <1>1, <1>2, Standing DEF ExtentsOnly, Failed
  <2>2. QED
    BY <1>1, <1>2, <2>1, WriteIsSeen DEF Observed, ExtentsWereTrue, ToldTrue
<1>5. QED
  BY <1>1, <1>3, <1>4, WriteIsSeen, WriteKeepsCacheTold, WriteKeepsLookingTold DEF Observed

LEMMA ObservedStays == Observed /\ [Next]_vars => Observed'
<1> SUFFICES ASSUME Observed, [Next]_vars PROVE Observed'
  OBVIOUS
<1>1. CASE UNCHANGED vars
  <2>1. Tiled'
    BY TiledStays DEF Observed
  <2>2. QED
    BY <1>1, <2>1
      DEF vars, history, Observed, Watched, CacheTold, Serves, Told, LookingTold, TableTold,
          SameIndex, Frontier, ExtentsWereTrue, ToldTrue, ExtentsOnly, Failed, ClusterSize
<1>2. QED
  BY <1>1, BeginIsTrue, MergeIsTrue, FailureIsTrue, EndIsTrue, ReadIsTrue, WriteIsTrue
    DEF Next, Walk

(* No extent of the iterator (reader.rs, ExtentIter::next) says what a     *)
(* cluster was not at any moment of the walk, in an image of any contents, *)
(* however many tables and entries another thread adds, copies and writes  *)
(* between the steps of its lookups, and whichever superseded table one of *)
(* them keeps in the cache.                                                *)
THEOREM ExtentsAreTrue == Spec => []ExtentsWereTrue
<1>1. Observed => ExtentsWereTrue
  BY DEF Observed
<1>2. QED
  BY <1>1, ObservedInitially, ObservedStays, PTL DEF Spec

(***************************************************************************)
(* A walk nobody disturbs                                                  *)
(***************************************************************************)
LastStatus == yielded[Len(yielded)].status

Alike(extent) ==
    \A virt \in Starts(image) :
        extent.start <= virt /\ virt < extent.end => StatusAt(image, virt) = extent.status

(* The inductive invariant.  Extents differ because the cluster at the     *)
(* cursor is not like the extent before it, and a walk that has not failed *)
(* has met no damage so far.                                               *)
Exact ==
    /\ \A n \in 1 .. ExtentsOnly :
        Alike(yielded[n]) /\ (n > 1 => yielded[n].status # yielded[n - 1].status)
    /\ run # None => Alike(run) /\ (yielded # <<>> => run.status # LastStatus)
    /\ run = None /\ ~Failed /\ yielded # <<>> /\ cursor < Total =>
        StatusAt(image, cursor) # LastStatus
    /\ ~Failed => \A virt \in Starts(image) :
                      virt < Frontier => StatusAt(image, virt) # "Error"

(* With no writer about, what is cached is the table in use, and so is the *)
(* one a lookup is about to read.                                          *)
Undisturbed ==
    /\ writer = NoWrite
    /\ \A virt \in Starts(image) :
        Serves(virt) => /\ TableOf(image, virt).case = "Table"
                        /\ cached.table = image.table[TableOf(image, virt).at]
    /\ looking # Idle => looking.case = "Table" /\ looking = TableOf(image, Frontier)

ExactAlone == Tiled /\ writes \in Nat /\ (writes = 0 => Exact /\ Undisturbed)

LEMMA NoneIsNoRun == None \notin Run
  BY WalkAssumption

(* An error is of no status that is stored.                                *)
LEMMA NoErrorStored == "Error" \notin Status /\ Failure.status = "Error"
  BY DEF Status, Failure

LEMMA LookupIsExact ==
    ASSUME Tiled, Undisturbed, Frontier \in Starts(image), NEW status,
           LookedUp(Frontier, status), UNCHANGED <<image, writer>>
    PROVE  status = StatusAt(image, Frontier) /\ Undisturbed'
<1>1. Housed /\ looking' = Idle
  BY DEF Tiled, LookedUp
<1>2. CASE NoTable(Frontier, status)
  <2>1. StatusAt(image, Frontier) = status /\ cached' = cached
    BY <1>2 DEF NoTable, StatusAt, LookupCluster
  <2>2. QED
    BY <1>1, <2>1 DEF Undisturbed, Serves
<1>3. CASE FromTable(Frontier, status)
  <2> DEFINE table == TableOf(image, Frontier)
             bytes == image.table[table.at]
  <2>1. /\ looking = table /\ table.case = "Table"
        /\ cached' = Keeps(Frontier, table.at)
        /\ status = StatusIn(EntryIn(image, Frontier, Contents(Frontier, table.at), table.copied))
    BY <1>3 DEF FromTable, CacheAfter, Undisturbed
  <2>2. Contents(Frontier, table.at) = bytes
    BY DEF Contents, Undisturbed
  <2>3. status = StatusAt(image, Frontier)
    BY <2>1, <2>2 DEF StatusAt, LookupCluster
  <2>4. ASSUME NEW virt \in Starts(image), cached'.index = L1IndexOf(image, virt)
        PROVE  TableOf(image, virt).case = "Table"
               /\ cached'.table = image.table[TableOf(image, virt).at]
    <3>1. L1IndexOf(image, virt) = L1IndexOf(image, Frontier) /\ cached'.table = bytes
      BY <2>1, <2>2, <2>4 DEF Keeps
    <3>2. TableOf(image, virt) = table
      BY <3>1 DEF TableOf
    <3>3. QED
      BY <2>1, <3>1, <3>2
  <2>5. Undisturbed'
    BY <1>1, <2>4 DEF Undisturbed, Serves
  <2>6. QED
    BY <2>3, <2>5
<1>4. QED
  BY <1>2, <1>3 DEF LookedUp

LEMMA BeginIsExact ==
    ASSUME Tiled, Exact, Undisturbed, Begin
    PROVE  Exact' /\ Undisturbed'
<1>1. /\ Total \in Nat /\ cursor \in Nat /\ cursor < Total
      /\ cursor % ClusterSize = 0 /\ ~Failed /\ run = None
      /\ Frontier = cursor /\ cursor \in Starts(image)
  BY GeometryFacts, WalkingIsSound, FrontierStarts DEF Tiled, Begin, AtCluster, Frontier
<1>2. PICK status \in Status : /\ status = StatusAt(image, cursor) /\ Undisturbed'
                               /\ run' = NewRun(cursor, status)
  <2>1. PICK status \in Status : LookedUp(cursor, status) /\ run' = NewRun(cursor, status)
    BY DEF Begin
  <2>2. UNCHANGED <<image, writer>>
    BY DEF Begin
  <2>3. status = StatusAt(image, cursor) /\ Undisturbed'
    BY <1>1, <2>1, <2>2, LookupIsExact
  <2>4. QED
    BY <2>1, <2>3
<1>3. /\ run'.start = cursor /\ run'.end = Min2(cursor + ClusterSize, Total)
      /\ run'.status = StatusAt(image, cursor) /\ run' # None
  <2>1. Min2(cursor + ClusterSize, Total) \in Nat
    BY <1>1, NextEnd
  <2>2. run' \in Run
    BY <1>1, <1>2, <2>1 DEF NewRun, Run
  <2>3. QED
    BY <1>2, <2>2, NoneIsNoRun DEF NewRun
<1>4. UNCHANGED <<image, yielded, cursor>>
  BY DEF Begin
<1>5. /\ Starts(image)' = Starts(image) /\ Failed' = Failed /\ ExtentsOnly' = ExtentsOnly
      /\ LastStatus' = LastStatus /\ Frontier = cursor /\ Frontier' = run'.end
  BY <1>1, <1>3, <1>4 DEF Failed, ExtentsOnly, LastStatus, Frontier
<1>6. ASSUME NEW virt \in Starts(image), virt < run'.end
      PROVE  virt < cursor \/ virt = cursor
  <2>1. virt \in Nat
    BY <1>1 DEF Starts, Total
  <2>2. QED
    BY <1>1, <1>3, <1>6, <2>1, OneCluster
<1>7. \A virt \in Starts(image) : virt < run'.end => StatusAt(image, virt) # "Error"
  BY <1>1, <1>2, <1>5, <1>6, NoErrorStored DEF Exact
<1>8. Alike(run)'
  <2>1. \A virt \in Starts(image) : cursor <= virt /\ virt < run'.end => virt = cursor
    BY <1>1, <1>3, OneCluster
  <2>2. QED
    BY <1>3, <1>4, <1>5, <2>1 DEF Alike
<1>9. yielded # <<>> => run'.status # LastStatus
  BY <1>1, <1>3 DEF Exact
<1>10. \A n \in 1 .. ExtentsOnly : Alike(yielded[n])'
  BY <1>4, <1>5 DEF Exact, Alike
<1>11. QED
  BY <1>2, <1>3, <1>4, <1>5, <1>7, <1>8, <1>9, <1>10 DEF Exact

LEMMA MergeIsExact ==
    ASSUME Tiled, Exact, Undisturbed, Merge
    PROVE  Exact' /\ Undisturbed'
<1>1. /\ Total \in Nat /\ run \in Run /\ run.end \in Nat /\ run.end < Total /\ ~Failed
      /\ run.end % ClusterSize = 0 /\ run # None /\ run.start \in Nat /\ run.status \in Status
      /\ Frontier = run.end /\ run.end \in Starts(image)
  BY GeometryFacts, WalkingIsSound, FrontierStarts DEF Tiled, Merge, AtCluster, Run, Frontier
<1>2. /\ UNCHANGED <<image, yielded, cursor>> /\ run.status = StatusAt(image, run.end)
      /\ run' = [run EXCEPT !.end = Min2(run.end + ClusterSize, Total)] /\ Undisturbed'
  BY <1>1, LookupIsExact DEF Merge
<1>3. /\ run'.start = run.start /\ run'.status = run.status /\ run' # None
      /\ run'.end = Min2(run.end + ClusterSize, Total)
  <2>1. Min2(run.end + ClusterSize, Total) \in Nat
    BY <1>1, NextEnd
  <2>2. QED
    BY <1>1, <1>2, <2>1, NoneIsNoRun DEF Run
<1>4. /\ Starts(image)' = Starts(image) /\ Failed' = Failed /\ ExtentsOnly' = ExtentsOnly
      /\ LastStatus' = LastStatus /\ Frontier = run.end /\ Frontier' = run'.end
  BY <1>1, <1>2, <1>3 DEF Failed, ExtentsOnly, LastStatus, Frontier
<1>5. ASSUME NEW virt \in Starts(image), virt < run'.end
      PROVE  virt < run.end \/ virt = run.end
  <2>1. virt \in Nat
    BY <1>1 DEF Starts, Total
  <2>2. QED
    BY <1>1, <1>3, <1>5, <2>1, OneCluster
<1>6. \A virt \in Starts(image) : virt < run'.end => StatusAt(image, virt) # "Error"
  BY <1>1, <1>2, <1>4, <1>5, NoErrorStored DEF Exact
<1>7. Alike(run)'
  <2>1. \A virt \in Starts(image) :
            run.start <= virt /\ virt < run.end => StatusAt(image, virt) = run.status
    BY <1>1 DEF Exact, Alike
  <2>2. \A virt \in Starts(image) :
            run.start <= virt /\ virt < run'.end => StatusAt(image, virt) = run.status
    BY <1>2, <1>5, <2>1
  <2>3. QED
    BY <1>2, <1>3, <1>4, <2>2 DEF Alike
<1>8. yielded # <<>> => run.status # LastStatus
  BY <1>1 DEF Exact
<1>9. \A n \in 1 .. ExtentsOnly : Alike(yielded[n])'
  BY <1>2, <1>4 DEF Exact, Alike
<1>10. QED
  BY <1>2, <1>3, <1>4, <1>6, <1>7, <1>8, <1>9 DEF Exact

LEMMA GiveUpIsExact ==
    ASSUME Tiled, Exact, GiveUp, ~Failed
    PROVE  Exact'
<1>1. yielded \in Seq(Run \cup {Failure}) /\ yielded' = Append(yielded, Failure)
  BY DEF Tiled, GiveUp
<1>2. /\ yielded' # <<>> /\ Len(yielded) \in Nat /\ Len(yielded') = Len(yielded) + 1
      /\ \A n \in 1 .. Len(yielded) : yielded'[n] = yielded[n]
      /\ yielded'[Len(yielded) + 1] = Failure
  BY <1>1, AppendFacts
<1>3. /\ Failed' /\ ExtentsOnly' = Len(yielded) /\ ExtentsOnly = Len(yielded)
      /\ UNCHANGED image /\ run' = None /\ Starts(image)' = Starts(image)
  BY <1>2 DEF Failed, ExtentsOnly, GiveUp
<1>4. ASSUME NEW n \in 1 .. Len(yielded)
      PROVE  /\ Alike(yielded[n])'
             /\ n > 1 => yielded'[n].status # yielded'[n - 1].status
  <2>1. Alike(yielded[n]) /\ (n > 1 => yielded[n].status # yielded[n - 1].status)
    BY <1>3 DEF Exact
  <2>2. yielded'[n] = yielded[n] /\ (n > 1 => yielded'[n - 1] = yielded[n - 1])
    BY <1>2
  <2>3. QED
    BY <1>3, <2>1, <2>2 DEF Alike
<1>5. QED
  BY <1>3, <1>4 DEF Exact

(* A run returned: the disk ends there, or another status begins.          *)
LEMMA YieldIsExact ==
    ASSUME Tiled, Exact, Yield, run # None,
           run.end < Total => StatusAt(image, run.end) # run.status
    PROVE  Exact'
<1>1. Total \in Nat /\ run \in Run /\ run.end \in Nat /\ run.end <= Total /\ ~Failed
  BY GeometryFacts, WalkingIsSound DEF Tiled, Run, ExtentsTile
<1>2. yielded \in Seq(Run \cup {Failure}) /\ yielded' = Append(yielded, run)
  BY DEF Tiled, Yield
<1>3. /\ yielded' # <<>> /\ Len(yielded) \in Nat /\ Len(yielded') = Len(yielded) + 1
      /\ \A n \in 1 .. Len(yielded) : yielded'[n] = yielded[n]
      /\ yielded'[Len(yielded) + 1] = run
  BY <1>1, <1>2, AppendFacts
<1>4. /\ ~Failed' /\ ExtentsOnly' = Len(yielded) + 1 /\ ExtentsOnly = Len(yielded)
      /\ UNCHANGED image /\ run' = None /\ cursor' = run.end /\ Starts(image)' = Starts(image)
      /\ Frontier = run.end /\ Frontier' = run.end /\ LastStatus' = run.status
      /\ Total' = Total
  BY <1>1, <1>3, FailureIsNoRun
    DEF Failed, ExtentsOnly, Yield, Frontier, LastStatus, Total
<1>5. Len(yielded) = 0 <=> yielded = <<>>
  BY <1>2
<1>6. ASSUME NEW n \in 1 .. Len(yielded) + 1
      PROVE  /\ Alike(yielded[n])'
             /\ n > 1 => yielded'[n].status # yielded'[n - 1].status
  <2>1. CASE n = Len(yielded) + 1
    <3>1. yielded'[n] = run /\ (n > 1 => yielded # <<>> /\ yielded'[n - 1] = yielded[Len(yielded)])
      BY <1>3, <1>5, <2>1
    <3>2. Alike(run) /\ (yielded # <<>> => run.status # LastStatus)
      BY DEF Exact
    <3>3. QED
      BY <1>4, <3>1, <3>2 DEF Alike, LastStatus
  <2>2. CASE n \in 1 .. Len(yielded)
    <3>1. Alike(yielded[n]) /\ (n > 1 => yielded[n].status # yielded[n - 1].status)
      BY <1>4, <2>2 DEF Exact
    <3>2. yielded'[n] = yielded[n] /\ (n > 1 => yielded'[n - 1] = yielded[n - 1])
      BY <1>3, <2>2
    <3>3. QED
      BY <1>4, <3>1, <3>2 DEF Alike
  <2>3. QED
    BY <1>3, <2>1, <2>2
<1>7. \A virt \in Starts(image) : virt < run.end => StatusAt(image, virt) # "Error"
  BY <1>1, <1>4 DEF Exact
<1>8. QED
  BY <1>4, <1>6, <1>7 DEF Exact

LEMMA ExactInitially == Init => ExactAlone
<1> SUFFICES ASSUME Init PROVE ExactAlone
  OBVIOUS
<1>1. Tiled /\ writes \in Nat /\ run = None /\ yielded = <<>> /\ cursor = 0
  BY TiledInitially DEF Init
<1>2. ExtentsOnly = 0 /\ Frontier = 0
  BY <1>1 DEF ExtentsOnly, Failed, Frontier
<1>3. \A virt \in Starts(image) : ~(virt < 0)
  BY <1>1, GeometryFacts DEF Starts, Total
<1>4. Exact
  BY <1>1, <1>2, <1>3 DEF Exact
<1>5. Undisturbed
  BY <1>1, EmptyServesNone DEF Init, Undisturbed, Tiled
<1>6. QED
  BY <1>1, <1>4, <1>5 DEF ExactAlone

LEMMA FailureIsExact ==
    ASSUME Tiled, Exact, Undisturbed, BeginFails \/ MergeFails
    PROVE  Exact' /\ Undisturbed'
<1>1. GiveUp /\ ~Failed /\ Frontier < Total /\ (cursor < Total \/ run # None)
  BY WalkingIsSound DEF BeginFails, MergeFails, Frontier
<1>2. LookedUp(Frontier, "Error") \/ LoadFailed(Frontier)
  BY DEF BeginFails, MergeFails, LookupFails, Frontier
<1>3. Frontier \in Starts(image) /\ UNCHANGED <<image, writer>>
  BY <1>1, FrontierStarts DEF GiveUp
<1>4. Undisturbed'
  <2>1. CASE LookedUp(Frontier, "Error")
    BY <1>3, <2>1, LookupIsExact
  <2>2. CASE LoadFailed(Frontier)
    BY <1>3, <2>2 DEF LoadFailed, Undisturbed, Serves
  <2>3. QED
    BY <1>2, <2>1, <2>2
<1>5. QED
  BY <1>1, <1>4, GiveUpIsExact

LEMMA EndIsExact ==
    ASSUME Tiled, Exact, Undisturbed, Break \/ Finish
    PROVE  Exact' /\ Undisturbed'
<1>1. Yield /\ run # None /\ UNCHANGED <<image, writer>> /\ run \in Run /\ Total \in Nat
  BY GeometryFacts DEF Break, Finish, Yield, Tiled
<1>2. CASE Break
  <2>1. Frontier = run.end /\ Frontier < Total
    BY <1>2 DEF Break, Frontier
  <2>2. Frontier \in Starts(image)
    BY <1>1, <2>1, FrontierStarts
  <2>3. PICK status \in Status \ {run.status} : LookedUp(Frontier, status)
    BY <1>2, <2>1 DEF Break
  <2>4. status = StatusAt(image, Frontier) /\ Undisturbed'
    BY <1>1, <2>2, <2>3, LookupIsExact
  <2>5. QED
    BY <1>1, <2>1, <2>3, <2>4, YieldIsExact
<1>3. CASE Finish
  <2>1. UNCHANGED <<cached, looking>> /\ Frontier' = Frontier
    BY <1>1, <1>3 DEF Finish, Yield, Frontier
  <2>2. Undisturbed'
    BY <1>1, <2>1 DEF Undisturbed, Serves
  <2>3. ~(run.end < Total)
    BY <1>1, <1>3 DEF Finish, Run
  <2>4. QED
    BY <1>1, <2>2, <2>3, YieldIsExact
<1>4. QED
  BY <1>2, <1>3

LEMMA ReadIsExact ==
    ASSUME Tiled, Exact, Undisturbed, ReadL1
    PROVE  Exact' /\ Undisturbed'
<1>1. /\ looking' = TableOf(image, Frontier) /\ TableOf(image, Frontier).case = "Table"
      /\ UNCHANGED <<image, cached, cursor, run, yielded, writer>>
  BY DEF ReadL1
<1>2. Frontier' = Frontier
  BY <1>1 DEF Frontier
<1>3. QED
  BY <1>1, <1>2 DEF Undisturbed, Serves, Exact, Alike, ExtentsOnly, Failed, LastStatus, Total

LEMMA ExactStays == ExactAlone /\ [Next]_vars => ExactAlone'
<1> SUFFICES ASSUME ExactAlone, [Next]_vars PROVE ExactAlone'
  OBVIOUS
<1>1. Tiled /\ Tiled'
  BY TiledStays DEF ExactAlone
<1>2. CASE Write
  <2>1. CASE BeginWrite
    <3>1. writes' = writes + 1
      BY <2>1 DEF BeginWrite
    <3>2. QED
      BY <1>1, <3>1 DEF ExactAlone
  <2>2. CASE ~BeginWrite
    <3>1. writes' = writes /\ writer # NoWrite
      BY <1>2, <2>2 DEF Write, AddTable, CopyTable, Repoint, KeepTable, WriteEntry, ForgetCaches,
                        WriteFails, NoWrite, history
    <3>2. QED
      BY <1>1, <3>1 DEF ExactAlone, Undisturbed
  <2>3. QED
    BY <2>1, <2>2
<1>3. CASE Walk
  <2>1. writes' = writes
    BY <1>3, WalkKeepsImage
  <2>2. ASSUME Exact, Undisturbed PROVE Exact' /\ Undisturbed'
    BY <1>1, <1>3, <2>2, BeginIsExact, MergeIsExact, FailureIsExact, EndIsExact, ReadIsExact
      DEF Walk
  <2>3. QED
    BY <1>1, <2>1, <2>2 DEF ExactAlone
<1>4. CASE UNCHANGED vars
  BY <1>1, <1>4 DEF ExactAlone, vars, history, Exact, Alike, Starts, ExtentsOnly, Failed,
                    LastStatus, Frontier, Total, Undisturbed, Serves
<1>5. QED
  BY <1>2, <1>3, <1>4 DEF Next

(* With no writer about, the extents returned by the iterator (reader.rs,  *)
(* ExtentIter::next) are what each cluster's status says, each as long as  *)
(* it can be, and a walk that ends without an error met none.              *)
THEOREM WalksAreExact == Spec => []WalkIsExact
<1>1. ExactAlone => WalkIsExact
  <2> SUFFICES ASSUME Tiled, Exact PROVE WalkIsExact
    BY DEF ExactAlone, WalkIsExact
  <2>1. ASSUME Over, ~Failed, NEW virt \in Starts(image) PROVE StatusAt(image, virt) # "Error"
    <3>1. Frontier = Total /\ virt < Total
      BY <2>1, GeometryFacts DEF Over, Frontier, Starts, Total
    <3>2. QED
      BY <2>1, <3>1 DEF Exact
  <2>2. QED
    BY <2>1 DEF Exact, Alike, WalkIsExact
<1>2. QED
  BY <1>1, ExactInitially, ExactStays, PTL DEF Spec

(***************************************************************************)
(* What a walk costs                                                       *)
(***************************************************************************)
Before(virt) == {start \in Starts(image) : start < virt}

Upto(index) == {i \in DOMAIN image.l1 : i <= index}

(* The inductive invariant: the lookup that ends a run is made again to    *)
(* begin the next one, and the tables read are those up to the cached one, *)
(* which is none the walk has yet to come to.                              *)
Counted ==
    ~Failed => lookups = Cardinality(Before(Frontier)) + Len(yielded)
                           - (IF run = None /\ cursor = Total /\ Total > 0 THEN 1 ELSE 0)

ReadOnce ==
    IF cached.index = None THEN loads = 0
    ELSE /\ cached.index <= L1IndexOf(image, Frontier)
         /\ loads <= Cardinality(Upto(cached.index))

Bounded ==
    /\ Tiled
    /\ cached.index \in DOMAIN image.l1 \cup {None}
    /\ looking # Idle => L1IndexOf(image, Frontier) \in DOMAIN image.l1
    /\ {lookups, loads, writes} \subseteq Nat
    /\ Counted
    /\ writes = 0 => ReadOnce /\ writer = NoWrite

LEMMA StartsFinite ==
    ASSUME Tiled
    PROVE  /\ IsFiniteSet(Starts(image)) /\ Cardinality(Starts(image)) \in Nat
           /\ \A virt : IsFiniteSet(Before(virt)) /\ Cardinality(Before(virt)) \in Nat
<1>1. Total \in Nat /\ Total - 1 \in Int
  BY GeometryFacts
<1>2. IsFiniteSet(0 .. Total - 1)
  BY <1>1, FS_Interval
<1>3. Starts(image) \subseteq 0 .. Total - 1
  BY DEF Starts, Total
<1>4. IsFiniteSet(Starts(image))
  BY <1>2, <1>3, FS_Subset
<1>5. \A virt : Before(virt) \subseteq Starts(image)
  BY DEF Before
<1>6. QED
  BY <1>4, <1>5, FS_Subset, FS_CardinalityType

(* A lookup takes the walk past one more cluster.                          *)
LEMMA OneMoreBefore ==
    ASSUME Tiled, NEW virt \in Nat, virt < Total, virt % ClusterSize = 0
    PROVE  Cardinality(Before(Min2(virt + ClusterSize, Total))) = Cardinality(Before(virt)) + 1
<1> DEFINE end == Min2(virt + ClusterSize, Total)
<1>1. Total \in Nat /\ end \in Nat /\ virt < end /\ end <= Total
  BY NextEnd, GeometryFacts
<1>2. virt \in Starts(image)
  BY <1>1 DEF Starts, Total, ClusterSize
<1>3. ASSUME NEW start \in Starts(image)
      PROVE  start < end <=> start < virt \/ start = virt
  <2>1. start \in Nat
    BY <1>1 DEF Starts, Total
  <2>2. virt <= start /\ start < end => start = virt
    BY OneCluster
  <2> HIDE DEF end
  <2>3. QED
    BY <1>1, <2>1, <2>2
<1> HIDE DEF end
<1>4. Before(end) = Before(virt) \cup {virt}
  BY <1>2, <1>3 DEF Before
<1>5. virt \notin Before(virt)
  BY DEF Before
<1>6. QED
  BY <1>4, <1>5, StartsFinite, FS_AddElement DEF end

LEMMA NoneBefore ==
    ASSUME Tiled
    PROVE  Cardinality(Before(0)) = 0 /\ Before(Total) = Starts(image)
<1>1. Total \in Nat /\ \A virt \in Starts(image) : virt \in Nat /\ virt < Total
  BY GeometryFacts DEF Starts, Total
<1>2. Before(0) = {}
  BY <1>1 DEF Before
<1>3. Before(Total) = Starts(image)
  BY <1>1 DEF Before
<1>4. QED
  BY <1>2, <1>3, FS_EmptySet

LEMMA DivGrows ==
    ASSUME NEW a \in Nat, NEW b \in Nat, a <= b, NEW c \in Nat \ {0}
    PROVE  a \div c <= b \div c
<1> DEFINE p == a \div c
           q == b \div c
<1>1. /\ p \in Nat /\ q \in Nat /\ a % c \in 0 .. c - 1 /\ b % c \in 0 .. c - 1
      /\ a = c * p + (a % c) /\ b = c * q + (b % c)
  BY DivMod
<1> HIDE DEF p, q
<1>2. CASE q < p
  <2>1. c * q + c <= c * p
    BY <1>1, <1>2, LessTimes
  <2>2. c * p \in Nat /\ c * q \in Nat
    BY <1>1
  <2>3. QED
    BY <1>1, <2>1, <2>2
<1>3. QED
  BY <1>1, <1>2 DEF p, q

(* Tables come in the order of the clusters they map.                      *)
LEMMA IndexGrows ==
    ASSUME Tiled, NEW a \in Nat, NEW b \in Nat, a <= b
    PROVE  /\ L1IndexOf(image, a) \in Nat /\ L1IndexOf(image, b) \in Nat
           /\ L1IndexOf(image, a) <= L1IndexOf(image, b)
<1> DEFINE c == image.cluster_size
           k == image.cluster_size \div EntryBytes
<1>1. c \in Nat \ {0} /\ EntryBytes \in Nat \ {0} /\ EntryBytes <= c
  BY WalkAssumption DEF Tiled, Housed, ImageTyped
<1>2. k \in Nat \ {0}
  <2>1. /\ k \in Nat /\ c % EntryBytes \in 0 .. EntryBytes - 1
        /\ c = EntryBytes * k + (c % EntryBytes)
    BY <1>1, DivMod
  <2> HIDE DEF k, c
  <2>2. CASE k = 0
    <3>1. EntryBytes * k = 0
      BY <1>1, <2>2
    <3>2. QED
      BY <1>1, <2>1, <3>1
  <2>3. QED
    BY <2>1, <2>2
<1>3. L1IndexOf(image, a) = (a \div c) \div k /\ L1IndexOf(image, b) = (b \div c) \div k
  BY DEF L1IndexOf, L2Entries
<1> HIDE DEF c, k
<1>4. a \div c \in Nat /\ b \div c \in Nat /\ a \div c <= b \div c
  BY <1>1, DivMod, DivGrows
<1>5. (a \div c) \div k \in Nat /\ (b \div c) \div k \in Nat
  BY <1>2, <1>4, DivMod
<1>6. (a \div c) \div k <= (b \div c) \div k
  BY <1>2, <1>4, DivGrows
<1>7. QED
  BY <1>3, <1>5, <1>6

LEMMA UptoFacts ==
    ASSUME Tiled
    PROVE  /\ DOMAIN image.l1 \subseteq Nat /\ Cardinality(DOMAIN image.l1) \in Nat
           /\ \A index : /\ IsFiniteSet(Upto(index)) /\ Cardinality(Upto(index)) \in Nat
                         /\ Cardinality(Upto(index)) <= Cardinality(DOMAIN image.l1)
<1>1. IsFiniteSet(DOMAIN image.l1) /\ DOMAIN image.l1 \subseteq Nat
  BY DEF Tiled, Housed, ImageTyped
<1>2. \A index : Upto(index) \subseteq DOMAIN image.l1
  BY DEF Upto
<1>3. QED
  BY <1>1, <1>2, FS_Subset, FS_CardinalityType

(* A table beyond the cached one is one table more.                        *)
LEMMA OneMoreTable ==
    ASSUME Tiled, NEW low \in DOMAIN image.l1, NEW high \in DOMAIN image.l1, low < high
    PROVE  Cardinality(Upto(low)) + 1 <= Cardinality(Upto(high))
<1>1. DOMAIN image.l1 \subseteq Nat
  BY UptoFacts
<1>2. high \notin Upto(low) /\ Upto(low) \cup {high} \subseteq Upto(high)
  BY <1>1 DEF Upto
<1>3. Cardinality(Upto(low) \cup {high}) = Cardinality(Upto(low)) + 1
  BY <1>2, UptoFacts, FS_AddElement
<1>4. Cardinality(Upto(low) \cup {high}) <= Cardinality(Upto(high))
  BY <1>2, UptoFacts, FS_Subset
<1>5. QED
  BY <1>3, <1>4

LEMMA OneTable ==
    ASSUME Tiled, NEW index \in DOMAIN image.l1
    PROVE  1 <= Cardinality(Upto(index))
<1>1. index \in Upto(index)
  BY UptoFacts DEF Upto
<1>2. Upto(index) # {} /\ Cardinality(Upto(index)) \in Nat
  BY <1>1, UptoFacts
<1>3. Cardinality(Upto(index)) # 0
  BY <1>2, UptoFacts, FS_EmptySet
<1>4. QED
  BY <1>2, <1>3

LEMMA FrontierFacts ==
    ASSUME Tiled
    PROVE  Frontier \in Nat /\ Frontier <= Total /\ Total \in Nat
  BY GeometryFacts DEF Tiled, Frontier, Run, ExtentsTile

(* A lookup that ends at the frontier, whatever the walk does next.        *)
EndsLookup == LoadFailed(Frontier) \/ \E status : LookedUp(Frontier, status)

LEMMA LookupCosts ==
    ASSUME Bounded, EndsLookup, UNCHANGED <<image, writer, writes>>,
           Frontier' \in Nat, Frontier <= Frontier'
    PROVE  /\ cached'.index \in (DOMAIN image.l1 \cup {None})'
           /\ looking' = Idle
           /\ lookups' = lookups + 1 /\ {lookups, loads, writes}' \subseteq Nat
           /\ writes' = 0 => ReadOnce' /\ writer' = NoWrite
<1> DEFINE index == L1IndexOf(image, Frontier)
           kept == cached.index
<1>1. Tiled /\ Frontier \in Nat
  BY FrontierFacts DEF Bounded
<1>2. /\ index \in Nat /\ L1IndexOf(image, Frontier') \in Nat
      /\ index <= L1IndexOf(image, Frontier')
  BY <1>1, IndexGrows
<1>3. L1IndexOf(image, Frontier)' = L1IndexOf(image, Frontier') /\ \A i : Upto(i)' = Upto(i)
  BY DEF Upto
<1>4. looking' = Idle /\ lookups' = lookups + 1
  BY DEF EndsLookup, LookedUp, LoadFailed
<1>5. \/ cached'.index = cached.index /\ loads' = loads
      \/ /\ looking # Idle /\ ~Serves(Frontier)
         /\ cached'.index = index /\ loads' = loads + 1
  BY DEF EndsLookup, LookedUp, LoadFailed, NoTable, FromTable, CacheAfter, Keeps, Serves
<1>6. CASE cached'.index = cached.index /\ loads' = loads
  <2>1. ASSUME writes = 0, kept # None
        PROVE  kept <= L1IndexOf(image, Frontier') /\ loads <= Cardinality(Upto(kept))
    <3>1. kept \in Nat /\ kept <= index /\ loads <= Cardinality(Upto(kept))
      BY <1>1, <2>1, UptoFacts DEF Bounded, ReadOnce
    <3> HIDE DEF index, kept
    <3>2. QED
      BY <1>2, <3>1
  <2>2. QED
    BY <1>3, <1>4, <1>6, <2>1 DEF Bounded, ReadOnce
<1>7. CASE looking # Idle /\ ~Serves(Frontier) /\ cached'.index = index /\ loads' = loads + 1
  <2>1. kept # index /\ index \in DOMAIN image.l1
    BY <1>7 DEF Serves, Bounded
  <2>2. index # None
    BY <1>2, WalkAssumption
  <2>3. kept \in DOMAIN image.l1 \cup {None} /\ loads \in Nat
    BY DEF Bounded
  <2>4. writes = 0 => IF kept = None THEN loads = 0
                      ELSE kept <= index /\ loads <= Cardinality(Upto(kept))
    BY DEF Bounded, ReadOnce
  <2> HIDE DEF index, kept
  <2>5. ASSUME writes = 0 PROVE loads + 1 <= Cardinality(Upto(index))
    <3>1. CASE kept = None
      BY <1>1, <2>1, <2>4, <2>5, <3>1, OneTable
    <3>2. CASE kept # None
      <4>1. /\ kept \in DOMAIN image.l1 /\ kept \in Nat /\ kept <= index
            /\ loads <= Cardinality(Upto(kept))
        BY <1>1, <2>3, <2>4, <2>5, <3>2, UptoFacts
      <4>2. kept < index
        BY <1>2, <2>1, <4>1
      <4>3. Cardinality(Upto(kept)) + 1 <= Cardinality(Upto(index))
        BY <1>1, <2>1, <4>1, <4>2, OneMoreTable
      <4>4. Cardinality(Upto(kept)) \in Nat /\ Cardinality(Upto(index)) \in Nat
        BY <1>1, UptoFacts
      <4>5. QED
        BY <2>3, <4>1, <4>3, <4>4
    <3>3. QED
      BY <3>1, <3>2
  <2>6. writes' = 0 => ReadOnce' /\ writer' = NoWrite
    BY <1>2, <1>3, <1>7, <2>2, <2>5 DEF ReadOnce, Bounded
  <2>7. QED
    BY <1>4, <1>7, <2>1, <2>6 DEF Bounded
<1>8. QED
  BY <1>5, <1>6, <1>7

LEMMA BeginCosts ==
    ASSUME Bounded, Begin
    PROVE  Bounded'
<1>1. /\ Tiled /\ Total \in Nat /\ cursor \in Nat /\ cursor < Total /\ ~Failed
      /\ cursor % ClusterSize = 0 /\ run = None /\ Frontier = cursor
  BY GeometryFacts, WalkingIsSound DEF Bounded, Tiled, Begin, AtCluster, Frontier
<1>2. /\ UNCHANGED <<image, writer, writes, cursor, yielded>> /\ EndsLookup
  BY <1>1 DEF Begin, EndsLookup
<1>3. Min2(cursor + ClusterSize, Total) \in Nat /\ cursor < Min2(cursor + ClusterSize, Total)
  BY <1>1, NextEnd
<1>4. run' # None /\ Frontier' = Min2(cursor + ClusterSize, Total)
  <2>1. PICK status \in Status : run' = NewRun(cursor, status)
    BY DEF Begin, Status
  <2>2. run' \in Run
    BY <1>1, <1>3, <2>1 DEF NewRun, Run
  <2>3. QED
    BY <2>1, <2>2, NoneIsNoRun DEF NewRun, Frontier
<1>5. /\ cached'.index \in (DOMAIN image.l1 \cup {None})' /\ looking' = Idle
      /\ lookups' = lookups + 1 /\ {lookups, loads, writes}' \subseteq Nat
      /\ writes' = 0 => ReadOnce' /\ writer' = NoWrite
  BY <1>1, <1>2, <1>3, <1>4, LookupCosts
<1>6. Counted'
  <2>1. lookups = Cardinality(Before(cursor)) + Len(yielded)
    BY <1>1 DEF Bounded, Counted
  <2>2. Before(Frontier)' = Before(Min2(cursor + ClusterSize, Total))
    BY <1>2, <1>4 DEF Before
  <2>3. Len(yielded) \in Nat /\ Cardinality(Before(cursor)) \in Nat
    BY <1>1, StartsFinite DEF Tiled
  <2>4. Cardinality(Before(Frontier))' = Cardinality(Before(cursor)) + 1
    BY <1>1, <2>2, OneMoreBefore
  <2>5. QED
    BY <1>2, <1>4, <1>5, <2>1, <2>3, <2>4 DEF Counted
<1>7. QED
  BY <1>1, <1>5, <1>6, BeginKeepsTiled DEF Bounded

LEMMA MergeCosts ==
    ASSUME Bounded, Merge
    PROVE  Bounded'
<1>1. /\ Tiled /\ Total \in Nat /\ run.end \in Nat /\ run.end < Total /\ ~Failed /\ run \in Run
      /\ run.end % ClusterSize = 0 /\ run # None /\ Frontier = run.end
  BY GeometryFacts, WalkingIsSound DEF Bounded, Tiled, Merge, AtCluster, Run, Frontier
<1>2. /\ UNCHANGED <<image, writer, writes, cursor, yielded>> /\ EndsLookup
      /\ run' = [run EXCEPT !.end = Min2(run.end + ClusterSize, Total)]
  BY <1>1 DEF Merge, EndsLookup
<1>3. Min2(run.end + ClusterSize, Total) \in Nat /\ run.end < Min2(run.end + ClusterSize, Total)
  BY <1>1, NextEnd
<1>4. run' # None /\ Frontier' = Min2(run.end + ClusterSize, Total)
  BY <1>1, <1>2, <1>3, NoneIsNoRun DEF Frontier, Run
<1>5. /\ cached'.index \in (DOMAIN image.l1 \cup {None})' /\ looking' = Idle
      /\ lookups' = lookups + 1 /\ {lookups, loads, writes}' \subseteq Nat
      /\ writes' = 0 => ReadOnce' /\ writer' = NoWrite
  BY <1>1, <1>2, <1>3, <1>4, LookupCosts
<1>6. Counted'
  <2>1. lookups = Cardinality(Before(run.end)) + Len(yielded)
    BY <1>1 DEF Bounded, Counted
  <2>2. Before(Frontier)' = Before(Min2(run.end + ClusterSize, Total))
    BY <1>2, <1>4 DEF Before
  <2>3. Len(yielded) \in Nat /\ Cardinality(Before(run.end)) \in Nat
    BY <1>1, StartsFinite DEF Tiled
  <2>4. Cardinality(Before(Frontier))' = Cardinality(Before(run.end)) + 1
    BY <1>1, <2>2, OneMoreBefore
  <2>5. QED
    BY <1>2, <1>4, <1>5, <2>1, <2>3, <2>4 DEF Counted
<1>7. QED
  BY <1>1, <1>5, <1>6, MergeKeepsTiled DEF Bounded

LEMMA GiveUpCosts ==
    ASSUME Bounded, BeginFails \/ MergeFails
    PROVE  Bounded'
<1>1. GiveUp /\ Tiled /\ ~Failed
  BY WalkingIsSound DEF Bounded, BeginFails, MergeFails
<1>2. EndsLookup
  BY DEF BeginFails, MergeFails, LookupFails, EndsLookup, Frontier
<1>3. /\ UNCHANGED <<image, writer, writes>> /\ Frontier' = Total /\ Frontier \in Nat
      /\ Total \in Nat /\ Frontier <= Total
  BY <1>1, FrontierFacts DEF GiveUp, Frontier
<1>4. /\ cached'.index \in (DOMAIN image.l1 \cup {None})' /\ looking' = Idle
      /\ {lookups, loads, writes}' \subseteq Nat
      /\ writes' = 0 => ReadOnce' /\ writer' = NoWrite
  BY <1>2, <1>3, LookupCosts
<1>5. Failed'
  <2>1. yielded \in Seq(Run \cup {Failure}) /\ yielded' = Append(yielded, Failure)
    BY <1>1 DEF Tiled, GiveUp
  <2>2. QED
    BY <2>1, AppendFacts DEF Failed
<1>6. QED
  BY <1>1, <1>4, <1>5, GiveUpKeepsTiled DEF Bounded, Counted

LEMMA YieldCosts ==
    ASSUME Bounded, Break \/ Finish
    PROVE  Bounded'
<1>1. /\ Yield /\ Tiled /\ Tiled' /\ run # None /\ ~Failed /\ run \in Run /\ run.end \in Nat
      /\ Total \in Nat /\ run.end <= Total /\ Frontier = run.end
  BY WalkingIsSound, YieldKeepsTiled, GeometryFacts
    DEF Bounded, Break, Finish, Tiled, Run, Frontier, ExtentsTile
<1>2. /\ UNCHANGED <<image, writer, writes>> /\ run' = None /\ cursor' = run.end
      /\ Frontier' = Frontier /\ Total' = Total
  BY <1>1 DEF Yield, Frontier, Total
<1>3. yielded \in Seq(Run \cup {Failure}) /\ yielded' = Append(yielded, run)
  BY <1>1 DEF Tiled, Yield
<1>4. Len(yielded) \in Nat /\ Len(yielded') = Len(yielded) + 1
  BY <1>1, <1>3, AppendFacts
<1>5. /\ lookups = Cardinality(Before(run.end)) + Len(yielded)
      /\ Before(Frontier)' = Before(run.end) /\ Cardinality(Before(run.end)) \in Nat
  <2>1. Cardinality(Before(run.end)) \in Nat
    BY <1>1, StartsFinite
  <2>2. lookups = Cardinality(Before(run.end)) + Len(yielded)
    BY <1>1, <1>4, <2>1 DEF Bounded, Counted
  <2>3. Before(Frontier)' = Before(run.end)
    BY <1>1, <1>2 DEF Before
  <2>4. QED
    BY <2>1, <2>2, <2>3
<1>6. CASE Break
  <2>1. run.end < Total /\ EndsLookup
    BY <1>1, <1>6 DEF Break, EndsLookup
  <2>2. /\ cached'.index \in (DOMAIN image.l1 \cup {None})' /\ looking' = Idle
        /\ lookups' = lookups + 1 /\ {lookups, loads, writes}' \subseteq Nat
        /\ writes' = 0 => ReadOnce' /\ writer' = NoWrite
    BY <1>1, <1>2, <2>1, LookupCosts
  <2>3. Counted'
    BY <1>1, <1>2, <1>4, <1>5, <2>1, <2>2 DEF Counted
  <2>4. QED
    BY <1>1, <2>2, <2>3 DEF Bounded
<1>7. CASE Finish
  <2>1. run.end = Total /\ Total > 0 /\ UNCHANGED <<cached, looking, lookups, loads>>
    BY <1>1, <1>7 DEF Finish, Tiled, ExtentsTile
  <2>2. Counted'
    BY <1>1, <1>2, <1>4, <1>5, <2>1 DEF Counted
  <2>3. writes' = 0 => ReadOnce' /\ writer' = NoWrite
    BY <1>2, <2>1 DEF Bounded, ReadOnce, Upto
  <2>4. QED
    BY <1>1, <1>2, <2>1, <2>2, <2>3 DEF Bounded
<1>8. QED
  BY <1>6, <1>7

(* The first half of a lookup costs nothing yet.                           *)
LEMMA ReadCosts ==
    ASSUME Bounded, ReadL1
    PROVE  Bounded'
<1>1. /\ TableOf(image, Frontier).case = "Table" /\ Tiled'
      /\ UNCHANGED <<image, cached, cursor, run, yielded, writer, lookups, loads, writes>>
  BY TiledStays DEF ReadL1, history, Bounded, Next, Walk
<1>2. L1IndexOf(image, Frontier) \in DOMAIN image.l1
  BY <1>1 DEF TableOf, Corrupt
<1>3. Frontier' = Frontier /\ Failed' = Failed
  BY <1>1 DEF Frontier, Failed
<1>4. Counted' /\ (writes' = 0 => ReadOnce')
  BY <1>1, <1>3 DEF Bounded, Counted, ReadOnce, Upto, Before, Starts, Total
<1>5. QED
  BY <1>1, <1>2, <1>3, <1>4 DEF Bounded

(* A write adds to no count the walk is held to, and moves no cluster.     *)
LEMMA WriterCosts ==
    ASSUME Bounded, Write
    PROVE  Bounded'
<1>1. /\ Tiled /\ Tiled' /\ Grows
      /\ UNCHANGED <<cursor, run, looking, yielded, lookups, loads>>
  BY TiledStays, HousedStays, WriteKeepsWalk DEF Bounded, Tiled, Next
<1>2. writes' \in Nat /\ writes' # 0
  <2>1. CASE BeginWrite
    BY <2>1 DEF BeginWrite, Bounded
  <2>2. CASE ~BeginWrite
    <3>1. writes' = writes /\ writer # NoWrite
      BY <2>2 DEF Write, AddTable, CopyTable, Repoint, KeepTable, WriteEntry, ForgetCaches,
                  WriteFails, NoWrite, history
    <3>2. QED
      BY <3>1 DEF Bounded
  <2>3. QED
    BY <2>1, <2>2
<1>3. /\ Starts(image)' = Starts(image) /\ Frontier' = Frontier /\ Failed' = Failed
      /\ Total' = Total /\ DOMAIN image'.l1 = DOMAIN image.l1
      /\ \A virt : L1IndexOf(image', virt) = L1IndexOf(image, virt)
  BY <1>1, Standing DEF Grows, Frontier, Failed
<1>4. Before(Frontier)' = Before(Frontier)
  BY <1>3 DEF Before
<1>5. Counted'
  BY <1>1, <1>3, <1>4 DEF Bounded, Counted
<1>6. cached'.index \in DOMAIN image.l1 \cup {None}
  <2>1. CASE BeginWrite
    <3>1. PICK virt : cached' = IF TableOf(image, virt).case = "Table"
                                THEN Keeps(virt, TableOf(image, virt).at) ELSE cached
      BY <2>1 DEF BeginWrite
    <3>2. TableOf(image, virt).case = "Table" => L1IndexOf(image, virt) \in DOMAIN image.l1
      BY DEF TableOf, Corrupt
    <3>3. QED
      BY <3>1, <3>2 DEF Bounded, Keeps
  <2>2. CASE ~BeginWrite
    <3>1. cached' = cached \/ cached' = Empty
      BY <2>2 DEF Write, AddTable, CopyTable, Repoint, KeepTable, WriteEntry, ForgetCaches,
                  WriteFails
    <3>2. QED
      BY <3>1 DEF Bounded, Empty
  <2>3. QED
    BY <2>1, <2>2
<1>7. QED
  BY <1>1, <1>2, <1>3, <1>5, <1>6 DEF Bounded

LEMMA BoundedInitially == Init => Bounded
<1> SUFFICES ASSUME Init PROVE Bounded
  OBVIOUS
<1>1. /\ Tiled /\ writes = 0 /\ loads = 0 /\ lookups = 0 /\ run = None /\ yielded = <<>>
      /\ cursor = 0 /\ cached.index = None /\ looking = Idle /\ writer = NoWrite
  BY TiledInitially DEF Init, Empty
<1>2. Cardinality(Before(Frontier)) = 0 /\ Len(yielded) = 0
  BY <1>1, NoneBefore DEF Frontier
<1>3. Counted /\ ReadOnce
  BY <1>1, <1>2, GeometryFacts DEF Counted, ReadOnce
<1>4. QED
  BY <1>1, <1>3 DEF Bounded

LEMMA BoundedStays == Bounded /\ [Next]_vars => Bounded'
<1> SUFFICES ASSUME Bounded, [Next]_vars PROVE Bounded'
  OBVIOUS
<1>1. CASE UNCHANGED vars
  <2>1. Tiled'
    BY TiledStays DEF Bounded
  <2>2. UNCHANGED <<image, cached, cursor, run, looking, yielded, writer, lookups, loads, writes>>
    BY <1>1 DEF vars, history
  <2>3. Counted' /\ (writes' = 0 => ReadOnce')
    BY <2>2 DEF Bounded, Counted, ReadOnce, Upto, Before, Starts, Frontier, Failed, Total
  <2>4. looking' # Idle => L1IndexOf(image, Frontier)' \in DOMAIN image'.l1
    BY <2>2 DEF Bounded, Frontier, L1IndexOf, L2Entries
  <2>5. writes' = 0 => ReadOnce' /\ writer' = NoWrite
    BY <2>2, <2>3 DEF Bounded
  <2>6. QED
    BY <2>1, <2>2, <2>3, <2>4, <2>5 DEF Bounded
<1>2. QED
  BY <1>1, BeginCosts, MergeCosts, GiveUpCosts, YieldCosts, ReadCosts, WriterCosts
    DEF Next, Walk

LEMMA BoundedHolds == Spec => []Bounded
  BY BoundedInitially, BoundedStays, PTL DEF Spec

(* What the comment of `extents()` (reader.rs) budgets, for a disk and an  *)
(* L1 table of any size: one lookup for each cluster and one for each      *)
(* extent after the first, and alone no L2 table is read twice.            *)
THEOREM WalksCostWhatTheyMust == Spec => []WalkCost
<1>1. Bounded => WalkCost
  <2> SUFFICES ASSUME Bounded, Over, ~Failed, Total > 0
               PROVE  /\ lookups = Cardinality(Starts(image)) + Len(yielded) - 1
                      /\ writes = 0 => loads <= Cardinality(DOMAIN image.l1)
    BY DEF WalkCost
  <2>1. Tiled /\ Frontier = Total
    BY DEF Bounded, Over, Frontier
  <2>2. lookups = Cardinality(Starts(image)) + Len(yielded) - 1
    BY <2>1, NoneBefore DEF Bounded, Counted, Over
  <2>3. ASSUME writes = 0 PROVE loads <= Cardinality(DOMAIN image.l1)
    <3>1. CASE cached.index = None
      BY <2>1, <2>3, <3>1, UptoFacts DEF Bounded, ReadOnce
    <3>2. CASE cached.index # None
      <4>1. loads <= Cardinality(Upto(cached.index)) /\ loads \in Nat
        BY <2>3, <3>2 DEF Bounded, ReadOnce
      <4>2. QED
        BY <2>1, <4>1, UptoFacts
    <3>3. QED
      BY <3>1, <3>2
  <2>4. QED
    BY <2>2, <2>3
<1>2. QED
  BY <1>1, BoundedHolds, PTL

(***************************************************************************)
(* Types                                                                   *)
(***************************************************************************)
(* A lookup of any words has one of the four verdicts.                     *)
LEMMA StatusTyped ==
    ASSUME NEW img, NEW virt
    PROVE  StatusAt(img, virt) \in Status \cup {"Error"}
<1> DEFINE found == LookupCluster(img, virt)
<1>1. TableOf(img, virt).case \in {"Table", "Corrupt", "Unallocated"}
  BY DEF TableOf, TableNamed, L2TableOffset, Corrupt, Unallocated
<1>2. \A word, copied, version, size, len :
          ClusterMap(word, copied, version, size, len).case
              \in {"Plain", "Compressed", "Zero", "Corrupt", "Unallocated"}
  BY DEF ClusterMap, Corrupt, Unallocated
<1>3. found.case \in {"Plain", "Compressed", "Zero", "Corrupt", "Unallocated"}
  BY <1>1, <1>2 DEF LookupCluster, EntryIn
<1> HIDE DEF found
<1>4. QED
  BY <1>3 DEF StatusAt, StatusIn, Status, found

SeenTyped == seen \in [Starts(image) -> SUBSET (Status \cup {"Error"})]

LEMMA SeenStays ==
    ASSUME Tiled, SeenTyped, [Next]_vars
    PROVE  SeenTyped'
<1>1. Starts(image)' = Starts(image)
  BY HousedStays, Standing DEF Tiled
<1>2. SeenAfter \/ UNCHANGED seen
  BY WalkKeepsImage
    DEF Next, vars, history, Write, BeginWrite, AddTable, CopyTable, Repoint, KeepTable,
        WriteEntry, ForgetCaches, WriteFails
<1>3. \A virt : StatusAt(image', virt) \in Status \cup {"Error"}
  BY StatusTyped
<1>4. QED
  BY <1>1, <1>2, <1>3 DEF SeenAfter, SeenTyped

(* Every variable keeps its type, for images of any size and contents.     *)
THEOREM WalksAreTyped == Spec => []TypeOK
<1>1. Init => SeenTyped
  BY StatusTyped DEF Init, SeenTyped
<1>2. Bounded /\ SeenTyped /\ [Next]_vars => SeenTyped'
  BY SeenStays DEF Bounded
<1>3. Bounded /\ SeenTyped => TypeOK
  BY DEF Bounded, Tiled, Housed, ImageTyped, SeenTyped, TypeOK
<1>4. QED
  BY <1>1, <1>2, <1>3, BoundedHolds, PTL DEF Spec

(***************************************************************************)
(* Entries                                                                 *)
(***************************************************************************)
(* The facts of the state in which a walk has not begun are no different   *)
(* from those of any other state: the property holds of every image typed. *)
LEMMA FreshReadsBack ==
    ASSUME ImageTyped(image), NEW host \in Sector .. image.len - 1
    PROVE  LET word == L2EntryFor(host)
               map == ClusterMap(word, TRUE, image.version, ClusterSize, image.len)
           IN  /\ ~L2Reserved(image.version, word) /\ ~ZeroFlag(word.body)
               /\ HostOffsetOK(ClusterSize, image.len, host - (host % Sector))
                  => map = [case |-> "Plain", at |-> host - (host % Sector), copied |-> TRUE]
<1> DEFINE body == OffsetField(host)
           word == L2EntryFor(host)
<1>1. Sector \in Nat \ {0} /\ OffsetLimit \in Nat \ {0} /\ Sector > 1
  BY WidthAssumption
<1>2. host \in Nat /\ host < OffsetLimit /\ Sector <= host
  BY <1>1 DEF ImageTyped
<1>3. /\ body \in Nat /\ body = host - (host % Sector) /\ body <= host
      /\ body % Sector = 0
  BY <1>2, OffsetFieldIs
<1>4. host % Sector \in 0 .. Sector - 1
  BY <1>1, <1>2, DivMod
<1>5. body # 0 /\ body < OffsetLimit
  BY <1>1, <1>2, <1>3, <1>4
<1>6. word.body = body /\ word.copied = TRUE /\ word.compressed = FALSE
  BY DEF L2EntryFor
<1> HIDE DEF body, word
<1>7. ~ZeroFlag(body)
  BY <1>3, SectorsAreEven DEF ZeroFlag
<1>8. 0 \div 2 = 0
  BY SmallMod
<1>9. ~L2Reserved(image.version, word)
  BY <1>3, <1>5, <1>6, <1>7, <1>8, <1>1 DEF L2Reserved
<1>10. OffsetField(word.body) = body
  <2>1. OffsetField(body) = body - (body % Sector)
    BY <1>3, <1>5, OffsetFieldIs
  <2>2. QED
    BY <1>3, <1>6, <2>1
<1>11. ASSUME HostOffsetOK(ClusterSize, image.len, body)
       PROVE  ClusterMap(word, TRUE, image.version, ClusterSize, image.len)
                = [case |-> "Plain", at |-> body, copied |-> TRUE]
  BY <1>5, <1>6, <1>7, <1>9, <1>10, <1>11 DEF ClusterMap
<1>12. QED
  BY <1>3, <1>6, <1>7, <1>9, <1>11 DEF word

(* What l2_entry_for makes of any host offset reads back, for every width  *)
(* of the fields and every cluster size (reader.rs).                       *)
THEOREM FreshEntriesReadBack == Spec => []FreshEntryReadsBack
<1>1. Tiled => FreshEntryReadsBack
  BY FreshReadsBack DEF Tiled, Housed, FreshEntryReadsBack
<1>2. QED
  BY <1>1, TiledHolds, PTL

(* A payload anywhere in the image: with F the first of its k sectors, r   *)
(* the bytes before it there, and d the sectors of a cluster, the sectors  *)
(* hold r + length bytes with less than one sector to spare, and k fits    *)
(* the count's field.                                                      *)
LEMMA SectorsOfPayload ==
    ASSUME NEW r \in Nat, NEW length \in Nat \ {0}, NEW d \in Nat \ {0}, r < Sector,
           length <= Sector * d
    PROVE  LET k == (r + length + Sector - 1) \div Sector IN
           /\ k \in Nat \ {0} /\ k <= 2 * d
           /\ r + length <= Sector * k /\ Sector * k < r + length + Sector
<1> DEFINE m == r + length + Sector - 1
           k == m \div Sector
           t == m % Sector
<1>1. Sector \in Nat \ {0} /\ Sector > 1
  BY WidthAssumption
<1>2. m \in Nat /\ m = r + length + Sector - 1
  BY <1>1
<1> HIDE DEF m
<1>3. k \in Nat /\ t \in 0 .. Sector - 1 /\ m = Sector * k + t
  BY <1>1, <1>2, DivMod
<1> HIDE DEF k, t
<1>4. Sector * k \in Nat /\ Sector * d \in Nat
  BY <1>1, <1>3
<1>5. r + length <= Sector * k /\ Sector * k < r + length + Sector
  BY <1>1, <1>2, <1>3, <1>4
<1>6. k # 0
  BY <1>1, <1>3, <1>5
<1>7. ASSUME d + 1 < k PROVE  FALSE
  <2>1. Sector * (d + 1) + Sector <= Sector * k
    BY <1>1, <1>3, <1>7, LessTimes
  <2>2. Sector * (d + 1) = Sector * d + Sector
    BY <1>1
  <2>3. QED
    BY <1>1, <1>4, <1>5, <2>1, <2>2
<1>8. k <= 2 * d
  <2>1. k <= d + 1
    BY <1>3, <1>7
  <2>2. QED
    BY <1>3, <2>1
<1>9. QED
  BY <1>3, <1>5, <1>6, <1>8 DEF k, m

LEMMA PayloadCovered ==
    ASSUME ImageTyped(image), NEW at \in 0 .. image.len - 1, NEW length \in 1 .. ClusterSize,
           at < OffsetSpan(ClusterSize), at + length + Sector - 1 <= image.len
    PROVE  LET body == EncodeCompressed(at, length, ClusterSize)
               word == [copied |-> FALSE, compressed |-> TRUE, body |-> body]
               span == DecodeCompressed(body, ClusterSize).span
           IN  /\ word \in Word
               /\ ClusterMap(word, TRUE, image.version, ClusterSize, image.len)
                    = [case |-> "Compressed", at |-> at, copied |-> FALSE]
               /\ length <= span /\ span < length + Sector
               /\ (at + span) % Sector = 0
<1> DEFINE c == ClusterSize
           d == c \div Sector
           o == BodyLimit \div (2 * d)
           p == at \div Sector
           r == at % Sector
           k == (r + length + Sector - 1) \div Sector
           body == EncodeCompressed(at, length, ClusterSize)
           word == [copied |-> FALSE, compressed |-> TRUE, body |-> body]
           span == DecodeCompressed(body, ClusterSize).span
<1>1. /\ Sector \in Nat \ {0} /\ Sector > 1 /\ BodyLimit \in Nat \ {0}
      /\ c \in Nat \ {0} /\ c >= Sector /\ c % Sector = 0 /\ at \in Nat /\ image.len \in Nat
      /\ length \in Nat \ {0} /\ length <= c
  <2>1. Sector \in Nat \ {0} /\ Sector > 1 /\ BodyLimit \in Nat \ {0}
    BY WidthAssumption
  <2>2. c \in Nat \ {0} /\ c >= Sector /\ c % Sector = 0 /\ image.len \in Nat
    BY DEF ImageTyped, ClusterSize
  <2> HIDE DEF c
  <2>3. length \in Nat \ {0} /\ length <= c /\ at \in Nat
    BY <2>2 DEF c
  <2>4. QED
    BY <2>1, <2>2, <2>3
<1>2. OffsetSpan(ClusterSize) = o
  BY DEF OffsetSpan
<1>3. /\ EncodeCompressed(at, length, ClusterSize)
           = (((at + length - p * Sector + Sector - 1) \div Sector) - 1) * o + at
      /\ \A b : DecodeCompressed(b, ClusterSize)
           = [at |-> b % o,
              span |-> ((b % o) \div Sector) * Sector + ((b \div o) + 1) * Sector - (b % o)]
  BY <1>2 DEF EncodeCompressed, DecodeCompressed
<1> HIDE DEF c
<1>4. d \in Nat /\ c = Sector * d + 0
  BY <1>1, DivMod
<1>5. d # 0
  BY <1>1, <1>4
<1> HIDE DEF d
<1>6. 2 * d \in Nat \ {0}
  BY <1>4, <1>5
<1>7. o \in Nat /\ BodyLimit % (2 * d) \in 0 .. (2 * d) - 1
      /\ BodyLimit = (2 * d) * o + (BodyLimit % (2 * d))
  BY <1>1, <1>6, DivMod
<1>8. at < o
  BY <1>2
<1> HIDE DEF o
<1>9. p \in Nat /\ r \in 0 .. Sector - 1 /\ at = Sector * p + r
  BY <1>1, DivMod
<1>10. p * Sector = Sector * p /\ Sector * p \in Nat
  <2>1. p \in Nat
    BY <1>9
  <2> HIDE DEF p
  <2>2. QED
    BY <1>1, <2>1
<1> HIDE DEF p, r
<1>11. r + length = at + length - p * Sector
  BY <1>1, <1>9, <1>10
<1>12. body = (k - 1) * o + at
  BY <1>3, <1>11
<1>13. /\ k \in Nat \ {0} /\ k <= 2 * d
       /\ r + length <= Sector * k /\ Sector * k < r + length + Sector
  BY <1>1, <1>4, <1>5, <1>9, SectorsOfPayload
<1> HIDE DEF k, body
<1>14. k - 1 \in Nat /\ (k - 1) * o = o * (k - 1) /\ o * (k - 1) \in Nat
  BY <1>7, <1>13
<1>15. body \in Nat /\ body = o * (k - 1) + at
  BY <1>1, <1>12, <1>14
<1>16. body \div o = k - 1 /\ body % o = at
  BY <1>1, <1>7, <1>8, <1>14, <1>15, DivModUnique
<1>17. body < BodyLimit
  <2>1. o * (k - 1) + o <= o * (2 * d)
    BY <1>6, <1>7, <1>13, <1>14, LessTimes
  <2>2. o * (2 * d) = (2 * d) * o /\ (2 * d) * o \in Nat
    BY <1>6, <1>7
  <2>3. QED
    BY <1>1, <1>6, <1>7, <1>8, <1>14, <1>15, <2>1, <2>2
<1>18. DecodeCompressed(body, ClusterSize).at = at
  BY <1>3, <1>16
<1>19. span = p * Sector + ((k - 1) + 1) * Sector - at
  BY <1>3, <1>16 DEF p
<1>20. ((k - 1) + 1) * Sector = Sector * k /\ Sector * k \in Nat
  BY <1>1, <1>13
<1>21. span = Sector * k - r
  BY <1>1, <1>9, <1>10, <1>19, <1>20
<1> HIDE DEF span
<1>22. length <= span /\ span < length + Sector /\ span \in Nat
  BY <1>1, <1>9, <1>13, <1>20, <1>21
<1>23. (at + span) % Sector = 0
  <2>1. p + k \in Nat /\ Sector * (p + k) = Sector * p + Sector * k
    BY <1>1, <1>9, <1>13
  <2>2. at + span = Sector * (p + k)
    BY <1>1, <1>9, <1>10, <1>20, <1>21, <2>1
  <2>3. QED
    BY <1>1, <2>1, <2>2, MultipleMod
<1>24. word \in Word
  <2>1. body \in 0 .. BodyLimit - 1
    BY <1>1, <1>15, <1>17
  <2>2. QED
    BY <2>1 DEF Word
<1>25. SpanInside(image.len, at, span)
  BY <1>1, <1>22 DEF SpanInside
<1>26. ClusterMap(word, TRUE, image.version, ClusterSize, image.len)
         = [case |-> "Compressed", at |-> at, copied |-> FALSE]
  BY <1>18, <1>25 DEF ClusterMap, span
<1>27. QED
  BY <1>22, <1>23, <1>24, <1>26 DEF body, span

(* A payload stored anywhere is found where it was put and read as far as  *)
(* it goes, for every width of the descriptor's fields and every cluster   *)
(* size (reader.rs, decode_compressed_descriptor).                         *)
THEOREM PayloadsAreCovered == Spec => []PayloadIsCovered
<1>1. Tiled => PayloadIsCovered
  BY PayloadCovered DEF Tiled, Housed, PayloadIsCovered
<1>2. QED
  BY <1>1, TiledHolds, PTL
=============================================================================
