--------------------------- MODULE SessionProofs ---------------------------
(***************************************************************************)
(* Session for every set of files, chain of backing files, depth limit,    *)
(* set of commands and set of handles: what an open promises, the          *)
(* ownership rule of the C ABI, and, for every disk, chunk size, range and *)
(* number of processes, what the commands `read` and `write` do: what FILE *)
(* holds, what a pipe gets, what a write changes, whatever fails, is       *)
(* killed or loses power.                                                  *)
(***************************************************************************)
EXTENDS Session, Integers, SequenceTheorems, TLAPS

(***************************************************************************)
(* The header's arithmetic                                                 *)
(***************************************************************************)
(* Rounding up, multiplied back, covers.                                   *)
LEMMA RoundedUpCovers ==
    ASSUME NEW v \in Nat, NEW c \in Nat \ {0}, NEW n \in Nat, (v + c - 1) \div c <= n
    PROVE  v <= n * c
<1> DEFINE q == (v + c - 1) \div c
           r == (v + c - 1) % c
<1>1. v + c - 1 \in Nat
  OBVIOUS
<1>2. q \in Int /\ r \in 0 .. c - 1 /\ v + c - 1 = c * q + r
  BY <1>1
<1>3. v <= q * c
  BY <1>2
<1>4. q * c <= n * c
  BY <1>2
<1>5. QED
  BY <1>2, <1>3, <1>4

LEMMA ReadIsTyped ==
    ASSUME NEW file, file.head \in HeadType
    PROVE  HeadRead(file) \in HeadType
  BY DEF HeadRead, HeadType

LEMMA CoverIsPositive ==
    ASSUME NEW head \in HeadType, Parses(head)
    PROVE  CoveredByL1(head) \in Nat \ {0} /\ ClusterSizeOf(head) \in Nat
<1>1. /\ ClusterSizeOf(head) \in Nat
      /\ ClusterSizeOf(head) >= TableEntryBytes
      /\ TableEntryBytes \in Nat \ {0}
  BY HeaderAssumption DEF Parses, ClusterSizeOf
<1>2. L2EntriesOf(head) \in Nat \ {0}
  <2> DEFINE c == ClusterSizeOf(head)
             e == TableEntryBytes
  <2>1. c \in Nat /\ e \in Nat \ {0} /\ c >= e
    BY <1>1
  <2> HIDE DEF c, e
  <2>2. c \div e \in Nat \ {0}
    <3>1. c \div e \in Int /\ c % e \in 0 .. e - 1 /\ c = e * (c \div e) + (c % e)
      BY <2>1
    <3>2. CASE c \div e <= 0
      <4>1. e * (c \div e) <= 0
        BY <2>1, <3>1, <3>2
      <4>2. QED
        BY <2>1, <3>1, <4>1
    <3>3. QED
      BY <3>1, <3>2
  <2>3. QED
    BY <2>2 DEF c, e, L2EntriesOf
<1>3. QED
  BY <1>1, <1>2 DEF CoveredByL1

(* A header that parses, over a table inside the file, is well formed.     *)
LEMMA GateMeansWellFormed ==
    ASSUME NEW path \in DOMAIN files, FilesTyped(files),
           Parses(HeaderOf(path)), TableInside(path)
    PROVE  WellFormedImage(path)
<1> DEFINE head == HeaderOf(path)
<1>1. head \in HeadType
  BY ReadIsTyped DEF FilesTyped, HeaderOf
<1>2. CoveredByL1(head) \in Nat \ {0} /\ ClusterSizeOf(head) \in Nat
  BY <1>1, CoverIsPositive
<1>3. /\ head.virtual_size \in Nat /\ head.l1_size \in Nat
      /\ head.backing_file_offset \in Nat /\ head.backing_file_size \in Nat
  BY <1>1 DEF HeadType
<1>4. head.virtual_size <= head.l1_size * CoveredByL1(head)
  <2>1. (head.virtual_size + CoveredByL1(head) - 1) \div CoveredByL1(head) <= head.l1_size
    <3>1. head.l1_size >= NeededL1(head)
      BY DEF Parses
    <3>2. NeededL1(head) \in Int
      BY <1>2, <1>3 DEF NeededL1
    <3>3. QED
      BY <1>3, <3>1, <3>2 DEF NeededL1
  <2>2. QED
    BY <1>2, <1>3, <2>1, RoundedUpCovers
<1>5. head.backing_file_offset + head.backing_file_size <= ClusterSizeOf(head)
  BY <1>2, <1>3 DEF Parses, NameInFirstCluster
<1>6. QED
  BY <1>4, <1>5 DEF WellFormedImage, TableInside

(***************************************************************************)
(* Opening                                                                 *)
(***************************************************************************)
ImageType == [path : Path \cup {<<>>}, writable : BOOLEAN]

CallType == [stage : Stages, wanted : {"ro", "rw", "best"}, path : Path \cup {<<>>},
             named : BOOLEAN, depth : 0 .. MaxDepth, held : Seq(ImageType)]

Passed(image) == Gate(image) /\ TableInside(image.path)

InChain == {"header", "l1", "backing", "done"}

(* The chain so far: how long it is, that each image is where its child    *)
(* says and only the leaf writable, and that all but the last passed.      *)
Linked(call) ==
    LET n == Len(call.held) IN
    /\ n >= 1
    /\ n + call.depth = MaxDepth + 1
    /\ \A i \in 1 .. n : call.held[i].path \in DOMAIN files
    /\ \A i \in 2 .. n :
           call.held[i] = Image(Resolved(call.held[i - 1].path,
                                         files[call.held[i - 1].path].name), FALSE)
    /\ \A i \in 1 .. n - 1 : Passed(call.held[i])
    /\ call.held[1].writable => WantsWrite(call)

(* What holds of a call at each of its stages.                             *)
CallSound(call) ==
    LET n == Len(call.held) IN
    /\ call.stage \in {"idle", "open", "failed"} => call.held = <<>>
    /\ call.stage \in InChain => Linked(call)
    /\ call.stage \in {"l1", "backing", "done"} => call.depth > 0 /\ Gate(call.held[n])
    /\ call.stage \in {"backing", "done"} => TableInside(call.held[n].path)
    /\ call.stage = "done" => ~NamesBacking(HeaderOf(call.held[n].path))

Given == FilesTyped(files) /\ JobTyped(job)

(* The inductive invariant of opening.                                     *)
OpenInv ==
    /\ Given
    /\ opening \in [Task -> CallType]
    /\ \A t \in Task : CallSound(opening[t])

LEMMA IdleIsSound == Idle \in CallType /\ CallSound(Idle)
  BY OpenAssumption DEF Idle, CallType, CallSound, Stages, InChain

(* Nothing a sound call depends on changes while the files stand.          *)
LEMMA SoundStays ==
    ASSUME NEW call, CallSound(call), UNCHANGED files
    PROVE  CallSound(call)'
<1>1. \A path : HeaderOf(path)' = HeaderOf(path) /\ TableInside(path)' = TableInside(path)
  BY DEF HeaderOf, TableInside
<1>2. \A image : Gate(image)' = Gate(image) /\ Passed(image)' = Passed(image)
  BY <1>1 DEF Gate, Passed, HeaderOf, TableInside
<1>3. Linked(call) => Linked(call)'
  BY <1>2 DEF Linked, WantsWrite
<1>4. QED
  BY <1>1, <1>2, <1>3 DEF CallSound

(* A step that gives one task a sound call keeps the invariant.            *)
LEMMA BecomesKeeps ==
    ASSUME OpenInv, NEW t \in Task, NEW call \in CallType, CallSound(call), Becomes(t, call),
           UNCHANGED job
    PROVE  OpenInv'
<1>1. UNCHANGED files /\ opening' = [opening EXCEPT ![t] = call]
  BY DEF Becomes
<1>2. Given'
  BY <1>1 DEF OpenInv, Given, FilesTyped, JobTyped
<1>3. opening' \in [Task -> CallType]
  BY <1>1 DEF OpenInv
<1>4. ASSUME NEW u \in Task PROVE CallSound(opening[u])'
  <2>1. CASE u = t
    <3>1. opening'[u] = call
      BY <1>1, <2>1 DEF OpenInv
    <3>2. QED
      BY <1>1, <3>1, SoundStays
  <2>2. CASE u # t
    <3>1. opening'[u] = opening[u]
      BY <1>1, <2>2 DEF OpenInv
    <3>2. CallSound(opening[u])
      BY DEF OpenInv
    <3>3. QED
      BY <1>1, <3>1, <3>2, SoundStays
  <2>3. QED
    BY <2>1, <2>2
<1>5. QED
  BY <1>2, <1>3, <1>4 DEF OpenInv

LEMMA CallFacts ==
    ASSUME OpenInv, NEW t \in Task
    PROVE  opening[t] \in CallType /\ CallSound(opening[t])
  BY DEF OpenInv

(* An error leaves no device held, whether it ends the open or restarts it.*)
LEMMA RefusedIsSound ==
    ASSUME NEW call \in CallType
    PROVE  Refused(call) \in CallType /\ CallSound(Refused(call))
<1>1. <<>> \in Seq(ImageType)
  OBVIOUS
<1>2. CASE call.wanted = "best"
  <2> DEFINE again == [call EXCEPT !.stage = "open", !.wanted = "ro", !.held = <<>>]
  <2>1. again \in CallType /\ again.stage = "open" /\ again.held = <<>>
    BY <1>1 DEF CallType, Stages
  <2>2. CallSound(again)
    BY <2>1 DEF CallSound, InChain
  <2>3. QED
    BY <1>2, <2>1, <2>2 DEF Refused
<1>3. CASE call.wanted # "best"
  <2> DEFINE over == [call EXCEPT !.stage = "failed", !.held = <<>>]
  <2>1. over \in CallType /\ over.stage = "failed" /\ over.held = <<>>
    BY <1>1 DEF CallType, Stages
  <2>2. CallSound(over)
    BY <2>1 DEF CallSound, InChain
  <2>3. QED
    BY <1>3, <2>1, <2>2 DEF Refused
<1>4. QED
  BY <1>2, <1>3

LEMMA RefuseKeeps ==
    ASSUME OpenInv, NEW t \in Task, Refuse(t), UNCHANGED job
    PROVE  OpenInv'
<1>1. Refused(opening[t]) \in CallType /\ CallSound(Refused(opening[t]))
  BY CallFacts, RefusedIsSound
<1>2. QED
  BY <1>1, BecomesKeeps DEF Refuse

(* Entering one more image keeps the links of the chain.                   *)
LEMMA EnterIsSound ==
    ASSUME NEW call \in CallType, NEW path \in DOMAIN files, NEW writable \in BOOLEAN,
           NEW depth \in 0 .. MaxDepth, FilesTyped(files),
           Len(call.held) + depth = MaxDepth,
           \/ call.held = <<>> /\ (writable => WantsWrite(call))
           \/ /\ Linked(call) /\ Passed(Current(call)) /\ path = Parent(call)
              /\ writable = FALSE
    PROVE  Enter(call, path, writable, depth) \in CallType
           /\ CallSound(Enter(call, path, writable, depth))
<1> DEFINE n == Len(call.held)
           image == Image(path, writable)
           held == call.held \o <<image>>
           next == Enter(call, path, writable, depth)
<1>1. call.held \in Seq(ImageType) /\ n \in Nat /\ n = Len(call.held)
      /\ n + depth = MaxDepth
  BY DEF CallType
<1>2. image \in ImageType /\ image.path = path /\ image.writable = writable
  BY DEF Image, ImageType, FilesTyped
<1>3. /\ held \in Seq(ImageType) /\ Len(held) = n + 1 /\ held[n + 1] = image
      /\ \A i \in 1 .. n : held[i] = call.held[i]
  BY <1>1, <1>2
<1>4. /\ next \in CallType /\ next.stage = "header" /\ next.depth = depth
      /\ next.held = held /\ next.wanted = call.wanted
  BY <1>3 DEF Enter, CallType, Stages
<1> HIDE DEF n, image, held, next
<1>5. Linked(next)
  <2>1. CASE call.held = <<>> /\ (writable => WantsWrite(call))
    <3>1. n = 0 /\ held[1] = image
      BY <1>1, <1>3, <2>1
    <3>2. Len(held) + depth = MaxDepth + 1
      BY <1>1, <1>3, OpenAssumption
    <3>3. held[1].writable => WantsWrite(next)
      BY <1>2, <1>4, <2>1, <3>1 DEF WantsWrite
    <3>4. Len(held) = 1
      BY <1>3, <3>1
    <3>5. QED
      BY <1>2, <1>4, <3>1, <3>2, <3>3, <3>4 DEF Linked
  <2>2. CASE /\ Linked(call) /\ Passed(Current(call)) /\ path = Parent(call)
             /\ writable = FALSE
    <3>1. n >= 1 /\ held[1] = call.held[1]
      BY <1>1, <1>3, <2>2 DEF Linked
    <3>2. Len(held) + depth = MaxDepth + 1
      BY <1>1, <1>3, OpenAssumption
    <3>3. ASSUME NEW i \in 1 .. n + 1 PROVE held[i].path \in DOMAIN files
      <4>1. CASE i = n + 1
        BY <1>2, <1>3, <4>1
      <4>2. CASE i # n + 1
        <5>1. i \in 1 .. n
          BY <1>1, <4>2
        <5>2. call.held[i].path \in DOMAIN files
          BY <1>1, <2>2, <5>1 DEF Linked
        <5>3. QED
          BY <1>3, <5>1, <5>2
      <4>3. QED
        BY <4>1, <4>2
    <3>4. ASSUME NEW i \in 2 .. n + 1
          PROVE  held[i] = Image(Resolved(held[i - 1].path, files[held[i - 1].path].name), FALSE)
      <4>1. CASE i = n + 1
        <5>1. held[i - 1] = call.held[n]
          BY <1>1, <1>3, <3>1, <4>1
        <5>2. path = Resolved(call.held[n].path, files[call.held[n].path].name)
          BY <1>1, <2>2 DEF Parent, Current
        <5>3. QED
          BY <1>3, <2>2, <4>1, <5>1, <5>2 DEF image
      <4>2. CASE i # n + 1
        <5>1. /\ i \in 2 .. n /\ i \in 1 .. n /\ i - 1 \in 1 .. n
          BY <1>1, <4>2
        <5>2. held[i] = call.held[i] /\ held[i - 1] = call.held[i - 1]
          BY <1>3, <5>1
        <5>3. call.held[i] = Image(Resolved(call.held[i - 1].path,
                                            files[call.held[i - 1].path].name), FALSE)
          BY <1>1, <2>2, <5>1 DEF Linked
        <5>4. QED
          BY <5>2, <5>3
      <4>3. QED
        BY <4>1, <4>2
    <3>5. ASSUME NEW i \in 1 .. n PROVE Passed(held[i])
      <4>1. held[i] = call.held[i]
        BY <1>3
      <4>2. CASE i = n
        BY <1>1, <2>2, <4>1, <4>2 DEF Current
      <4>3. CASE i # n
        <5>1. i \in 1 .. n - 1
          BY <1>1, <4>3
        <5>2. QED
          BY <1>1, <2>2, <4>1, <5>1 DEF Linked
      <4>4. QED
        BY <4>2, <4>3
    <3>6. held[1].writable => WantsWrite(next)
      BY <1>4, <2>2, <3>1 DEF Linked, WantsWrite
    <3>7. QED
      <4>1. Len(held) >= 1 /\ 1 .. Len(held) - 1 = 1 .. n
        BY <1>1, <1>3
      <4>2. QED
        BY <1>3, <1>4, <3>2, <3>3, <3>4, <3>5, <3>6, <4>1 DEF Linked
  <2>3. QED
    BY <2>1, <2>2
<1>6. CallSound(next)
  BY <1>4, <1>5 DEF CallSound, InChain
<1>7. QED
  BY <1>4, <1>6 DEF next

LEMMA StartKeeps ==
    ASSUME OpenInv, NEW t \in Task, NEW path \in Path, NEW wanted \in {"ro", "rw", "best"},
           StartOpen(t, path, wanted), UNCHANGED job
    PROVE  OpenInv'
<1> DEFINE call == [Idle EXCEPT !.stage = "open", !.wanted = wanted, !.path = path]
<1>1. call \in CallType /\ call.stage = "open" /\ call.held = <<>>
  BY IdleIsSound DEF Idle, CallType, Stages
<1>2. CallSound(call)
  BY <1>1 DEF CallSound, InChain
<1>3. QED
  BY <1>1, <1>2, BecomesKeeps DEF StartOpen

LEMMA OnDeviceKeeps ==
    ASSUME OpenInv, NEW t \in Task, NEW path \in DOMAIN files, NEW can \in BOOLEAN,
           NEW wanted \in {"ro", "rw"}, OpenOnDevice(t, path, can, wanted), UNCHANGED job
    PROVE  OpenInv'
<1> DEFINE failed == [Idle EXCEPT !.stage = "failed"]
           base == [Idle EXCEPT !.wanted = wanted, !.path = path, !.named = FALSE]
           call == Enter(base, path, wanted = "rw", MaxDepth)
<1>1. failed \in CallType /\ CallSound(failed)
  <2>1. failed \in CallType /\ failed.stage = "failed" /\ failed.held = <<>>
    BY IdleIsSound DEF Idle, CallType, Stages
  <2>2. QED
    BY <2>1 DEF CallSound, InChain
<1>2. FilesTyped(files) /\ path \in Path
  BY DEF OpenInv, Given, FilesTyped
<1>3. base \in CallType /\ base.held = <<>> /\ base.wanted = wanted
  BY <1>2, IdleIsSound DEF Idle, CallType
<1>4. wanted = "rw" => WantsWrite(base)
  BY <1>3 DEF WantsWrite
<1>5. Len(base.held) + MaxDepth = MaxDepth /\ MaxDepth \in 0 .. MaxDepth
  BY <1>3, OpenAssumption
<1>6. (wanted = "rw") \in BOOLEAN
  OBVIOUS
<1> HIDE DEF base
<1>7. call \in CallType /\ CallSound(call)
  BY <1>2, <1>3, <1>4, <1>5, <1>6, EnterIsSound
<1>8. base.held \o <<Image(path, wanted = "rw")>> = <<Image(path, wanted = "rw")>>
  BY <1>3 DEF Image
<1>9. call = [base EXCEPT !.stage = "header", !.depth = MaxDepth,
                          !.held = <<Image(path, wanted = "rw")>>]
  BY <1>8 DEF Enter
<1>10. call = [Idle EXCEPT !.stage = "header", !.wanted = wanted, !.path = path,
                           !.named = FALSE, !.depth = MaxDepth,
                           !.held = <<Image(path, wanted = "rw")>>]
  BY <1>9 DEF base, Idle
<1> HIDE DEF call, failed
<1>11. Becomes(t, failed) \/ Becomes(t, call)
  BY <1>10 DEF OpenOnDevice, failed
<1>12. QED
  BY <1>1, <1>7, <1>11, BecomesKeeps

LEMMA LeafKeeps ==
    ASSUME OpenInv, NEW t \in Task, OpenLeaf(t), UNCHANGED job
    PROVE  OpenInv'
<1> DEFINE call == opening[t]
           write == WantsWrite(call)
           next == Enter(call, call.path, write, MaxDepth)
<1>1. CASE Refuse(t)
  BY <1>1, RefuseKeeps
<1>2. CASE Present(call.path, write) /\ Becomes(t, next)
  <2>1. /\ call \in CallType /\ call.held = <<>>
    BY CallFacts DEF OpenLeaf, OpenAt, CallSound
  <2>2. /\ call.path \in DOMAIN files /\ write \in BOOLEAN /\ FilesTyped(files)
        /\ Len(call.held) + MaxDepth = MaxDepth
    BY <1>2, <2>1, OpenAssumption DEF Present, WantsWrite, OpenInv, Given
  <2>3. MaxDepth \in 0 .. MaxDepth /\ (write => WantsWrite(call))
    BY OpenAssumption
  <2> HIDE DEF call, write
  <2>4. Enter(call, call.path, write, MaxDepth) \in CallType
        /\ CallSound(Enter(call, call.path, write, MaxDepth))
    BY <2>1, <2>2, <2>3, EnterIsSound
  <2>5. QED
    BY <1>2, <2>4, BecomesKeeps
<1>3. QED
  BY <1>1, <1>2 DEF OpenLeaf

(* Moving on to a later stage with the same devices.                       *)
LEMMA MovesKeeps ==
    ASSUME OpenInv, NEW t \in Task, NEW stage \in {"l1", "backing", "done"},
           Moves(t, stage), UNCHANGED job,
           opening[t].stage \in InChain, opening[t].depth > 0,
           Gate(Current(opening[t])),
           stage \in {"backing", "done"} => TableInside(Current(opening[t]).path),
           stage = "done" => ~NamesBacking(HeaderOf(Current(opening[t]).path))
    PROVE  OpenInv'
<1> DEFINE call == opening[t]
           next == [call EXCEPT !.stage = stage]
<1>1. call \in CallType /\ Linked(call)
  BY CallFacts DEF CallSound
<1>2. /\ next \in CallType /\ next.stage = stage /\ next.held = call.held
      /\ next.depth = call.depth /\ next.wanted = call.wanted
  BY <1>1 DEF CallType, Stages
<1> HIDE DEF next
<1>3. Linked(next)
  BY <1>1, <1>2 DEF Linked, WantsWrite
<1>4. CallSound(next)
  BY <1>2, <1>3 DEF CallSound, InChain, Current
<1>5. QED
  BY <1>2, <1>4, BecomesKeeps DEF Moves, next

LEMMA HeaderKeeps ==
    ASSUME OpenInv, NEW t \in Task, ReadHeader(t), UNCHANGED job
    PROVE  OpenInv'
  BY RefuseKeeps, MovesKeeps DEF ReadHeader, OpenAt, InChain

LEMMA L1Keeps ==
    ASSUME OpenInv, NEW t \in Task, ReadL1(t), UNCHANGED job
    PROVE  OpenInv'
<1>1. opening[t].depth > 0 /\ Gate(Current(opening[t]))
  BY CallFacts DEF ReadL1, OpenAt, CallSound, Current
<1>2. QED
  BY <1>1, RefuseKeeps, MovesKeeps DEF ReadL1, OpenAt, InChain

LEMMA BackingKeeps ==
    ASSUME OpenInv, NEW t \in Task, FollowBacking(t), UNCHANGED job
    PROVE  OpenInv'
<1> DEFINE call == opening[t]
           here == Current(call).path
           next == Enter(call, Parent(call), FALSE, call.depth - 1)
<1>1. /\ call \in CallType /\ Linked(call) /\ call.depth > 0
      /\ Gate(Current(call)) /\ TableInside(here)
  BY CallFacts DEF FollowBacking, OpenAt, CallSound, Current, InChain
<1>2. CASE Refuse(t)
  BY <1>2, RefuseKeeps
<1>3. CASE ~NamesBacking(HeaderOf(here)) /\ Moves(t, "done")
  BY <1>1, <1>3, MovesKeeps DEF FollowBacking, OpenAt, InChain
<1>4. CASE Present(Parent(call), FALSE) /\ Becomes(t, next)
  <2>1. Parent(call) \in DOMAIN files /\ FilesTyped(files)
    BY <1>4 DEF Present, OpenInv, Given
  <2>2. /\ Len(call.held) \in Nat /\ call.depth \in 0 .. MaxDepth /\ call.depth > 0
        /\ Len(call.held) + call.depth = MaxDepth + 1
    BY <1>1 DEF CallType, Linked
  <2> HIDE DEF call
  <2>3. call.depth - 1 \in 0 .. MaxDepth /\ Len(call.held) + (call.depth - 1) = MaxDepth
    BY <2>2, OpenAssumption
  <2>4. next \in CallType /\ CallSound(next)
    BY <1>1, <2>1, <2>3, EnterIsSound DEF Passed, here
  <2>5. QED
    BY <1>4, <2>4, BecomesKeeps
<1>5. QED
  BY <1>2, <1>3, <1>4 DEF FollowBacking

LEMMA FailsKeeps ==
    ASSUME OpenInv, NEW t \in Task, OpenFails(t), UNCHANGED job
    PROVE  OpenInv'
  BY RefuseKeeps DEF OpenFails

LEMMA OpenStepKeeps ==
    ASSUME OpenInv, NEW t \in Task, OpenStep(t), UNCHANGED job
    PROVE  OpenInv'
  BY LeafKeeps, HeaderKeeps, L1Keeps, BackingKeeps DEF OpenStep

LEMMA CloseKeeps ==
    ASSUME OpenInv, NEW t \in Task, Becomes(t, Idle), UNCHANGED job
    PROVE  OpenInv'
  BY IdleIsSound, BecomesKeeps

(***************************************************************************)
(* Handles                                                                 *)
(***************************************************************************)
NodeType == [boxes : 0 .. 1, refs : 0 .. 1, alive : BOOLEAN, under : Handle \cup {Nowhere}]

HandleTyped ==
    /\ node \in [Handle -> NodeType]
    /\ owned \subseteq Handle
    /\ below \in Handle \cup {Nowhere}
    /\ calling \in BOOLEAN
    /\ ~calling => below = Nowhere

(* Among any live devices one has nothing of them standing on it, so they  *)
(* cannot keep each other open.                                            *)
Grounded ==
    \A S \in SUBSET Handle :
        S # {} /\ (\A h \in S : node[h].alive) =>
            \E h \in S : \A r \in S : node[r].under # h

HandleInv == HandleTyped /\ HandlesCounted /\ Grounded

LEMMA CountFacts ==
    ASSUME HandleInv, NEW h \in Handle
    PROVE  /\ node[h] \in NodeType
           /\ node[h].boxes = One(h \in owned)
           /\ h \in owned => node[h].refs = 1 /\ below # h /\ ~ \E r \in Handle : StandsOn(r, h)
           /\ below = h => node[h].refs = 1 /\ h \notin owned
                           /\ ~ \E r \in Handle : StandsOn(r, h)
           /\ \A r \in Handle : StandsOn(r, h) => node[h].refs = 1 /\ h \notin owned /\ below # h
           /\ node[h].refs = 1 => node[h].alive
           /\ node[h].refs = 0 => h \notin owned /\ below # h
                                  /\ ~ \E r \in Handle : StandsOn(r, h)
  BY DEF HandleInv, HandleTyped, HandlesCounted, One, NodeType

LEMMA Recounted ==
    ASSUME NEW n \in NodeType, NEW boxes \in 0 .. 1, NEW refs \in 0 .. 1
    PROVE  LET m == [n EXCEPT !.boxes = boxes, !.refs = refs] IN
           /\ m \in NodeType /\ m.boxes = boxes /\ m.refs = refs
           /\ m.alive = n.alive /\ m.under = n.under
  BY DEF NodeType

LEMMA LetGo ==
    ASSUME NEW n \in NodeType, n.refs = 1
    PROVE  LET m == [n EXCEPT !.refs = @ - 1] IN
           /\ m \in NodeType /\ m.boxes = n.boxes /\ m.refs = 0
           /\ m.alive = n.alive /\ m.under = n.under
  BY DEF NodeType

LEMMA Emptied ==
    ASSUME NEW n \in NodeType
    PROVE  LET m == [n EXCEPT !.alive = FALSE, !.under = Nowhere] IN
           /\ m \in NodeType /\ m.boxes = n.boxes /\ m.refs = n.refs
           /\ m.alive = FALSE /\ m.under = Nowhere
  BY DEF NodeType

(* A new box around a device that takes over the reference below, if any.  *)
LEMMA BoxedKeeps ==
    ASSUME HandleInv, NEW h \in Handle, Unused(h), node' = Boxed(h, below),
           owned' = owned \cup {h}, below' = Nowhere, calling' = FALSE
    PROVE  HandleInv'
<1>1. ~node[h].alive /\ node[h].refs = 0 /\ h \notin owned /\ below # h
      /\ ~ \E r \in Handle : StandsOn(r, h)
  BY CountFacts DEF Unused, NodeType
<1>2. HandleTyped'
  <2>1. [boxes |-> 1, refs |-> 1, alive |-> TRUE, under |-> below] \in NodeType
    BY DEF HandleInv, HandleTyped, NodeType
  <2>2. node' \in [Handle -> NodeType]
    BY <2>1 DEF HandleInv, HandleTyped, Boxed
  <2>3. QED
    BY <2>2 DEF HandleInv, HandleTyped
<1>3. /\ node'[h] = [boxes |-> 1, refs |-> 1, alive |-> TRUE, under |-> below]
      /\ \A x \in Handle \ {h} : node'[x] = node[x]
  BY DEF HandleInv, HandleTyped, Boxed
<1>4. HandlesCounted'
  <2> SUFFICES ASSUME NEW x \in Handle
               PROVE  /\ node'[x].boxes = One(x \in owned')
                      /\ node'[x].refs = One(x \in owned') + One(below' = x)
                                         + One(\E r \in Handle : StandsOn(r, x)')
                      /\ node'[x].refs > 0 => node'[x].alive
                      /\ \A q, r \in Handle : StandsOn(q, x)' /\ StandsOn(r, x)' => q = r
    BY DEF HandlesCounted, One
  <2>1. CASE x = h
    <3>1. \A r \in Handle : ~StandsOn(r, h)'
      BY <1>1, <1>3, HandleAssumption DEF StandsOn, HandleInv, HandleTyped
    <3>2. QED
      BY <1>3, <2>1, <3>1, HandleAssumption DEF One
  <2>2. CASE x # h
    <3>1. StandsOn(h, x)' <=> below = x
      BY <1>3 DEF StandsOn
    <3>2. \A r \in Handle \ {h} : StandsOn(r, x)' <=> StandsOn(r, x)
      BY <1>3 DEF StandsOn
    <3>3. ~StandsOn(h, x)
      BY <1>1 DEF StandsOn
    <3>4. /\ x \in owned' <=> x \in owned
          /\ below' # x
      BY <2>2, HandleAssumption
    <3>5. node'[x] = node[x]
      BY <1>3, <2>2
    <3>6. CASE below = x
      <4>1. /\ node[x].refs = 1 /\ x \notin owned /\ ~ \E r \in Handle : StandsOn(r, x)
            /\ node[x].alive /\ node[x].boxes = 0
        BY <3>6, CountFacts DEF One
      <4>2. QED
        BY <3>1, <3>2, <3>4, <3>5, <3>6, <4>1 DEF One
    <3>7. CASE below # x
      <4>1. /\ node[x].boxes = One(x \in owned)
            /\ node[x].refs = One(x \in owned) + One(below = x)
                              + One(\E r \in Handle : StandsOn(r, x))
            /\ node[x].refs > 0 => node[x].alive
            /\ \A q, r \in Handle : StandsOn(q, x) /\ StandsOn(r, x) => q = r
        BY DEF HandleInv, HandlesCounted
      <4>2. (\E r \in Handle : StandsOn(r, x)') <=> (\E r \in Handle : StandsOn(r, x))
        BY <3>1, <3>2, <3>3, <3>7
      <4>3. \A q, r \in Handle : StandsOn(q, x)' /\ StandsOn(r, x)' => q = r
        BY <3>1, <3>2, <3>7, <4>1
      <4>4. QED
        BY <3>4, <3>5, <3>7, <4>1, <4>2, <4>3 DEF One
    <3>8. QED
      BY <3>6, <3>7
  <2>3. QED
    BY <2>1, <2>2
<1>5. Grounded'
  <2> SUFFICES ASSUME NEW S \in SUBSET Handle, S # {}, \A x \in S : node'[x].alive
               PROVE  \E x \in S : \A r \in S : node'[r].under # x
    BY DEF Grounded
  <2>1. CASE h \in S
    <3>1. ASSUME NEW r \in S PROVE node'[r].under # h
      <4>1. CASE r = h
        BY <1>1, <1>3, <4>1
      <4>2. CASE r # h
        BY <1>1, <1>3, <4>2 DEF StandsOn
      <4>3. QED
        BY <4>1, <4>2
    <3>2. QED
      BY <2>1, <3>1
  <2>2. CASE h \notin S
    BY <1>3, <2>2 DEF HandleInv, Grounded
  <2>3. QED
    BY <2>1, <2>2
<1>6. QED
  BY <1>2, <1>4, <1>5 DEF HandleInv

(* Who stands on whom is decided by `alive` and `under` alone.             *)
LEMMA StandingStays ==
    ASSUME HandleInv,
           \A h \in Handle : node'[h].alive = node[h].alive /\ node'[h].under = node[h].under
    PROVE  /\ Grounded'
           /\ \A q, r \in Handle : StandsOn(q, r)' <=> StandsOn(q, r)
<1>1. \A q, r \in Handle : StandsOn(q, r)' <=> StandsOn(q, r)
  BY DEF StandsOn
<1>2. Grounded'
  BY DEF HandleInv, Grounded
<1>3. QED
  BY <1>1, <1>2

LEMMA CloseBoxKeeps ==
    ASSUME HandleInv, NEW h \in owned, node' = BoxDropped(node, h), owned' = owned \ {h},
           UNCHANGED <<below, calling>>
    PROVE  HandleInv'
<1>1. /\ h \in Handle /\ node[h] \in NodeType /\ node[h].boxes = 1 /\ node[h].refs = 1
      /\ below # h /\ ~ \E r \in Handle : StandsOn(r, h)
  BY CountFacts DEF HandleInv, HandleTyped, One
<1>2. /\ node' \in [Handle -> NodeType]
      /\ node'[h] = [node[h] EXCEPT !.boxes = 0, !.refs = 0]
      /\ \A x \in Handle \ {h} : node'[x] = node[x]
  <2>1. node'= [node EXCEPT ![h] = [node[h] EXCEPT !.boxes = 0, !.refs = 0]]
    BY <1>1 DEF HandleInv, HandleTyped, BoxDropped, Dropped, NodeType
  <2>2. [node[h] EXCEPT !.boxes = 0, !.refs = 0] \in NodeType
    <3>1. 0 \in 0 .. 1
      OBVIOUS
    <3>2. QED
      BY <1>1, <3>1, Recounted, Zenon
  <2>3. QED
    BY <1>1, <2>1, <2>2 DEF HandleInv, HandleTyped
<1>3. /\ Grounded' /\ \A q, r \in Handle : StandsOn(q, r)' <=> StandsOn(q, r)
  <2>1. \A x \in Handle : node'[x].alive = node[x].alive /\ node'[x].under = node[x].under
    BY <1>1, <1>2 DEF NodeType
  <2>2. QED
    BY <2>1, StandingStays
<1>4. HandlesCounted'
  <2> SUFFICES ASSUME NEW x \in Handle
               PROVE  /\ node'[x].boxes = One(x \in owned')
                      /\ node'[x].refs = One(x \in owned') + One(below' = x)
                                         + One(\E r \in Handle : StandsOn(r, x)')
                      /\ node'[x].refs > 0 => node'[x].alive
                      /\ \A q, r \in Handle : StandsOn(q, x)' /\ StandsOn(r, x)' => q = r
    BY DEF HandlesCounted, One
  <2>1. CASE x = h
    <3>1. node'[x].boxes = 0 /\ node'[x].refs = 0
      BY <1>1, <1>2, <2>1 DEF NodeType
    <3>2. /\ h \notin owned' /\ below' # h /\ ~ \E r \in Handle : StandsOn(r, h)'
      BY <1>1, <1>3
    <3>3. QED
      BY <2>1, <3>1, <3>2 DEF One
  <2>2. CASE x # h
    <3>1. node'[x] = node[x] /\ (x \in owned' <=> x \in owned) /\ below' = below
      BY <1>2, <2>2
    <3>2. QED
      BY <1>3, <3>1 DEF HandleInv, HandlesCounted, One
  <2>3. QED
    BY <2>1, <2>2
<1>5. QED
  BY <1>2, <1>3, <1>4 DEF HandleInv, HandleTyped

(* The box goes, the call keeps the device it stood for.                   *)
LEMMA ReclaimKeeps ==
    ASSUME HandleInv, NEW h \in owned, NEW wanted, node' = Reclaim(h, wanted),
           owned' = owned \ {h}, below = Nowhere, below' = h, calling' = TRUE
    PROVE  HandleInv'
<1>1. /\ h \in Handle /\ node[h] \in NodeType /\ node[h].boxes = 1 /\ node[h].refs = 1
      /\ ~ \E r \in Handle : StandsOn(r, h)
  BY CountFacts DEF HandleInv, HandleTyped, One
<1>2. /\ node' \in [Handle -> NodeType]
      /\ node'[h] = [node[h] EXCEPT !.boxes = 0, !.refs = 1]
      /\ \A x \in Handle \ {h} : node'[x] = node[x]
  <2>1. node' = [node EXCEPT ![h] = [node[h] EXCEPT !.boxes = 0, !.refs = 1]]
    BY <1>1 DEF HandleInv, HandleTyped, Reclaim, BoxDropped, Dropped, NodeType
  <2>2. [node[h] EXCEPT !.boxes = 0, !.refs = 1] \in NodeType
    <3>1. 0 \in 0 .. 1 /\ 1 \in 0 .. 1
      OBVIOUS
    <3>2. QED
      BY <1>1, <3>1, Recounted, Zenon
  <2>3. QED
    BY <1>1, <2>1, <2>2 DEF HandleInv, HandleTyped
<1>3. /\ Grounded' /\ \A q, r \in Handle : StandsOn(q, r)' <=> StandsOn(q, r)
  <2>1. \A x \in Handle : node'[x].alive = node[x].alive /\ node'[x].under = node[x].under
    BY <1>1, <1>2 DEF NodeType
  <2>2. QED
    BY <2>1, StandingStays
<1>4. HandlesCounted'
  <2> SUFFICES ASSUME NEW x \in Handle
               PROVE  /\ node'[x].boxes = One(x \in owned')
                      /\ node'[x].refs = One(x \in owned') + One(below' = x)
                                         + One(\E r \in Handle : StandsOn(r, x)')
                      /\ node'[x].refs > 0 => node'[x].alive
                      /\ \A q, r \in Handle : StandsOn(q, x)' /\ StandsOn(r, x)' => q = r
    BY DEF HandlesCounted, One
  <2>1. CASE x = h
    <3>1. node'[x].boxes = 0 /\ node'[x].refs = 1 /\ node'[x].alive = node[x].alive
      BY <1>1, <1>2, <2>1 DEF NodeType
    <3>2. /\ h \notin owned' /\ below' = h /\ ~ \E r \in Handle : StandsOn(r, h)'
      BY <1>1, <1>3
    <3>3. node[h].alive
      BY <1>1, CountFacts
    <3>4. QED
      BY <2>1, <3>1, <3>2, <3>3 DEF One
  <2>2. CASE x # h
    <3>1. node'[x] = node[x] /\ (x \in owned' <=> x \in owned) /\ below' # x /\ below # x
      BY <1>2, <2>2, HandleAssumption
    <3>2. QED
      BY <1>3, <3>1 DEF HandleInv, HandlesCounted, One
  <2>3. QED
    BY <2>1, <2>2
<1>5. QED
  BY <1>1, <1>2, <1>3, <1>4 DEF HandleInv, HandleTyped

(* A call that fails lets go of the device it had taken.                   *)
LEMMA NullKeeps ==
    ASSUME HandleInv, node' = IF below = Nowhere THEN node ELSE Dropped(node, below),
           below' = Nowhere, calling' = FALSE, UNCHANGED owned
    PROVE  HandleInv'
<1>1. CASE below = Nowhere
  <2>1. UNCHANGED <<node, owned, below>>
    BY <1>1
  <2>2. HandleTyped'
    BY <2>1 DEF HandleInv, HandleTyped
  <2>3. Grounded' /\ \A q, r \in Handle : StandsOn(q, r)' <=> StandsOn(q, r)
    BY <2>1, StandingStays
  <2>4. HandlesCounted'
    BY <2>1, <2>3 DEF HandleInv, HandlesCounted, One
  <2>5. QED
    BY <2>2, <2>3, <2>4 DEF HandleInv
<1>2. CASE below # Nowhere
  <2>1. /\ below \in Handle /\ node[below] \in NodeType /\ node[below].refs = 1
        /\ below \notin owned /\ node[below].boxes = 0
        /\ ~ \E r \in Handle : StandsOn(r, below)
    BY <1>2, CountFacts DEF HandleInv, HandleTyped, One
  <2>2. /\ node' \in [Handle -> NodeType]
        /\ node'[below].boxes = 0 /\ node'[below].refs = 0
        /\ node'[below].alive = node[below].alive /\ node'[below].under = node[below].under
        /\ \A x \in Handle \ {below} : node'[x] = node[x]
    <3> DEFINE m == [node[below] EXCEPT !.refs = @ - 1]
    <3>1. node' = [node EXCEPT ![below] = m]
      BY <1>2, <2>1 DEF Dropped, HandleInv, HandleTyped
    <3>2. /\ m \in NodeType /\ m.boxes = 0 /\ m.refs = 0
          /\ m.alive = node[below].alive /\ m.under = node[below].under
      BY <2>1, LetGo, Zenon
    <3> HIDE DEF m
    <3>3. QED
      BY <2>1, <3>1, <3>2 DEF HandleInv, HandleTyped
  <2>3. /\ Grounded' /\ \A q, r \in Handle : StandsOn(q, r)' <=> StandsOn(q, r)
    <3>1. \A x \in Handle : node'[x].alive = node[x].alive /\ node'[x].under = node[x].under
      BY <2>2
    <3>2. QED
      BY <3>1, StandingStays
  <2>4. HandlesCounted'
    <3> SUFFICES ASSUME NEW x \in Handle
                 PROVE  /\ node'[x].boxes = One(x \in owned')
                        /\ node'[x].refs = One(x \in owned') + One(below' = x)
                                           + One(\E r \in Handle : StandsOn(r, x)')
                        /\ node'[x].refs > 0 => node'[x].alive
                        /\ \A q, r \in Handle : StandsOn(q, x)' /\ StandsOn(r, x)' => q = r
      BY DEF HandlesCounted, One
    <3>1. CASE x = below
      <4>1. node'[x].boxes = 0 /\ node'[x].refs = 0
        BY <2>2, <3>1
      <4>2. /\ x \notin owned' /\ below' # x /\ ~ \E r \in Handle : StandsOn(r, x)'
        BY <2>1, <2>3, <3>1, HandleAssumption
      <4>3. QED
        BY <4>1, <4>2 DEF One
    <3>2. CASE x # below
      <4>1. node'[x] = node[x] /\ (x \in owned' <=> x \in owned) /\ below' # x
        BY <2>2, <3>2, HandleAssumption
      <4>2. QED
        BY <2>3, <3>2, <4>1 DEF HandleInv, HandlesCounted, One
    <3>3. QED
      BY <3>1, <3>2
  <2>5. QED
    BY <2>2, <2>3, <2>4 DEF HandleInv, HandleTyped
<1>3. QED
  BY <1>1, <1>2

(* A device nobody refers to is closed and lets go of the one below it.    *)
LEMMA DestroyKeeps ==
    ASSUME HandleInv, NEW h \in Handle, Destroy(h)
    PROVE  HandleInv'
<1> DEFINE low == node[h].under
           gone == [node EXCEPT ![h].alive = FALSE, ![h].under = Nowhere]
<1>1. /\ node[h] \in NodeType /\ node[h].alive /\ node[h].refs = 0 /\ node[h].boxes = 0
      /\ h \notin owned /\ below # h /\ ~ \E r \in Handle : StandsOn(r, h)
  BY CountFacts DEF Destroy, One
<1>2. low \in Handle \cup {Nowhere} /\ low # h
  BY <1>1 DEF StandsOn, NodeType
<1>3. low \in Handle => /\ StandsOn(h, low) /\ node[low].refs = 1 /\ low \notin owned
                        /\ below # low /\ node[low].boxes = 0
  BY <1>1, CountFacts DEF StandsOn, One
<1>4. UNCHANGED <<owned, below, calling>>
  BY DEF Destroy
<1>5. /\ node' \in [Handle -> NodeType]
      /\ node'[h].boxes = 0 /\ node'[h].refs = 0 /\ ~node'[h].alive
      /\ low \in Handle => /\ node'[low].boxes = 0 /\ node'[low].refs = 0
                           /\ node'[low].alive = node[low].alive
                           /\ node'[low].under = node[low].under
      /\ \A x \in Handle \ {h, low} : node'[x] = node[x]
  <2>1. /\ gone \in [Handle -> NodeType]
        /\ gone[h].boxes = 0 /\ gone[h].refs = 0 /\ ~gone[h].alive
        /\ \A x \in Handle \ {h} : gone[x] = node[x]
    <3> DEFINE m == [node[h] EXCEPT !.alive = FALSE, !.under = Nowhere]
    <3>1. gone = [node EXCEPT ![h] = m]
      BY DEF HandleInv, HandleTyped
    <3>2. m \in NodeType /\ m.boxes = 0 /\ m.refs = 0 /\ m.alive = FALSE
      BY <1>1, Emptied, Zenon
    <3> HIDE DEF m, gone
    <3>3. QED
      BY <3>1, <3>2 DEF HandleInv, HandleTyped
  <2>2. CASE low = Nowhere
    BY <2>1, <2>2, HandleAssumption DEF Destroy
  <2>3. CASE low # Nowhere
    <3> DEFINE m == [node[low] EXCEPT !.refs = @ - 1]
    <3>1. low \in Handle /\ node' = Dropped(gone, low)
      BY <1>2, <2>3 DEF Destroy
    <3>2. gone[low] = node[low] /\ node[low] \in NodeType
      BY <1>2, <2>1, <3>1
    <3>3. node' = [gone EXCEPT ![low] = m]
      BY <2>1, <3>1, <3>2 DEF Dropped
    <3>4. /\ m \in NodeType /\ m.boxes = node[low].boxes /\ m.refs = 0
          /\ m.alive = node[low].alive /\ m.under = node[low].under
      BY <1>3, <3>1, <3>2, LetGo, Zenon
    <3> HIDE DEF gone, m
    <3>5. /\ node' \in [Handle -> NodeType] /\ node'[low] = m
          /\ \A x \in Handle \ {low} : node'[x] = gone[x]
      BY <2>1, <3>1, <3>3, <3>4
    <3>6. QED
      BY <1>2, <1>3, <2>1, <3>1, <3>4, <3>5
  <2>4. QED
    BY <2>2, <2>3
<1>6. \A x \in Handle \ {h} : node'[x].alive = node[x].alive /\ node'[x].under = node[x].under
  <2> SUFFICES ASSUME NEW x \in Handle \ {h}
               PROVE  node'[x].alive = node[x].alive /\ node'[x].under = node[x].under
    OBVIOUS
  <2>2. CASE x = low
    BY <1>5, <2>2
  <2>3. CASE x # low
    BY <1>5, <2>3
  <2>4. QED
    BY <2>2, <2>3
<1>7. \A r, x \in Handle : StandsOn(r, x)' <=> StandsOn(r, x) /\ r # h
  BY <1>5, <1>6 DEF StandsOn
<1>8. Grounded'
  <2> SUFFICES ASSUME NEW S \in SUBSET Handle, S # {}, \A x \in S : node'[x].alive
               PROVE  \E x \in S : \A r \in S : node'[r].under # x
    BY DEF Grounded
  <2>1. h \notin S
    BY <1>5
  <2>2. QED
    BY <1>6, <2>1 DEF HandleInv, Grounded
<1>9. HandlesCounted'
  <2> SUFFICES ASSUME NEW x \in Handle
               PROVE  /\ node'[x].boxes = One(x \in owned')
                      /\ node'[x].refs = One(x \in owned') + One(below' = x)
                                         + One(\E r \in Handle : StandsOn(r, x)')
                      /\ node'[x].refs > 0 => node'[x].alive
                      /\ \A q, r \in Handle : StandsOn(q, x)' /\ StandsOn(r, x)' => q = r
    BY DEF HandlesCounted, One
  <2>1. \A q, r \in Handle : StandsOn(q, x)' /\ StandsOn(r, x)' => q = r
    BY <1>7 DEF HandleInv, HandlesCounted
  <2>2. CASE x = h
    <3>1. ~ \E r \in Handle : StandsOn(r, x)'
      BY <1>1, <1>7, <2>2
    <3>2. QED
      BY <1>1, <1>4, <1>5, <2>1, <2>2, <3>1 DEF One
  <2>3. CASE x = low
    <3>1. node'[x].boxes = 0 /\ node'[x].refs = 0
      BY <1>5, <2>3
    <3>2. ~ \E r \in Handle : StandsOn(r, x)'
      BY <1>3, <1>7, <2>3 DEF HandleInv, HandlesCounted
    <3>3. QED
      BY <1>3, <1>4, <2>1, <2>3, <3>1, <3>2 DEF One
  <2>4. CASE x # h /\ x # low
    <3>1. ~StandsOn(h, x)
      BY <2>4 DEF StandsOn
    <3>2. \A r \in Handle : StandsOn(r, x)' <=> StandsOn(r, x)
      BY <1>7, <3>1
    <3>3. node'[x] = node[x]
      BY <1>5, <2>4
    <3>4. QED
      BY <1>4, <2>1, <3>2, <3>3 DEF HandleInv, HandlesCounted, One
  <2>5. QED
    BY <2>2, <2>3, <2>4
<1>10. QED
  BY <1>4, <1>5, <1>8, <1>9 DEF HandleInv, HandleTyped

(* The last clause of the ownership rule: what nobody owns, no call holds  *)
(* and nothing live stands on would have been destroyed.                   *)
LEMMA NothingLeft ==
    ASSUME HandleInv, Ready, owned = {}
    PROVE  \A h \in Handle : ~node[h].alive
<1> DEFINE S == {h \in Handle : node[h].alive}
<1> SUFFICES ASSUME S # {} PROVE FALSE
  OBVIOUS
<1>1. PICK h \in S : \A r \in S : node[r].under # h
  BY DEF HandleInv, Grounded
<1>2. ~ \E r \in Handle : StandsOn(r, h)
  BY <1>1 DEF StandsOn
<1>3. below # h /\ h \notin owned
  BY HandleAssumption DEF HandleInv, HandleTyped, Ready
<1>4. node[h].refs = 0
  BY <1>2, <1>3 DEF HandleInv, HandlesCounted, One
<1>5. node[h].refs > 0
  BY DEF Ready, Settled
<1>6. QED
  BY <1>4, <1>5

LEMMA NoHandles == HandleInit => HandleInv
<1> SUFFICES ASSUME HandleInit PROVE HandleInv
  OBVIOUS
<1>1. HandleTyped
  <2>1. NoNode \in NodeType
    BY DEF NodeType, NoNode
  <2>2. node \in [Handle -> NodeType]
    BY <2>1 DEF HandleInit
  <2>3. QED
    BY <2>2 DEF HandleInit, HandleTyped
<1>2. HandlesCounted
  BY HandleAssumption DEF HandleInit, HandlesCounted, NoNode, StandsOn, One
<1>3. Grounded
  BY DEF HandleInit, Grounded, NoNode
<1>4. QED
  BY <1>1, <1>2, <1>3 DEF HandleInv

(***************************************************************************)
(* The whole session                                                       *)
(***************************************************************************)
(* A device the caller owns holds a file of the system.                    *)
ShowsTyped ==
    /\ shows \in [Handle -> [writable : BOOLEAN, content : DOMAIN files \cup {<<>>}]]
    /\ \A h \in owned : shows[h].content \in DOMAIN files

SessionInv == OpenInv /\ HandleInv /\ ShowsTyped

LEMMA HandlesStay ==
    ASSUME HandleInv, UNCHANGED handleVars
    PROVE  HandleInv'
<1>1. Grounded' /\ \A q, r \in Handle : StandsOn(q, r)' <=> StandsOn(q, r)
  BY StandingStays DEF handleVars
<1>2. HandlesCounted'
  BY <1>1 DEF HandleInv, HandlesCounted, One, handleVars
<1>3. HandleTyped'
  BY DEF HandleInv, HandleTyped, handleVars
<1>4. QED
  BY <1>1, <1>2, <1>3 DEF HandleInv

LEMMA OpenStays ==
    ASSUME OpenInv, UNCHANGED <<openVars, job>>
    PROVE  OpenInv'
<1>1. UNCHANGED <<files, opening, job>>
  BY DEF openVars
<1>2. \A t \in Task : CallSound(opening[t])'
  <2> SUFFICES ASSUME NEW t \in Task PROVE CallSound(opening[t])'
    OBVIOUS
  <2>1. CallSound(opening[t]) /\ opening'[t] = opening[t]
    BY <1>1 DEF OpenInv
  <2>2. QED
    BY <1>1, <2>1, SoundStays
<1>3. QED
  BY <1>1, <1>2 DEF OpenInv, Given, FilesTyped, JobTyped

(* A command touches its call only to start it or to drop it.              *)
LEMMA CommandOpens ==
    ASSUME NEW t \in Task, CommandStep(t) \/ CommandFails(t) \/ Kill(t)
    PROVE  UNCHANGED openVars \/ Becomes(t, Idle)
<1>1. CASE CommandStep(t)
  BY <1>1 DEF CommandStep, NotOpened, StartRead, Stream, FlushOut, CreatePartial, CopyChunk,
              SetLength, SyncAll, Rename, RenameFails, Cleanup, StartWrite, CopyIn,
              EndOfInput, Flush, Return, Becomes, openVars
<1>2. CASE CommandFails(t)
  BY <1>2 DEF CommandFails, StreamFails, RenameFails, CopyFails, InputFails, CopyInFails,
              Return, Becomes, openVars
<1>3. CASE Kill(t)
  BY <1>3 DEF Kill, Becomes
<1>4. QED
  BY <1>1, <1>2, <1>3

LEMMA FilesStay ==
    ASSUME NEW t \in Task, OpenStep(t) \/ OpenFails(t) \/ CloseImage(t)
    PROVE  UNCHANGED files
  BY DEF OpenStep, OpenLeaf, ReadHeader, ReadL1, FollowBacking, OpenFails, CloseImage,
         Refuse, Moves, Becomes

LEMMA ShowsStay ==
    ASSUME ShowsTyped, UNCHANGED <<files, shows>>, owned' \subseteq owned
    PROVE  ShowsTyped'
  BY DEF ShowsTyped

LEMMA CommandKeeps ==
    ASSUME SessionInv, NEW t \in Task, Command(t) \/ Disturbed(t)
    PROVE  SessionInv'
<1>1. UNCHANGED handleVars /\ UNCHANGED job /\ IsCommand(t)
  BY DEF Command, Disturbed
<1>2. OpenInv' /\ UNCHANGED files
  <2>1. CASE CommandStep(t) \/ CommandFails(t) \/ Kill(t)
    <3>1. CASE UNCHANGED openVars
      BY <1>1, <3>1, OpenStays DEF SessionInv, openVars
    <3>2. CASE Becomes(t, Idle)
      BY <1>1, <3>2, CloseKeeps DEF SessionInv, Becomes
    <3>3. QED
      BY <2>1, <3>1, <3>2, CommandOpens
  <2>2. CASE BeginCommand(t)
    <3>1. job[t].image \in Path
      BY <1>1 DEF SessionInv, OpenInv, Given, JobTyped, IsCommand
    <3>2. PICK wanted \in {"ro", "rw", "best"} : StartOpen(t, job[t].image, wanted)
      BY <2>2 DEF BeginCommand
    <3>3. QED
      BY <1>1, <3>1, <3>2, StartKeeps DEF SessionInv, StartOpen, Becomes
  <2>3. CASE OpenStep(t)
    BY <1>1, <2>3, OpenStepKeeps, FilesStay DEF SessionInv
  <2>4. CASE OpenFails(t)
    BY <1>1, <2>4, FailsKeeps, FilesStay DEF SessionInv
  <2>5. QED
    BY <2>1, <2>2, <2>3, <2>4 DEF Command, Disturbed
<1>3. HandleInv'
  BY <1>1, HandlesStay DEF SessionInv
<1>4. ShowsTyped'
  BY <1>1, <1>2, ShowsStay DEF SessionInv, handleVars
<1>5. QED
  BY <1>2, <1>3, <1>4 DEF SessionInv

LEMMA UserKeeps ==
    ASSUME SessionInv, NEW t \in Task, Opens(t) \/ User(t)
    PROVE  SessionInv'
<1>1. UNCHANGED handleVars /\ UNCHANGED job /\ IsUser(t)
  BY DEF Opens, User
<1>2. OpenInv' /\ UNCHANGED files
  <2>1. CASE OpenStep(t)
    BY <1>1, <2>1, OpenStepKeeps, FilesStay DEF SessionInv
  <2>2. CASE StartOpen(t, job[t].image, job[t].wanted)
    <3>1. job[t].image \in Path /\ job[t].wanted \in {"ro", "rw", "best"}
      BY <1>1 DEF SessionInv, OpenInv, Given, JobTyped, IsUser
    <3>2. QED
      BY <1>1, <2>2, <3>1, StartKeeps DEF SessionInv, StartOpen, Becomes
  <2>3. CASE OpenFails(t)
    BY <1>1, <2>3, FailsKeeps, FilesStay DEF SessionInv
  <2>4. CASE CloseImage(t)
    BY <1>1, <2>4, CloseKeeps, FilesStay DEF SessionInv, CloseImage
  <2>5. QED
    BY <2>1, <2>2, <2>3, <2>4 DEF Opens, User
<1>3. HandleInv'
  BY <1>1, HandlesStay DEF SessionInv
<1>4. ShowsTyped'
  BY <1>1, <1>2, ShowsStay DEF SessionInv, handleVars
<1>5. QED
  BY <1>2, <1>3, <1>4 DEF SessionInv

(* A new handle's device holds a file of the system.                       *)
LEMMA ShowsGrow ==
    ASSUME ShowsTyped, NEW h \in Handle, NEW can \in BOOLEAN, NEW path \in DOMAIN files,
           shows' = [shows EXCEPT ![h] = Shown(can, path)], owned' = owned \cup {h},
           UNCHANGED files
    PROVE  ShowsTyped'
<1>1. Shown(can, path) \in [writable : BOOLEAN, content : DOMAIN files \cup {<<>>}]
      /\ Shown(can, path).content = path
  BY DEF Shown
<1>2. QED
  BY <1>1 DEF ShowsTyped

LEMMA ReturnHandleKeeps ==
    ASSUME SessionInv, NEW h \in Handle, ReturnHandle(h), UNCHANGED job
    PROVE  SessionInv'
<1> DEFINE leaf == opening[Caller].held[1]
<1>1. Caller \in Task
  BY HandleAssumption
<1>2. OpenInv' /\ UNCHANGED files
  BY <1>1, CloseKeeps, FilesStay DEF SessionInv, ReturnHandle, CloseImage
<1>3. HandleInv'
  BY BoxedKeeps DEF SessionInv, ReturnHandle
<1>4. leaf.path \in DOMAIN files /\ leaf.writable \in BOOLEAN
  <2>1. opening[Caller] \in CallType /\ Linked(opening[Caller])
    BY <1>1, CallFacts DEF SessionInv, ReturnHandle, OpenAt, CallSound, InChain
  <2>2. 1 \in 1 .. Len(opening[Caller].held) /\ opening[Caller].held \in Seq(ImageType)
    BY <2>1 DEF Linked, CallType
  <2>3. leaf \in ImageType
    BY <2>2
  <2>4. QED
    BY <2>1, <2>2, <2>3 DEF Linked, ImageType
<1>5. files[leaf.path].inside \in DOMAIN files
  BY <1>4 DEF SessionInv, OpenInv, Given, FilesTyped
<1>6. ShowsTyped'
  BY <1>2, <1>4, <1>5, ShowsGrow DEF SessionInv, ReturnHandle
<1>7. QED
  BY <1>2, <1>3, <1>6 DEF SessionInv

LEMMA CalledKeeps ==
    ASSUME SessionInv, NEW t \in Task, Called(t)
    PROVE  SessionInv'
<1>1. t = Caller /\ UNCHANGED job
  BY DEF Called, IsCaller
<1>2. ASSUME NEW h \in Handle, ReturnHandle(h) PROVE SessionInv'
  BY <1>1, <1>2, ReturnHandleKeeps
<1>3. CASE ReturnNull
  <2>1. OpenInv' /\ UNCHANGED files
    BY <1>1, <1>3, CloseKeeps, FilesStay DEF SessionInv, ReturnNull, CloseImage
  <2>2. HandleInv'
    BY <1>3, NullKeeps DEF SessionInv, ReturnNull
  <2>3. ShowsTyped'
    BY <1>3, <2>1, ShowsStay DEF SessionInv, ReturnNull
  <2>4. QED
    BY <2>1, <2>2, <2>3 DEF SessionInv
<1>4. ASSUME NEW h \in Handle, Destroy(h) PROVE SessionInv'
  <2>1. UNCHANGED <<openVars, shows, owned>>
    BY <1>4 DEF Destroy
  <2>2. OpenInv' /\ HandleInv' /\ ShowsTyped'
    BY <1>1, <1>4, <2>1, OpenStays, DestroyKeeps, ShowsStay DEF SessionInv, openVars
  <2>3. QED
    BY <2>2 DEF SessionInv
<1>5. CASE OpenStep(t) /\ UNCHANGED handleVars
  <2>1. OpenInv' /\ UNCHANGED files
    BY <1>1, <1>5, OpenStepKeeps, FilesStay DEF SessionInv
  <2>2. HandleInv' /\ ShowsTyped'
    BY <1>5, <2>1, HandlesStay, ShowsStay DEF SessionInv, handleVars
  <2>3. QED
    BY <2>1, <2>2 DEF SessionInv
<1>6. QED
  BY <1>2, <1>3, <1>4, <1>5 DEF Called, CallStep

LEMMA CallsKeep ==
    ASSUME SessionInv, NEW t \in Task, Calls(t)
    PROVE  SessionInv'
<1>1. t = Caller /\ UNCHANGED job
  BY DEF Calls, IsCaller
<1>2. ASSUME NEW path \in DOMAIN files, NEW wanted \in {"ro", "rw"}, CallByPath(path, wanted)
      PROVE  SessionInv'
  <2>1. path \in Path
    BY DEF SessionInv, OpenInv, Given, FilesTyped
  <2>2. OpenInv' /\ UNCHANGED files
    BY <1>1, <1>2, <2>1, StartKeeps DEF SessionInv, CallByPath, StartOpen, Becomes
  <2>3. UNCHANGED <<node, shows, owned, below>> /\ calling' = TRUE
    BY <1>2 DEF CallByPath
  <2>4. HandleInv'
    <3>1. Grounded' /\ \A q, r \in Handle : StandsOn(q, r)' <=> StandsOn(q, r)
      BY <2>3, StandingStays DEF SessionInv
    <3>2. HandlesCounted'
      BY <2>3, <3>1 DEF SessionInv, HandleInv, HandlesCounted, One
    <3>3. HandleTyped'
      BY <2>3 DEF SessionInv, HandleInv, HandleTyped
    <3>4. QED
      BY <3>1, <3>2, <3>3 DEF HandleInv
  <2>5. QED
    BY <2>2, <2>3, <2>4, ShowsStay DEF SessionInv
<1>3. ASSUME NEW h \in Handle, Close(h) PROVE SessionInv'
  <2>1. h \in owned /\ UNCHANGED <<openVars, shows, below, calling>> /\ owned' = owned \ {h}
        /\ node' = BoxDropped(node, h)
    BY <1>3 DEF Close
  <2>2. OpenInv' /\ HandleInv' /\ ShowsTyped'
    BY <1>1, <2>1, OpenStays, CloseBoxKeeps, ShowsStay DEF SessionInv, openVars
  <2>3. QED
    BY <2>2 DEF SessionInv
<1>4. ASSUME NEW h \in Handle, NEW wanted \in {"ro", "rw"}, CallOnDevice(h, wanted)
      PROVE  SessionInv'
  <2>1. h \in owned /\ below = Nowhere
    BY <1>4 DEF CallOnDevice, SessionInv, HandleInv, HandleTyped, Ready
  <2>2. shows[h].content \in DOMAIN files /\ shows[h].writable \in BOOLEAN
    BY <2>1 DEF SessionInv, ShowsTyped, HandleInv, HandleTyped
  <2>3. OpenOnDevice(Caller, shows[h].content, shows[h].writable, wanted)
    BY <1>4 DEF CallOnDevice
  <2>4. OpenInv'
    BY <1>1, <2>2, <2>3, OnDeviceKeeps DEF SessionInv
  <2>5. HandleInv'
    BY <1>4, <2>1, ReclaimKeeps DEF SessionInv, CallOnDevice
  <2>6. ShowsTyped'
    BY <1>4, <2>3, ShowsStay DEF SessionInv, CallOnDevice, OpenOnDevice, Becomes
  <2>7. QED
    BY <2>4, <2>5, <2>6 DEF SessionInv
<1>5. ASSUME NEW h \in Handle, NEW path \in DOMAIN files, NEW writable \in BOOLEAN,
             FileOpen(h, path, writable)
      PROVE  SessionInv'
  <2>1. ~calling /\ below = Nowhere
    BY <1>5 DEF FileOpen, Ready, SessionInv, HandleInv, HandleTyped
  <2>2. /\ Unused(h) /\ node' = Boxed(h, below) /\ owned' = owned \cup {h}
        /\ below' = Nowhere /\ calling' = FALSE
    BY <1>5, <2>1, Zenon DEF FileOpen, SessionInv, HandleInv, HandleTyped
  <2>3. HandleInv'
    BY <2>2, BoxedKeeps DEF SessionInv
  <2>4. UNCHANGED openVars
    BY <1>5 DEF FileOpen
  <2>5. OpenInv' /\ UNCHANGED files
    BY <1>1, <2>4, OpenStays DEF SessionInv, openVars
  <2>6. ShowsTyped'
    BY <1>5, <2>5, ShowsGrow DEF FileOpen, SessionInv
  <2>7. QED
    BY <2>3, <2>5, <2>6 DEF SessionInv
<1>6. CASE OpenFails(t) /\ UNCHANGED handleVars
  <2>1. OpenInv' /\ UNCHANGED files
    BY <1>1, <1>6, FailsKeeps, FilesStay DEF SessionInv
  <2>2. HandleInv' /\ ShowsTyped'
    BY <1>6, <2>1, HandlesStay, ShowsStay DEF SessionInv, handleVars
  <2>3. QED
    BY <2>1, <2>2 DEF SessionInv
<1>7. QED
  BY <1>2, <1>3, <1>4, <1>5, <1>6 DEF Calls, CallsIn

LEMMA OutsideKeeps ==
    ASSUME SessionInv, Outside
    PROVE  SessionInv'
<1>1. CASE InputChanges /\ UNCHANGED handleVars
  <2>1. UNCHANGED <<openVars, handleVars, job>>
    BY <1>1 DEF InputChanges, Outside
  <2>2. OpenInv' /\ HandleInv' /\ ShowsTyped'
    BY <2>1, OpenStays, HandlesStay, ShowsStay DEF SessionInv, openVars, handleVars
  <2>3. QED
    BY <2>2 DEF SessionInv
<1>2. CASE PowerLoss /\ HandlesLost
  <2>1. /\ opening' = [t \in Task |-> Idle] /\ UNCHANGED <<files, job>>
    BY <1>2 DEF PowerLoss, Outside
  <2>2. OpenInv'
    <3>1. Given'
      BY <2>1 DEF SessionInv, OpenInv, Given, FilesTyped, JobTyped
    <3>2. opening' \in [Task -> CallType]
      BY <2>1, IdleIsSound
    <3>3. ASSUME NEW t \in Task PROVE CallSound(opening[t])'
      <4>1. opening'[t] = Idle /\ CallSound(Idle)
        BY <2>1, IdleIsSound
      <4>2. CallSound(Idle)'
        BY <2>1, <4>1, SoundStays
      <4>3. Idle' = Idle
        BY DEF Idle
      <4>4. QED
        BY <2>1, <4>1, <4>2, SoundStays
    <3>4. QED
      BY <3>1, <3>2, <3>3 DEF OpenInv
  <2>3. HandleInv'
    <3>1. HandleInit'
      BY <1>2 DEF HandlesLost, HandleInit
    <3>2. QED
      BY <3>1, NoHandles, PTL
  <2>4. ShowsTyped'
    BY <1>2, <2>1 DEF HandlesLost, ShowsTyped, Shown
  <2>5. QED
    BY <2>2, <2>3, <2>4 DEF SessionInv
<1>3. QED
  BY <1>1, <1>2 DEF Outside

LEMMA SessionInvHolds == Spec => []SessionInv
<1>1. Init => SessionInv
  <2> SUFFICES ASSUME Init PROVE SessionInv
    OBVIOUS
  <2>1. Given
    BY ScenariosAssumption DEF Init, Given
  <2>2. \A t \in Task : opening[t] = Idle
    BY DEF Init, OpenInit
  <2>3. OpenInv
    BY <2>1, <2>2, IdleIsSound DEF OpenInv, Init, OpenInit
  <2>4. HandleInit
    BY DEF Init
  <2>5. ShowsTyped
    BY <2>4 DEF HandleInit, ShowsTyped, Shown
  <2>6. QED
    BY <2>3, <2>4, <2>5, NoHandles DEF SessionInv
<1>2. SessionInv /\ [Next]_vars => SessionInv'
  <2> SUFFICES ASSUME SessionInv, [Next]_vars PROVE SessionInv'
    OBVIOUS
  <2>1. ASSUME NEW t \in Task, Advance(t) \/ Disturbed(t) \/ User(t) \/ Calls(t)
        PROVE  SessionInv'
    BY <2>1, CommandKeeps, UserKeeps, CalledKeeps, CallsKeep DEF Advance
  <2>2. CASE Outside
    BY <2>2, OutsideKeeps
  <2>3. CASE UNCHANGED vars
    <3>1. UNCHANGED <<openVars, handleVars, job>>
      BY <2>3 DEF vars
    <3>2. OpenInv' /\ HandleInv' /\ ShowsTyped'
      BY <3>1, OpenStays, HandlesStay, ShowsStay DEF SessionInv, openVars, handleVars
    <3>3. QED
      BY <3>2 DEF SessionInv
  <2>4. QED
    BY <2>1, <2>2, <2>3 DEF Next
<1>3. QED
  BY <1>1, <1>2, PTL DEF Spec

(* An open that returned a reader (open_inner) has a sound chain below it, *)
(* for every arrangement of files, every depth limit, and every failure.   *)
THEOREM OpenedChainsAreSound == Spec => []ChainIsSound
<1>1. SessionInv => ChainIsSound
  <2> SUFFICES ASSUME SessionInv, NEW t \in Task, OpenAt(t, "done")
               PROVE  LET held == opening[t].held IN
                      /\ Len(held) \in 1 .. MaxDepth
                      /\ ~NamesBacking(HeaderOf(held[Len(held)].path))
                      /\ \A i \in 1 .. Len(held) : WellFormedImage(held[i].path)
                      /\ \A i \in 2 .. Len(held) :
                             held[i] = Image(Resolved(held[i - 1].path,
                                                      files[held[i - 1].path].name), FALSE)
                      /\ held[1].writable =>
                             WantsWrite(opening[t]) /\ CheckWritable(HeaderOf(held[1].path))
    BY DEF ChainIsSound
  <2> DEFINE call == opening[t]
             held == call.held
             n == Len(held)
  <2>1. call \in CallType /\ CallSound(call) /\ call.stage = "done"
    BY CallFacts DEF SessionInv, OpenAt
  <2>2. /\ Linked(call) /\ call.depth > 0 /\ Passed(held[n])
        /\ ~NamesBacking(HeaderOf(held[n].path))
    BY <2>1 DEF CallSound, InChain, Passed
  <2>3. n \in 1 .. MaxDepth
    <3>1. n \in Nat /\ call.depth \in 0 .. MaxDepth
      BY <2>1 DEF CallType
    <3>2. n >= 1 /\ n + call.depth = MaxDepth + 1
      BY <2>2 DEF Linked
    <3> HIDE DEF n, call
    <3>3. QED
      BY <2>2, <3>1, <3>2, OpenAssumption
  <2>4. \A i \in 1 .. n : Passed(held[i]) /\ held[i].path \in DOMAIN files
    <3>1. \A i \in 1 .. n : i = n \/ i \in 1 .. n - 1
      BY <2>3
    <3>2. QED
      BY <2>2, <3>1 DEF Linked
  <2>5. \A i \in 1 .. n : WellFormedImage(held[i].path)
    BY <2>4, GateMeansWellFormed DEF Passed, Gate, SessionInv, OpenInv, Given
  <2>6. held[1].writable => WantsWrite(call) /\ CheckWritable(HeaderOf(held[1].path))
    <3>1. held[1].writable => WantsWrite(call)
      BY <2>2 DEF Linked
    <3>2. Passed(held[1])
      BY <2>3, <2>4
    <3>3. QED
      BY <3>1, <3>2 DEF Passed, Gate
  <2>7. QED
    BY <2>2, <2>3, <2>5, <2>6 DEF Linked
<1>2. QED
  BY <1>1, SessionInvHolds, PTL

(* The ownership rule of the C ABI (qcow2_open_path, qcow2_open_on_device),*)
(* for every number of handles and any depth of one standing on another.   *)
THEOREM HandlesAreBalanced == Spec => []HandlesBalance
<1>1. SessionInv => HandlesBalance
  BY NothingLeft DEF SessionInv, HandleInv, HandlesBalance
<1>2. QED
  BY <1>1, SessionInvHolds, PTL

(***************************************************************************)
(* Bytes                                                                   *)
(***************************************************************************)
LEMMA LeastOfSome ==
    ASSUME NEW S \in SUBSET Int, NEW n \in S, \A m \in S : n <= m
    PROVE  Least(S) = n
<1> DEFINE IsLeast(k) == \A m \in S : k <= m
<1>1. n \in S /\ IsLeast(n)
  OBVIOUS
<1>2. Least(S) = CHOOSE k \in S : IsLeast(k)
  BY DEF Least
<1> HIDE DEF IsLeast
<1>3. Least(S) \in S /\ IsLeast(Least(S))
  BY <1>1, <1>2
<1>4. \A m \in S : Least(S) <= m
  BY <1>3 DEF IsLeast
<1>5. Least(S) \in Int /\ n \in Int /\ Least(S) <= n /\ n <= Least(S)
  BY <1>3, <1>4
<1>6. QED
  BY <1>5

LEMMA LeastOfTwo ==
    ASSUME NEW a \in Int, NEW b \in Int
    PROVE  Least({a, b}) = IF a <= b THEN a ELSE b
<1>1. CASE a <= b
  <2>1. Least({a, b}) = a
    BY <1>1, LeastOfSome
  <2>2. QED
    BY <1>1, <2>1
<1>2. CASE ~(a <= b)
  <2>1. Least({a, b}) = b
    BY <1>2, LeastOfSome
  <2>2. QED
    BY <1>2, <2>1
<1>3. QED
  BY <1>1, <1>2

LEMMA LeastOfThree ==
    ASSUME NEW a \in Int, NEW b \in Int, NEW c \in Int
    PROVE  LET least == Least({a, b, c}) IN
           least \in {a, b, c} /\ least <= a /\ least <= b /\ least <= c
<1>1. \E n \in {a, b, c} : n <= a /\ n <= b /\ n <= c
  OBVIOUS
<1>2. PICK n \in {a, b, c} : n <= a /\ n <= b /\ n <= c
  BY <1>1
<1>3. Least({a, b, c}) = n
  BY <1>2, LeastOfSome
<1>4. QED
  BY <1>2, <1>3

(* A part of a sequence of bytes.                                          *)
LEMMA PartOf ==
    ASSUME NEW s \in Seq(Nat), NEW m \in Nat \ {0}, NEW n \in Int, n <= Len(s)
    PROVE  /\ SubSeq(s, m, n) \in Seq(Nat)
           /\ Len(SubSeq(s, m, n)) = IF m <= n THEN n - m + 1 ELSE 0
           /\ \A i \in 1 .. n - m + 1 : SubSeq(s, m, n)[i] = s[m + i - 1]
<1>1. m \in Int /\ \A i \in m .. n : s[i] \in Nat
  BY ElementOfSeq
<1>2. QED
  BY <1>1, SubSeqProperties

(* The bytes between two positions.                                        *)
LEMMA Between ==
    ASSUME NEW s \in Seq(Nat), NEW a \in Nat, NEW b \in Nat, a <= b, b <= Len(s)
    PROVE  /\ SubSeq(s, a + 1, b) \in Seq(Nat)
           /\ Len(SubSeq(s, a + 1, b)) = b - a
           /\ \A i \in 1 .. b - a : SubSeq(s, a + 1, b)[i] = s[a + i]
<1> DEFINE m == a + 1
<1>1. m \in Nat \ {0} /\ b \in Int /\ b - m + 1 = b - a
  OBVIOUS
<1>2. \A i \in 1 .. b - a : m + i - 1 = a + i
  OBVIOUS
<1> HIDE DEF m
<1>3. /\ SubSeq(s, m, b) \in Seq(Nat)
      /\ Len(SubSeq(s, m, b)) = IF m <= b THEN b - m + 1 ELSE 0
      /\ \A i \in 1 .. b - m + 1 : SubSeq(s, m, b)[i] = s[m + i - 1]
  BY <1>1, PartOf
<1>4. \A i \in 1 .. b - a : SubSeq(s, m, b)[i] = s[a + i]
  BY <1>1, <1>2, <1>3
<1>5. Len(SubSeq(s, m, b)) = b - a
  BY <1>1, <1>3 DEF m
<1>6. QED
  BY <1>3, <1>4, <1>5 DEF m

LEMMA PlacedBytes ==
    ASSUME NEW data \in Seq(Nat), NEW pos \in Nat, NEW bytes \in Seq(Nat)
    PROVE  LET placed == Placed(data, pos, bytes)
               reach == pos + Len(bytes)
               n == IF bytes = <<>> \/ Len(data) > reach THEN Len(data) ELSE reach
           IN  /\ placed \in Seq(Nat)
               /\ Len(placed) = n
               /\ \A i \in 1 .. n :
                      placed[i] = IF i \in pos + 1 .. reach THEN bytes[i - pos]
                                  ELSE IF i <= Len(data) THEN data[i] ELSE 0
<1> DEFINE reach == pos + Len(bytes)
           n == IF Len(data) > reach THEN Len(data) ELSE reach
           byte(i) == IF i \in pos + 1 .. reach THEN bytes[i - pos]
                      ELSE IF i <= Len(data) THEN data[i] ELSE 0
<1>1. n \in Nat
  OBVIOUS
<1>2. CASE bytes = <<>>
  <2>1. Placed(data, pos, bytes) = data /\ Len(bytes) = 0
    BY <1>2 DEF Placed
  <2>2. QED
    BY <1>2, <2>1
<1>3. CASE bytes # <<>>
  <2>1. ASSUME NEW i \in 1 .. n PROVE byte(i) \in Nat
    <3>1. CASE i \in pos + 1 .. reach
      <4>1. i - pos \in 1 .. Len(bytes)
        BY <3>1
      <4>2. QED
        BY <3>1, <4>1, ElementOfSeq
    <3>2. CASE i \notin pos + 1 .. reach /\ i <= Len(data)
      <4>1. i \in 1 .. Len(data)
        BY <3>2
      <4>2. QED
        BY <3>2, <4>1, ElementOfSeq
    <3>3. QED
      BY <3>1, <3>2
  <2>2. Placed(data, pos, bytes) = [i \in 1 .. n |-> byte(i)]
    BY <1>3 DEF Placed
  <2> HIDE DEF n, byte
  <2>3. Placed(data, pos, bytes) \in Seq(Nat)
    BY <1>1, <2>1, <2>2, IsASeq
  <2>4. Len(Placed(data, pos, bytes)) = n
    BY <1>1, <2>2
  <2>5. QED
    BY <1>3, <2>2, <2>3, <2>4 DEF n, byte
<1>4. QED
  BY <1>2, <1>3

LEMMA ResizedBytes ==
    ASSUME NEW data \in Seq(Nat), NEW n \in Nat
    PROVE  /\ Resized(data, n) \in Seq(Nat) /\ Len(Resized(data, n)) = n
           /\ \A i \in 1 .. n :
                  Resized(data, n)[i] = IF i <= Len(data) THEN data[i] ELSE 0
<1> DEFINE byte(i) == IF i <= Len(data) THEN data[i] ELSE 0
<1>1. ASSUME NEW i \in 1 .. n PROVE byte(i) \in Nat
  <2>1. i <= Len(data) => i \in 1 .. Len(data)
    OBVIOUS
  <2>2. QED
    BY <2>1, ElementOfSeq
<1>2. Resized(data, n) = [i \in 1 .. n |-> byte(i)]
  BY DEF Resized
<1> HIDE DEF byte
<1>3. Resized(data, n) \in Seq(Nat)
  BY <1>1, <1>2, IsASeq
<1>4. QED
  BY <1>2, <1>3 DEF byte

LEMMA PrefixesAreParts ==
    ASSUME NEW bytes \in Seq(Nat), NEW part \in Prefixes(bytes)
    PROVE  /\ part \in Seq(Nat) /\ Len(part) <= Len(bytes)
           /\ \A i \in 1 .. Len(part) : part[i] = bytes[i]
<1>1. PICK k \in 0 .. Len(bytes) : part = SubSeq(bytes, 1, k)
  BY DEF Prefixes
<1>2. QED
  BY <1>1, PartOf

(***************************************************************************)
(* Types, and what each stage of a command may rely on                     *)
(***************************************************************************)
CliStages == {"start", "opening", "stream", "copyIn", "flush", "returned", "dead"} \cup OnPartial
Outcomes == {"none", "refused", "ok", "closed", "failed", "kept"}

RunType == [stage : CliStages, at : Nat, end : Nat, took : Seq(Nat), sent : Nat,
            file : Task \cup {None}, result : Outcomes]

Working == OnPartial \ {"create"}

(* The positions lie within the range that was checked, the range within   *)
(* the disk, and the bytes moved are as many as the positions say.         *)
RunSound(p, r) ==
    /\ r.at <= r.end /\ r.sent <= Len(r.took)
    /\ r.result # "none" => r.stage \in {"returned", "dead"}
    /\ r.stage \in {"start", "opening"} => r = [IdleRun EXCEPT !.stage = r.stage]
    /\ r.stage = "opening" => IsCommand(p)
    /\ r.stage \in {"stream"} \cup OnPartial =>
           /\ ReadsTo(p, IF r.stage = "stream" THEN "stdout" ELSE "file")
           /\ InRange(p) /\ From(p) \in Nat /\ Length(p) \in Nat
           /\ From(p) <= r.at /\ r.end = From(p) + Length(p) /\ r.end <= Len(Guest)
    /\ r.stage = "stream" => Len(r.took) = r.at - From(p)
    /\ r.stage = "create" => r.at = From(p)
    /\ r.stage \in {"copy", "sync", "rename"} => r.file \in Task
    /\ r.stage \in {"sync", "rename"} => r.at = r.end
    /\ r.stage \in {"copyIn", "flush"} =>
           /\ job[p].verb = "write"
           /\ job[p].offset <= r.at /\ r.end <= Len(Guest)
           /\ Len(r.took) = IF job[p].from = "pipe" THEN r.end - job[p].offset
                            ELSE r.at - job[p].offset
    /\ r.stage = "flush" => Len(r.took) = r.at - job[p].offset

InodeType == [data : Seq(Nat), durable : Seq(Nat)]
NameType == [dest : Task \cup {Old}, partial : Task \cup {None},
             before : SUBSET (Task \cup {Old})]

StoresTyped ==
    /\ inode \in [Task \cup {Old} -> InodeType]
    /\ name \in NameType
    /\ guest \in Seq(Nat) /\ Len(guest) = Len(Guest)
    /\ input \in Seq(Nat)
    /\ {flushed, overlapped} \subseteq BOOLEAN

CliTyped ==
    /\ run \in [Task -> RunType]
    /\ \A p \in Task : RunSound(p, run[p])
    /\ StoresTyped

(* The image a command opens is the one it names, and as long as the guest.*)
LeafNamed ==
    \A t \in Task :
        /\ opening[t].held # <<>> => opening[t].held[1].path = opening[t].path
        /\ At(t, "opening") => opening[t].path = job[t].image

DiskSized ==
    \A t \in Task :
        IsCommand(t) /\ job[t].image \in DOMAIN files => VirtualSize(t) = Len(Guest)

CliInv == CliTyped /\ LeafNamed /\ DiskSized

LEMMA RunFacts ==
    ASSUME CliTyped, NEW p \in Task
    PROVE  run[p] \in RunType /\ RunSound(p, run[p])
  BY DEF CliTyped

LEMMA RunSoundStays ==
    ASSUME NEW p \in Task, NEW r, RunSound(p, r), UNCHANGED <<files, job>>
    PROVE  RunSound(p, r)'
<1>1. /\ From(p)' = From(p) /\ Length(p)' = Length(p) /\ InRange(p)' = InRange(p)
      /\ \A to : ReadsTo(p, to)' = ReadsTo(p, to)
      /\ IsCommand(p)' = IsCommand(p)
  BY DEF From, Length, InRange, ReadsTo, VirtualSize, HeaderOf, IsCommand
<1>2. QED
  BY <1>1 DEF RunSound

(* A step of one command that leaves it sound keeps the rest.              *)
LEMMA RunBecomes ==
    ASSUME CliTyped, NEW p \in Task, NEW r \in RunType, RunSound(p, r),
           run' = [run EXCEPT ![p] = r], UNCHANGED <<files, job>>, StoresTyped'
    PROVE  CliTyped'
<1>1. run' \in [Task -> RunType]
  BY DEF CliTyped
<1>2. ASSUME NEW q \in Task PROVE RunSound(q, run[q])'
  <2>1. RunSound(q, run'[q])
    BY DEF CliTyped
  <2>2. QED
    BY <2>1, RunSoundStays
<1>3. QED
  BY <1>1, <1>2 DEF CliTyped

LEMMA StoresStay ==
    ASSUME StoresTyped, UNCHANGED <<inode, name, overlapped, guest, flushed, input>>
    PROVE  StoresTyped'
  BY DEF StoresTyped

(* A command that returns or is killed, wherever it was.                   *)
LEMMA EndedIsSound ==
    ASSUME CliTyped, NEW p \in Task, NEW stage \in {"returned", "dead"}, NEW result \in Outcomes
    PROVE  LET r == [run[p] EXCEPT !.stage = stage, !.result = result]
           IN  r \in RunType /\ RunSound(p, r)
<1> DEFINE r == [run[p] EXCEPT !.stage = stage, !.result = result]
<1>1. run[p] \in RunType /\ RunSound(p, run[p])
  BY RunFacts
<1>2. /\ r \in RunType /\ r.stage = stage /\ r.at = run[p].at /\ r.end = run[p].end
      /\ r.took = run[p].took /\ r.sent = run[p].sent
  BY <1>1 DEF RunType, CliStages
<1> HIDE DEF r
<1>3. RunSound(p, r)
  BY <1>1, <1>2 DEF RunSound, OnPartial
<1>4. QED
  BY <1>2, <1>3 DEF r

LEMMA ReturnTyped ==
    ASSUME CliTyped, NEW p \in Task, NEW result \in Outcomes, Return(p, result),
           UNCHANGED job, StoresTyped'
    PROVE  CliTyped'
<1> DEFINE r == [run[p] EXCEPT !.stage = "returned", !.result = result]
<1>1. run' = [run EXCEPT ![p] = r] /\ UNCHANGED <<files, job>>
  BY DEF Return
<1>2. r \in RunType /\ RunSound(p, r)
  BY EndedIsSound
<1> HIDE DEF r
<1>3. QED
  BY <1>1, <1>2, RunBecomes

LEMMA RangeFacts ==
    ASSUME Given, NEW p \in Task, job[p].verb = "read", VirtualSize(p) = Len(Guest), InRange(p)
    PROVE  From(p) \in Nat /\ Length(p) \in Nat /\ From(p) + Length(p) <= Len(Guest)
<1>1. Len(Guest) \in Nat
  BY TransferAssumption
<1>2. {job[p].offset, job[p].length} \subseteq Nat \cup {None}
  BY DEF Given, JobTyped
<1>3. From(p) \in Nat /\ From(p) <= Len(Guest)
  BY <1>2 DEF From, InRange
<1>4. Length(p) \in Nat
  BY <1>1, <1>2, <1>3 DEF Length
<1>5. QED
  BY <1>3, <1>4 DEF InRange

(* An image that opened is there, so it is as long as the guest.           *)
LEMMA OpenedIsSized ==
    ASSUME OpenInv, CliInv, NEW p \in Task, At(p, "opening"), OpenAt(p, "done")
    PROVE  VirtualSize(p) = Len(Guest)
<1>1. Linked(opening[p]) /\ opening[p] \in CallType
  BY CallFacts DEF OpenAt, CallSound, InChain
<1>2. Len(opening[p].held) \in Nat /\ Len(opening[p].held) >= 1
      /\ opening[p].held[1].path \in DOMAIN files
  BY <1>1 DEF Linked, CallType
<1>3. opening[p].held # <<>>
  BY <1>2
<1>4. opening[p].held[1].path = job[p].image
  BY <1>3 DEF CliInv, LeafNamed
<1>5. IsCommand(p)
  BY RunFacts DEF CliInv, RunSound, At
<1>6. QED
  BY <1>2, <1>4, <1>5 DEF CliInv, DiskSized

LEMMA ChunkFacts ==
    ASSUME CliTyped, NEW p \in Task, More(p), run[p].end <= Len(Guest)
    PROVE  /\ ReadChunk(p) \in Seq(Nat) /\ Len(ReadChunk(p)) \in Nat \ {0}
           /\ run[p].at + Len(ReadChunk(p)) <= run[p].end
           /\ \A i \in 1 .. Len(ReadChunk(p)) : ReadChunk(p)[i] = guest[run[p].at + i]
<1> DEFINE at == run[p].at
           end == run[p].end
           last == Least({at + Chunk, end})
<1>1. at \in Nat /\ end \in Nat
  BY RunFacts DEF RunType
<1>2. Chunk \in Nat \ {0} /\ guest \in Seq(Nat) /\ Len(guest) = Len(Guest)
  BY TransferAssumption DEF CliTyped, StoresTyped
<1>3. at < end /\ end <= Len(guest)
  BY <1>2 DEF More
<1>4. ReadChunk(p) = SubSeq(guest, at + 1, last)
  BY DEF ReadChunk
<1> HIDE DEF at, end
<1>5. last = IF at + Chunk <= end THEN at + Chunk ELSE end
  <2>1. at + Chunk \in Int /\ end \in Int
    BY <1>1, <1>2
  <2>2. QED
    BY <2>1, LeastOfTwo
<1> HIDE DEF last
<1>6. last \in Nat /\ at < last /\ last <= end
  BY <1>1, <1>2, <1>3, <1>5
<1>7. at <= last /\ last <= Len(guest)
  BY <1>1, <1>2, <1>3, <1>6
<1>8. /\ ReadChunk(p) \in Seq(Nat) /\ Len(ReadChunk(p)) = last - at
      /\ \A i \in 1 .. last - at : ReadChunk(p)[i] = guest[at + i]
  BY <1>1, <1>2, <1>4, <1>6, <1>7, Between
<1>9. QED
  BY <1>1, <1>6, <1>8 DEF at, end
(* What the next read of the input may return (read_range of `write`).     *)
LEMMA InputFacts ==
    ASSUME Given, CliTyped, NEW p \in Task, At(p, "copyIn"), NEW bytes \in NextInput(p)
    PROVE  LET took == run[p].took
               done == run[p].at - job[p].offset
           IN  /\ done \in Nat /\ bytes \in Seq(Nat)
               /\ run[p].at + Len(bytes) <= run[p].end
               /\ Took(p, bytes) \in Seq(Nat)
               /\ Len(Took(p, bytes)) = IF job[p].from = "pipe" THEN Len(took)
                                        ELSE Len(took) + Len(bytes)
               /\ \A i \in 1 .. done : Took(p, bytes)[i] = took[i]
               /\ \A i \in 1 .. Len(bytes) : Took(p, bytes)[done + i] = bytes[i]
               /\ bytes = <<>> => Took(p, bytes) = took /\ Len(took) = done
<1> DEFINE took == run[p].took
           at == run[p].at
           end == run[p].end
           offset == job[p].offset
           done == at - offset
<1>1. /\ took \in Seq(Nat) /\ at \in Nat /\ end \in Nat
  BY RunFacts DEF RunType
<1>2. /\ job[p].verb = "write" /\ offset <= at /\ at <= end
      /\ Len(took) = IF job[p].from = "pipe" THEN end - offset ELSE done
  BY RunFacts DEF RunSound, At
<1>3. offset \in Nat /\ Chunk \in Nat \ {0} /\ input \in Seq(Nat)
  BY <1>2, TransferAssumption DEF Given, JobTyped, CliTyped, StoresTyped
<1>4. done \in Nat /\ Done(p) = done
  BY <1>1, <1>2, <1>3 DEF Done
<1> HIDE DEF at, end, offset, done, took
<1>5. CASE job[p].from = "pipe"
  <2> DEFINE last == Least({done + Chunk, Len(took)})
  <2>1. bytes = SubSeq(took, done + 1, last) /\ Took(p, bytes) = took
    BY <1>4, <1>5 DEF NextInput, Took, took
  <2>2. Len(took) \in Nat /\ done <= Len(took) /\ Len(took) = end - offset
    BY <1>1, <1>2, <1>3, <1>5 DEF done
  <2>3. last = IF done + Chunk <= Len(took) THEN done + Chunk ELSE Len(took)
    <3>1. done + Chunk \in Int /\ Len(took) \in Int
      BY <1>3, <1>4, <2>2
    <3>2. QED
      BY <3>1, LeastOfTwo
  <2> HIDE DEF last
  <2>4. last \in Nat /\ done <= last /\ last <= Len(took) /\ (last = done => done = Len(took))
    BY <1>3, <1>4, <2>2, <2>3
  <2>5. /\ bytes \in Seq(Nat) /\ Len(bytes) = last - done
        /\ \A i \in 1 .. last - done : bytes[i] = took[done + i]
    BY <1>1, <1>4, <2>1, <2>4, Between
  <2>6. at + Len(bytes) <= end
    BY <1>1, <1>3, <2>2, <2>4, <2>5 DEF done
  <2>7. bytes = <<>> => Len(took) = done
    <3>1. bytes = <<>> => Len(bytes) = 0
      OBVIOUS
    <3>2. QED
      BY <1>4, <2>4, <2>5, <3>1
  <2>8. \A i \in 1 .. Len(bytes) : took[done + i] = bytes[i]
    BY <2>5
  <2>9. QED
    BY <1>1, <1>4, <1>5, <2>1, <2>5, <2>6, <2>7, <2>8 DEF at, end, offset, done, took
<1>6. CASE job[p].from # "pipe"
  <2> DEFINE last == Least({done + Chunk, end - offset, Len(input)})
  <2>1. bytes \in IF last <= done THEN {<<>>}
                  ELSE {SubSeq(input, done + 1, n) : n \in done + 1 .. last}
    BY <1>4, <1>6 DEF NextInput, end, offset
  <2>2. last \in Int /\ last <= end - offset /\ last <= Len(input)
    <3>1. done + Chunk \in Int /\ end - offset \in Int /\ Len(input) \in Int
      BY <1>1, <1>3, <1>4
    <3>2. QED
      BY <3>1, LeastOfThree
  <2> HIDE DEF last
  <2>3. Len(took) = done /\ Took(p, bytes) = took \o bytes
    BY <1>2, <1>6 DEF Took, took
  <2>4. bytes \in Seq(Nat) /\ at + Len(bytes) <= end
    <3>1. CASE bytes = <<>>
      BY <1>1, <1>2, <3>1 DEF at, end
    <3>2. CASE bytes # <<>>
      <4>1. PICK n \in done + 1 .. last : bytes = SubSeq(input, done + 1, n)
        BY <2>1, <3>2
      <4>2. n \in Nat /\ done <= n /\ n <= Len(input) /\ n <= end - offset
        BY <1>1, <1>3, <1>4, <2>2
      <4>3. bytes \in Seq(Nat) /\ Len(bytes) = n - done
        BY <1>3, <1>4, <4>1, <4>2, Between
      <4>4. QED
        BY <1>1, <1>3, <4>2, <4>3 DEF done
    <3>3. QED
      BY <3>1, <3>2
  <2>5. /\ took \o bytes \in Seq(Nat) /\ Len(took \o bytes) = Len(took) + Len(bytes)
        /\ \A i \in 1 .. Len(took) + Len(bytes) :
               (took \o bytes)[i] = IF i <= Len(took) THEN took[i] ELSE bytes[i - Len(took)]
    BY <1>1, <2>4, ConcatProperties
  <2>6. \A i \in 1 .. done : (took \o bytes)[i] = took[i]
    BY <1>4, <2>3, <2>4, <2>5
  <2>7. \A i \in 1 .. Len(bytes) : (took \o bytes)[done + i] = bytes[i]
    BY <1>4, <2>3, <2>4, <2>5
  <2>8. bytes = <<>> => took \o bytes = took
    BY <1>1, ConcatEmptySeq
  <2>9. QED
    BY <1>4, <1>6, <2>3, <2>4, <2>5, <2>6, <2>7, <2>8 DEF at, end, offset, done, took
<1>7. QED
  BY <1>5, <1>6

(***************************************************************************)
(* One command's steps keep the types                                      *)
(***************************************************************************)
LEMMA BeginTyped ==
    ASSUME CliTyped, NEW p \in Task, BeginCommand(p), IsCommand(p), UNCHANGED job
    PROVE  CliTyped'
<1> DEFINE r == [run[p] EXCEPT !.stage = "opening"]
<1>1. run' = [run EXCEPT ![p] = r] /\ UNCHANGED files /\ StoresTyped'
  BY StoresStay DEF BeginCommand, Moved, StartOpen, Becomes, KeepFiles, KeepGuest, CliTyped
<1>2. run[p] \in RunType /\ run[p] = IdleRun
  BY RunFacts DEF BeginCommand, At, RunSound, IdleRun
<1>3. r \in RunType /\ r = [IdleRun EXCEPT !.stage = "opening"] /\ r.stage = "opening"
      /\ r.at = 0 /\ r.end = 0 /\ r.took = <<>> /\ r.sent = 0 /\ r.result = "none"
  <2>1. "opening" \in CliStages
    BY DEF CliStages
  <2>2. r \in RunType
    BY <1>2, <2>1 DEF RunType
  <2>3. QED
    BY <1>2, <2>2 DEF IdleRun
<1> HIDE DEF r
<1>4. RunSound(p, r)
  BY <1>3 DEF RunSound, OnPartial
<1>5. QED
  BY <1>1, <1>3, <1>4, RunBecomes

LEMMA StartReadTyped ==
    ASSUME OpenInv, CliInv, NEW p \in Task, StartRead(p), UNCHANGED job
    PROVE  CliTyped'
<1>1. StoresTyped' /\ UNCHANGED files
  BY StoresStay DEF StartRead, KeepFiles, KeepGuest, CliInv, CliTyped, openVars, Return
<1>2. CASE Return(p, "refused")
  BY <1>1, <1>2, ReturnTyped DEF CliInv, Outcomes
<1>3. CASE ~Return(p, "refused")
  <2> DEFINE stage == IF job[p].to = "stdout" THEN "stream" ELSE "create"
             r == [run[p] EXCEPT !.at = From(p), !.end = From(p) + Length(p), !.stage = stage]
  <2>1. run' = [run EXCEPT ![p] = r] /\ InRange(p) /\ job[p].verb = "read"
    BY <1>3 DEF StartRead, Opened
  <2>2. /\ From(p) \in Nat /\ Length(p) \in Nat /\ From(p) + Length(p) <= Len(Guest)
    BY <2>1, OpenedIsSized, RangeFacts DEF StartRead, Opened, OpenInv
  <2>3. ReadsTo(p, IF stage = "stream" THEN "stdout" ELSE "file")
    BY <2>1 DEF ReadsTo, OpenInv, Given, JobTyped
  <2>4. run[p] \in RunType /\ run[p] = [IdleRun EXCEPT !.stage = "opening"]
    BY RunFacts DEF CliInv, StartRead, Opened, At, RunSound
  <2>5. stage \in {"stream", "create"}
    OBVIOUS
  <2> HIDE DEF stage
  <2>6. /\ r \in RunType /\ r.stage = stage /\ r.at = From(p) /\ r.end = From(p) + Length(p)
        /\ r.took = <<>> /\ r.sent = 0 /\ r.result = "none"
    <3>1. stage \in CliStages /\ From(p) + Length(p) \in Nat
      BY <2>2, <2>5 DEF CliStages, OnPartial
    <3>2. r \in RunType
      BY <2>2, <2>4, <3>1 DEF RunType
    <3>3. QED
      BY <2>4, <3>2 DEF IdleRun
  <2> HIDE DEF r
  <2>7. RunSound(p, r)
    BY <2>1, <2>2, <2>3, <2>5, <2>6 DEF RunSound, OnPartial
  <2>8. QED
    BY <1>1, <2>1, <2>6, <2>7, RunBecomes DEF CliInv
<1>4. QED
  BY <1>2, <1>3

LEMMA StreamTyped ==
    ASSUME CliTyped, NEW p \in Task, Stream(p), UNCHANGED job
    PROVE  CliTyped'
<1> DEFINE handed == run[p].took \o ReadChunk(p)
<1>1. PICK sent \in run[p].sent .. Len(handed) :
          run' = [run EXCEPT ![p] = [run[p] EXCEPT !.at = @ + Len(ReadChunk(p)),
                                                   !.took = handed, !.sent = sent]]
  BY DEF Stream
<1> DEFINE r == [run[p] EXCEPT !.at = @ + Len(ReadChunk(p)), !.took = handed, !.sent = sent]
<1>2. StoresTyped' /\ UNCHANGED files
  BY StoresStay DEF Stream, KeepFiles, KeepGuest, CliTyped, openVars
<1>3. run[p] \in RunType /\ RunSound(p, run[p]) /\ run[p].stage = "stream" /\ More(p)
  BY RunFacts DEF Stream, At
<1>4. run[p].end <= Len(Guest) /\ From(p) \in Nat
  BY <1>3 DEF RunSound
<1>5. /\ ReadChunk(p) \in Seq(Nat) /\ Len(ReadChunk(p)) \in Nat \ {0}
      /\ run[p].at + Len(ReadChunk(p)) <= run[p].end
  BY <1>3, <1>4, ChunkFacts
<1>6. run[p].took \in Seq(Nat) /\ run[p].at \in Nat /\ run[p].end \in Nat /\ run[p].sent \in Nat
  BY <1>3 DEF RunType
<1>7. handed \in Seq(Nat) /\ Len(handed) = Len(run[p].took) + Len(ReadChunk(p))
  BY <1>5, <1>6, ConcatProperties
<1> HIDE DEF handed
<1>8. sent \in Nat /\ sent <= Len(handed)
  <2>1. Len(handed) \in Nat /\ sent \in run[p].sent .. Len(handed)
    BY <1>7
  <2>2. QED
    BY <1>6, <2>1
<1>9. /\ r \in RunType /\ r.stage = "stream" /\ r.at = run[p].at + Len(ReadChunk(p))
      /\ r.end = run[p].end /\ r.took = handed /\ r.sent = sent /\ r.result = run[p].result
  <2>1. run[p].at + Len(ReadChunk(p)) \in Nat
    BY <1>5, <1>6
  <2>2. r \in RunType
    BY <1>3, <1>7, <1>8, <2>1 DEF RunType
  <2>3. QED
    BY <1>3, <2>2 DEF RunType
<1>10. run' = [run EXCEPT ![p] = r]
  BY <1>1
<1> HIDE DEF r
<1>11. /\ InRange(p) /\ Length(p) \in Nat /\ From(p) <= run[p].at /\ ReadsTo(p, "stdout")
       /\ run[p].end = From(p) + Length(p) /\ Len(run[p].took) = run[p].at - From(p)
       /\ run[p].result = "none"
  BY <1>3 DEF RunSound
<1>12. RunSound(p, r)
  <2>1. /\ r.at <= r.end /\ r.sent <= Len(r.took) /\ From(p) <= r.at
        /\ Len(r.took) = r.at - From(p)
    <3>1. r.at <= r.end
      BY <1>5, <1>9
    <3>2. r.sent <= Len(r.took)
      BY <1>8, <1>9
    <3>3. From(p) <= r.at
      <4>1. \A at, k, from \in Nat : from <= at => from <= at + k
        OBVIOUS
      <4>2. QED
        BY <1>4, <1>5, <1>6, <1>9, <1>11, <4>1
    <3>4. Len(handed) = (run[p].at - From(p)) + Len(ReadChunk(p))
      BY <1>7, <1>11
    <3>5. Len(r.took) = r.at - From(p)
      <4>1. \A at, k, from \in Nat : (at - from) + k = (at + k) - from
        OBVIOUS
      <4>2. QED
        BY <1>4, <1>5, <1>6, <1>9, <3>4, <4>1
    <3>6. QED
      BY <3>1, <3>2, <3>3, <3>5
  <2>2. QED
    BY <1>4, <1>9, <1>11, <2>1 DEF RunSound, OnPartial
<1>13. QED
  BY <1>2, <1>9, <1>10, <1>12, RunBecomes

LEMMA FlushOutTyped ==
    ASSUME CliTyped, NEW p \in Task, FlushOut(p), UNCHANGED job
    PROVE  CliTyped'
<1> DEFINE r == [run[p] EXCEPT !.stage = "returned", !.result = "ok", !.sent = Len(run[p].took)]
<1>1. run' = [run EXCEPT ![p] = r] /\ UNCHANGED files /\ StoresTyped'
  BY StoresStay DEF FlushOut, KeepFiles, KeepGuest, CliTyped
<1>2. run[p] \in RunType /\ RunSound(p, run[p])
  BY RunFacts
<1>3. /\ r \in RunType /\ r.stage = "returned" /\ r.at = run[p].at /\ r.end = run[p].end
      /\ r.took = run[p].took /\ r.sent = Len(run[p].took)
  <2>1. "returned" \in CliStages /\ "ok" \in Outcomes /\ Len(run[p].took) \in Nat
    BY <1>2 DEF CliStages, Outcomes, RunType
  <2>2. r \in RunType
    BY <1>2, <2>1 DEF RunType
  <2>3. QED
    BY <1>2, <2>2 DEF RunType
<1> HIDE DEF r
<1>4. r.sent <= Len(r.took)
  BY <1>3 DEF RunType
<1>5. RunSound(p, r)
  BY <1>2, <1>3, <1>4 DEF RunSound, OnPartial
<1>6. QED
  BY <1>1, <1>3, <1>5, RunBecomes
LEMMA StreamFailsTyped ==
    ASSUME CliTyped, NEW p \in Task, StreamFails(p) \/ NotOpened(p) \/ InputFails(p)
                                       \/ RenameFails(p), UNCHANGED job
    PROVE  CliTyped'
<1>1. \E result \in Outcomes : Return(p, result)
  BY DEF StreamFails, NotOpened, InputFails, RenameFails, Outcomes
<1>2. StoresTyped'
  BY StoresStay DEF StreamFails, NotOpened, InputFails, RenameFails, KeepFiles, KeepGuest, CliTyped
<1>3. QED
  BY <1>1, <1>2, ReturnTyped

(* FILE.partial as one process changes it.                                 *)
LEMMA InodeTyped ==
    ASSUME StoresTyped, NEW i \in Task \cup {Old}, NEW data \in Seq(Nat),
           inode' = [inode EXCEPT ![i].data = data]
    PROVE  inode' \in [Task \cup {Old} -> InodeType]
<1>1. inode[i] \in InodeType /\ inode \in [Task \cup {Old} -> InodeType]
  BY DEF StoresTyped
<1>2. [inode[i] EXCEPT !.data = data] \in InodeType
  BY <1>1 DEF InodeType
<1>3. inode' = [inode EXCEPT ![i] = [inode[i] EXCEPT !.data = data]]
  BY <1>1
<1>4. QED
  BY <1>1, <1>2, <1>3

LEMMA CreateTyped ==
    ASSUME CliTyped, NEW p \in Task, CreatePartial(p), UNCHANGED job
    PROVE  CliTyped'
<1> DEFINE file == IF name.partial = None THEN p ELSE name.partial
           r == [run[p] EXCEPT !.stage = "copy", !.file = file]
<1>1. run' = [run EXCEPT ![p] = r] /\ UNCHANGED files
  BY DEF CreatePartial, openVars
<1>2. run[p] \in RunType /\ RunSound(p, run[p]) /\ run[p].stage = "create"
  BY RunFacts DEF CreatePartial, At
<1>3. file \in Task
  BY DEF CliTyped, StoresTyped, NameType
<1>4. StoresTyped'
  <2>1. inode' = [inode EXCEPT ![file].data = <<>>] /\ name' = [name EXCEPT !.partial = file]
        /\ overlapped' \in BOOLEAN /\ UNCHANGED <<guest, flushed, input>>
    BY DEF CreatePartial, KeepGuest, CliTyped, StoresTyped
  <2> HIDE DEF file
  <2>2. <<>> \in Seq(Nat)
    OBVIOUS
  <2>3. inode' \in [Task \cup {Old} -> InodeType]
    BY <1>3, <2>1, <2>2, InodeTyped DEF CliTyped
  <2>4. name' \in NameType
    BY <1>3, <2>1 DEF NameType, CliTyped, StoresTyped
  <2>5. QED
    BY <2>1, <2>3, <2>4 DEF CliTyped, StoresTyped
<1> HIDE DEF file
<1>5. /\ r \in RunType /\ r.stage = "copy" /\ r.at = run[p].at /\ r.end = run[p].end
      /\ r.took = run[p].took /\ r.sent = run[p].sent /\ r.file = file /\ r.result = run[p].result
  <2>1. "copy" \in CliStages
    BY DEF CliStages, OnPartial
  <2>2. r \in RunType
    BY <1>2, <1>3, <2>1 DEF RunType
  <2>3. QED
    BY <1>2, <2>2 DEF RunType
<1> HIDE DEF r
<1>6. RunSound(p, r)
  BY <1>2, <1>3, <1>5 DEF RunSound, OnPartial
<1>7. QED
  BY <1>1, <1>4, <1>5, <1>6, RunBecomes

(* On the way through the copy.                                            *)
LEMMA CopyFacts ==
    ASSUME CliTyped, NEW p \in Task, At(p, "copy") \/ At(p, "sync") \/ At(p, "rename")
    PROVE  /\ run[p] \in RunType /\ RunSound(p, run[p])
           /\ File(p) \in Task /\ From(p) \in Nat /\ Length(p) \in Nat /\ InRange(p)
           /\ run[p].at \in Nat /\ run[p].end \in Nat /\ From(p) <= run[p].at
           /\ run[p].at <= run[p].end /\ run[p].end = From(p) + Length(p)
           /\ run[p].end <= Len(Guest) /\ ReadsTo(p, "file") /\ run[p].result = "none"
<1>1. run[p] \in RunType /\ RunSound(p, run[p])
  BY RunFacts
<1>2. run[p].at \in Nat /\ run[p].end \in Nat
  BY <1>1 DEF RunType
<1>3. QED
  BY <1>1, <1>2 DEF At, File, RunSound, OnPartial

LEMMA WriteTyped ==
    ASSUME CliTyped, NEW p \in Task, At(p, "copy"), NEW bytes \in Seq(Nat), Write(p, bytes)
    PROVE  inode' \in [Task \cup {Old} -> InodeType]
<1> DEFINE pos == run[p].at - From(p)
           data == Placed(inode[File(p)].data, pos, bytes)
<1>1. pos \in Nat /\ File(p) \in Task
  BY CopyFacts
<1>2. inode[File(p)] \in InodeType
  BY <1>1 DEF CliTyped, StoresTyped
<1>3. inode[File(p)].data \in Seq(Nat)
  BY <1>2 DEF InodeType
<1> HIDE DEF pos
<1>4. data \in Seq(Nat)
  BY <1>1, <1>3, PlacedBytes
<1>5. inode' = [inode EXCEPT ![File(p)].data = data]
  BY <1>1 DEF Write, CliTyped, StoresTyped, pos
<1> HIDE DEF data
<1>6. QED
  BY <1>1, <1>4, <1>5, InodeTyped DEF CliTyped

LEMMA CopyChunkTyped ==
    ASSUME CliTyped, NEW p \in Task, CopyChunk(p), UNCHANGED job
    PROVE  CliTyped'
<1> DEFINE bytes == ReadChunk(p)
           r == [run[p] EXCEPT !.at = @ + Len(bytes)]
<1>1. At(p, "copy") /\ More(p) /\ run' = [run EXCEPT ![p] = r] /\ UNCHANGED files
  BY DEF CopyChunk, openVars
<1>2. /\ run[p] \in RunType /\ RunSound(p, run[p]) /\ run[p].stage = "copy"
      /\ run[p].end <= Len(Guest) /\ run[p].at \in Nat
      /\ From(p) \in Nat /\ From(p) <= run[p].at
  BY <1>1, CopyFacts DEF At
<1>3. bytes \in Seq(Nat) /\ Len(bytes) \in Nat \ {0} /\ run[p].at + Len(bytes) <= run[p].end
  BY <1>1, <1>2, ChunkFacts
<1>4. StoresTyped'
  <2>1. UNCHANGED <<name, overlapped, guest, flushed, input>>
    BY DEF CopyChunk, KeepGuest
  <2>2. inode' \in [Task \cup {Old} -> InodeType]
    <3>1. CASE UNCHANGED inode
      BY <3>1 DEF CliTyped, StoresTyped
    <3>2. CASE Write(p, bytes)
      BY <1>1, <1>3, <3>2, WriteTyped
    <3>3. QED
      BY <3>1, <3>2 DEF CopyChunk
  <2>3. QED
    BY <2>1, <2>2 DEF CliTyped, StoresTyped
<1> HIDE DEF bytes
<1>5. /\ r \in RunType /\ r.stage = "copy" /\ r.at = run[p].at + Len(bytes)
      /\ r.end = run[p].end /\ r.took = run[p].took /\ r.sent = run[p].sent
      /\ r.file = run[p].file /\ r.result = run[p].result
  <2>1. run[p].at + Len(bytes) \in Nat
    BY <1>2, <1>3
  <2>2. r \in RunType
    BY <1>2, <2>1 DEF RunType
  <2>3. QED
    BY <1>2, <2>2 DEF RunType
<1> HIDE DEF r
<1>6. r.at <= r.end /\ From(p) <= r.at
  BY <1>2, <1>3, <1>5
<1>7. RunSound(p, r)
  BY <1>2, <1>5, <1>6 DEF RunSound, OnPartial
<1>8. QED
  BY <1>1, <1>4, <1>5, <1>7, RunBecomes

(* A move to another stage of the same copy.                               *)
LEMMA MovedTyped ==
    ASSUME CliTyped, NEW p \in Task, NEW stage \in {"sync", "rename", "cleanup", "flush"},
           Moved(p, stage), UNCHANGED <<files, job>>, StoresTyped',
           stage \in {"sync", "rename"} => (At(p, "copy") \/ At(p, "sync")) /\ run[p].at = run[p].end,
           stage = "cleanup" => At(p, "create") \/ At(p, "copy") \/ At(p, "sync"),
           stage = "flush" => At(p, "copyIn") /\ Len(run[p].took) = run[p].at - job[p].offset
    PROVE  CliTyped'
<1> DEFINE r == [run[p] EXCEPT !.stage = stage]
<1>1. run' = [run EXCEPT ![p] = r]
  BY DEF Moved
<1>2. run[p] \in RunType /\ RunSound(p, run[p])
  BY RunFacts
<1>3. /\ r \in RunType /\ r.stage = stage /\ r.at = run[p].at /\ r.end = run[p].end
      /\ r.took = run[p].took /\ r.sent = run[p].sent
      /\ r.file = run[p].file /\ r.result = run[p].result
  <2>1. stage \in CliStages
    BY DEF CliStages, OnPartial
  <2>2. r \in RunType
    BY <1>2, <2>1 DEF RunType
  <2>3. QED
    BY <1>2, <2>2 DEF RunType
<1> HIDE DEF r
<1>4. RunSound(p, r)
  <2>1. CASE stage \in {"sync", "rename"}
    BY <1>2, <1>3, <2>1 DEF RunSound, OnPartial, At
  <2>2. CASE stage = "cleanup"
    BY <1>2, <1>3, <2>2 DEF RunSound, OnPartial, At
  <2>3. CASE stage = "flush"
    BY <1>2, <1>3, <2>3 DEF RunSound, OnPartial, At
  <2>4. QED
    BY <2>1, <2>2, <2>3
<1>5. QED
  BY <1>1, <1>3, <1>4, RunBecomes
LEMMA SetLengthTyped ==
    ASSUME CliTyped, NEW p \in Task, SetLength(p), UNCHANGED job
    PROVE  CliTyped'
<1>1. At(p, "copy") /\ ~More(p) /\ Moved(p, "sync") /\ UNCHANGED files
  BY DEF SetLength, openVars
<1>2. /\ File(p) \in Task /\ Length(p) \in Nat
      /\ run[p].at \in Nat /\ run[p].end \in Nat /\ run[p].at <= run[p].end
  BY <1>1, CopyFacts
<1>3. run[p].at = run[p].end
  BY <1>1, <1>2 DEF More
<1>4. StoresTyped'
  <2>1. inode[File(p)] \in InodeType
    BY <1>2 DEF CliTyped, StoresTyped
  <2>2. inode[File(p)].data \in Seq(Nat)
    BY <2>1 DEF InodeType
  <2> DEFINE data == Resized(inode[File(p)].data, Length(p))
  <2>3. data \in Seq(Nat)
    BY <1>2, <2>2, ResizedBytes
  <2>4. inode' = [inode EXCEPT ![File(p)].data = data]
    BY <1>2 DEF SetLength, CliTyped, StoresTyped
  <2> HIDE DEF data
  <2>5. inode' \in [Task \cup {Old} -> InodeType]
    BY <1>2, <2>3, <2>4, InodeTyped DEF CliTyped
  <2>6. QED
    BY <2>5 DEF SetLength, KeepGuest, CliTyped, StoresTyped
<1>5. QED
  BY <1>1, <1>3, <1>4, MovedTyped

LEMMA SyncTyped ==
    ASSUME CliTyped, NEW p \in Task, SyncAll(p), UNCHANGED job
    PROVE  CliTyped'
<1>1. At(p, "sync") /\ Moved(p, "rename") /\ UNCHANGED files
  BY DEF SyncAll, openVars
<1>2. File(p) \in Task /\ run[p].at = run[p].end
  BY <1>1, CopyFacts DEF RunSound, At
<1>3. StoresTyped'
  <2>1. inode[File(p)] \in InodeType /\ inode \in [Task \cup {Old} -> InodeType]
    BY <1>2 DEF CliTyped, StoresTyped
  <2>2. [inode[File(p)] EXCEPT !.durable = inode[File(p)].data] \in InodeType
    BY <2>1 DEF InodeType
  <2>3. inode' = [inode EXCEPT ![File(p)] =
                      [inode[File(p)] EXCEPT !.durable = inode[File(p)].data]]
    BY <1>2, <2>1 DEF SyncAll
  <2>4. inode' \in [Task \cup {Old} -> InodeType]
    BY <1>2, <2>1, <2>2, <2>3
  <2>5. QED
    BY <2>4 DEF SyncAll, KeepGuest, CliTyped, StoresTyped
<1>4. QED
  BY <1>1, <1>2, <1>3, MovedTyped

LEMMA RenameTyped ==
    ASSUME CliTyped, NEW p \in Task, Rename(p) \/ Cleanup(p), UNCHANGED job
    PROVE  CliTyped'
<1>1. name \in NameType
  BY DEF CliTyped, StoresTyped
<1>2. name' \in NameType
  <2>1. CASE Rename(p)
    BY <1>1, <2>1 DEF Rename, NameType
  <2>2. CASE Cleanup(p)
    BY <1>1, <2>2 DEF Cleanup, NameType
  <2>3. QED
    BY <2>1, <2>2
<1>3. StoresTyped'
  BY <1>2 DEF Rename, Cleanup, KeepGuest, CliTyped, StoresTyped
<1>4. \E result \in Outcomes : Return(p, result)
  BY DEF Rename, Cleanup, Outcomes
<1>5. QED
  BY <1>3, <1>4, ReturnTyped

LEMMA CopyFailsTyped ==
    ASSUME CliTyped, NEW p \in Task, CopyFails(p), UNCHANGED job
    PROVE  CliTyped'
<1>1. /\ At(p, "create") \/ At(p, "copy") \/ At(p, "sync")
      /\ Moved(p, "cleanup") /\ UNCHANGED files
  BY DEF CopyFails, openVars, At
<1>2. inode' \in [Task \cup {Old} -> InodeType]
  <2>1. CASE UNCHANGED inode
    BY <2>1 DEF CliTyped, StoresTyped
  <2>2. ASSUME NEW part \in Prefixes(ReadChunk(p)), Write(p, part), At(p, "copy"), More(p)
        PROVE  inode' \in [Task \cup {Old} -> InodeType]
    <3>1. ReadChunk(p) \in Seq(Nat)
      BY <2>2, CopyFacts, ChunkFacts
    <3>2. part \in Seq(Nat)
      BY <2>2, <3>1, PrefixesAreParts
    <3>3. QED
      BY <2>2, <3>2, WriteTyped
  <2>3. QED
    BY <2>1, <2>2 DEF CopyFails
<1>3. StoresTyped'
  BY <1>2 DEF CopyFails, KeepGuest, CliTyped, StoresTyped
<1>4. QED
  BY <1>1, <1>3, MovedTyped

LEMMA StartWriteTyped ==
    ASSUME OpenInv, CliInv, NEW p \in Task, StartWrite(p), UNCHANGED job
    PROVE  CliTyped'
<1>1. StoresTyped' /\ UNCHANGED files
  BY StoresStay DEF StartWrite, KeepFiles, KeepGuest, CliInv, CliTyped, openVars, Return
<1>2. CASE Return(p, "refused")
  BY <1>1, <1>2, ReturnTyped DEF CliInv, Outcomes
<1>3. CASE ~Return(p, "refused")
  <2> DEFINE offset == job[p].offset
             took == IF job[p].from = "pipe" THEN input ELSE <<>>
             r == [run[p] EXCEPT !.at = offset, !.end = offset + Len(input),
                                 !.stage = "copyIn", !.took = took]
  <2>1. run' = [run EXCEPT ![p] = r] /\ Accepts(p) /\ job[p].verb = "write"
    BY <1>3 DEF StartWrite, Opened
  <2>2. /\ offset \in Nat /\ input \in Seq(Nat) /\ Len(Guest) \in Nat
        /\ VirtualSize(p) = Len(Guest)
    BY <2>1, OpenedIsSized, TransferAssumption
       DEF StartWrite, Opened, OpenInv, Given, JobTyped, CliInv, CliTyped, StoresTyped
  <2>3. offset + Len(input) <= Len(Guest)
    BY <2>1, <2>2 DEF Accepts, Room
  <2>4. took \in Seq(Nat) /\ Len(took) = IF job[p].from = "pipe" THEN Len(input) ELSE 0
    BY <2>2
  <2>5. run[p] \in RunType /\ run[p] = [IdleRun EXCEPT !.stage = "opening"]
    BY RunFacts DEF CliInv, StartWrite, Opened, At, RunSound
  <2> HIDE DEF took
  <2>6. /\ r \in RunType /\ r.stage = "copyIn" /\ r.at = offset /\ r.end = offset + Len(input)
        /\ r.took = took /\ r.sent = 0 /\ r.result = "none"
    <3>1. "copyIn" \in CliStages /\ offset + Len(input) \in Nat
      BY <2>2 DEF CliStages
    <3>2. r \in RunType
      BY <2>2, <2>4, <2>5, <3>1 DEF RunType
    <3>3. QED
      BY <2>5, <3>2 DEF IdleRun
  <2> HIDE DEF r
  <2>7. RunSound(p, r)
    <3>1. /\ r.at <= r.end /\ r.sent <= Len(r.took) /\ offset <= r.at /\ r.end <= Len(Guest)
          /\ Len(r.took) = IF job[p].from = "pipe" THEN r.end - offset ELSE r.at - offset
      <4>1. offset + Len(input) \in Nat /\ offset <= offset + Len(input)
            /\ (offset + Len(input)) - offset = Len(input) /\ offset - offset = 0
        <5> HIDE DEF offset
        <5>1. Len(input) \in Nat
          BY <2>2
        <5>2. QED
          BY <2>2, <5>1
      <4>2. r.at <= r.end /\ offset <= r.at /\ r.end <= Len(Guest)
        BY <2>2, <2>3, <2>6, <4>1
      <4>3. Len(r.took) = IF job[p].from = "pipe" THEN Len(input) ELSE 0
        BY <2>4, <2>6
      <4>4. r.end - offset = Len(input) /\ r.at - offset = 0
        BY <2>6, <4>1
      <4>5. r.sent <= Len(r.took)
        BY <2>4, <2>6
      <4>6. QED
        BY <4>2, <4>3, <4>4, <4>5
    <3>2. QED
      BY <2>1, <2>6, <3>1 DEF RunSound, OnPartial
  <2>8. QED
    BY <1>1, <2>1, <2>6, <2>7, RunBecomes DEF CliInv
<1>4. QED
  BY <1>2, <1>3

(* What a write leaves is as long as the disk.                             *)
LEMMA GuestKeepsLength ==
    ASSUME NEW pos \in Nat, NEW bytes \in Seq(Nat), guest \in Seq(Nat),
           pos + Len(bytes) <= Len(guest)
    PROVE  /\ Placed(guest, pos, bytes) \in Seq(Nat)
           /\ Len(Placed(guest, pos, bytes)) = Len(guest)
           /\ \A i \in 1 .. Len(guest) :
                  Placed(guest, pos, bytes)[i] =
                      IF i \in pos + 1 .. pos + Len(bytes) THEN bytes[i - pos] ELSE guest[i]
<1> DEFINE placed == Placed(guest, pos, bytes)
           reach == pos + Len(bytes)
           n == IF bytes = <<>> \/ Len(guest) > reach THEN Len(guest) ELSE reach
<1>1. /\ placed \in Seq(Nat) /\ Len(placed) = n
      /\ \A i \in 1 .. n : placed[i] = IF i \in pos + 1 .. reach THEN bytes[i - pos]
                                      ELSE IF i <= Len(guest) THEN guest[i] ELSE 0
  BY PlacedBytes
<1>2. Len(guest) \in Nat /\ reach \in Nat /\ reach <= Len(guest)
  OBVIOUS
<1> HIDE DEF placed, reach
<1>3. n = Len(guest)
  BY <1>2
<1> HIDE DEF n
<1>4. \A i \in 1 .. Len(guest) : i <= Len(guest)
  BY <1>2
<1>5. \A i \in 1 .. Len(guest) :
          placed[i] = IF i \in pos + 1 .. reach THEN bytes[i - pos] ELSE guest[i]
  BY <1>1, <1>3, <1>4
<1>6. QED
  BY <1>1, <1>3, <1>5 DEF placed, reach
(* Where a write stands while it copies.                                   *)
LEMMA InFacts ==
    ASSUME Given, CliTyped, NEW p \in Task, At(p, "copyIn") \/ At(p, "flush")
    PROVE  /\ run[p] \in RunType /\ RunSound(p, run[p])
           /\ job[p].verb = "write" /\ job[p].offset \in Nat
           /\ run[p].at \in Nat /\ run[p].end \in Nat /\ run[p].took \in Seq(Nat)
           /\ job[p].offset <= run[p].at /\ run[p].at <= run[p].end
           /\ run[p].end <= Len(Guest) /\ run[p].result = "none"
           /\ guest \in Seq(Nat) /\ Len(guest) = Len(Guest)
<1>1. run[p] \in RunType /\ RunSound(p, run[p])
  BY RunFacts
<1>2. run[p].at \in Nat /\ run[p].end \in Nat /\ run[p].took \in Seq(Nat)
  BY <1>1 DEF RunType
<1>3. /\ job[p].verb = "write" /\ job[p].offset <= run[p].at /\ run[p].at <= run[p].end
      /\ run[p].end <= Len(Guest) /\ run[p].result = "none"
  BY <1>1 DEF At, RunSound
<1>4. job[p].offset \in Nat
  BY <1>3 DEF Given, JobTyped
<1>5. QED
  BY <1>1, <1>2, <1>3, <1>4 DEF CliTyped, StoresTyped

LEMMA CopyInTyped ==
    ASSUME Given, CliTyped, NEW p \in Task, CopyIn(p), UNCHANGED job
    PROVE  CliTyped'
<1>1. PICK bytes \in NextInput(p) \ {<<>>} :
          /\ Fits(p, bytes)
          /\ guest' = Placed(guest, run[p].at, bytes)
          /\ run' = [run EXCEPT ![p] = [run[p] EXCEPT !.at = @ + Len(bytes),
                                                      !.took = Took(p, bytes)]]
  BY DEF CopyIn
<1> DEFINE took == Took(p, bytes)
           r == [run[p] EXCEPT !.at = @ + Len(bytes), !.took = took]
           offset == job[p].offset
<1>2. At(p, "copyIn") /\ UNCHANGED <<files, inode, name, overlapped, input>> /\ flushed' = FALSE
  BY DEF CopyIn, openVars, KeepFiles
<1>3. /\ run[p] \in RunType /\ RunSound(p, run[p]) /\ run[p].stage = "copyIn"
      /\ offset \in Nat /\ run[p].at \in Nat /\ run[p].end \in Nat
      /\ offset <= run[p].at /\ run[p].end <= Len(Guest)
      /\ guest \in Seq(Nat) /\ Len(guest) = Len(Guest)
  BY <1>2, InFacts DEF At
<1>4. /\ bytes \in Seq(Nat) /\ run[p].at + Len(bytes) <= run[p].end /\ took \in Seq(Nat)
      /\ Len(took) = IF job[p].from = "pipe" THEN Len(run[p].took)
                     ELSE Len(run[p].took) + Len(bytes)
  BY <1>2, InputFacts
<1> HIDE DEF took
<1>5. Len(bytes) \in Nat /\ run[p].at + Len(bytes) \in Nat
  <2>1. Len(bytes) \in Nat
    BY <1>4
  <2>2. QED
    BY <1>3, <2>1
<1>6. StoresTyped'
  <2>1. run[p].at + Len(bytes) <= Len(guest)
    BY <1>3, <1>4, <1>5
  <2>2. guest' \in Seq(Nat) /\ Len(guest') = Len(Guest)
    BY <1>1, <1>3, <1>4, <2>1, GuestKeepsLength
  <2>3. QED
    BY <1>2, <2>2 DEF CliTyped, StoresTyped
<1>7. /\ r \in RunType /\ r.stage = "copyIn" /\ r.at = run[p].at + Len(bytes)
      /\ r.end = run[p].end /\ r.took = took /\ r.sent = run[p].sent /\ r.result = run[p].result
  <2>1. r \in RunType
    BY <1>3, <1>4, <1>5 DEF RunType
  <2>2. QED
    BY <1>3, <2>1 DEF RunType
<1>8. run' = [run EXCEPT ![p] = r]
  BY <1>1 DEF took
<1> HIDE DEF r
<1>9. RunSound(p, r)
  <2>1. run[p].took \in Seq(Nat) /\ Len(run[p].took) \in Nat /\ run[p].sent \in Nat
    BY <1>3 DEF RunType
  <2>2. /\ run[p].sent <= Len(run[p].took) /\ run[p].result = "none"
        /\ Len(run[p].took) = IF job[p].from = "pipe" THEN run[p].end - offset
                              ELSE run[p].at - offset
        /\ job[p].verb = "write"
    BY <1>3 DEF RunSound
  <2> HIDE DEF offset
  <2>3. /\ r.at <= r.end /\ offset <= r.at /\ r.end <= Len(Guest)
    BY <1>3, <1>4, <1>5, <1>7
  <2>4. r.sent <= Len(r.took)
    <3>1. Len(took) >= Len(run[p].took) /\ Len(took) \in Nat
      BY <1>4, <1>5, <2>1
    <3>2. QED
      BY <1>7, <2>1, <2>2, <3>1
  <2>5. Len(r.took) = IF job[p].from = "pipe" THEN r.end - offset ELSE r.at - offset
    <3>1. job[p].from # "pipe" => Len(took) = (run[p].at - offset) + Len(bytes)
      BY <1>4, <2>2
    <3>2. (run[p].at - offset) + Len(bytes) = (run[p].at + Len(bytes)) - offset
      BY <1>3, <1>5
    <3>3. QED
      BY <1>4, <1>7, <2>2, <3>1, <3>2
  <2>6. QED
    BY <1>7, <2>2, <2>3, <2>4, <2>5 DEF RunSound, OnPartial, offset
<1>10. QED
  BY <1>2, <1>6, <1>7, <1>8, <1>9, RunBecomes

LEMMA EndOfInputTyped ==
    ASSUME Given, CliTyped, NEW p \in Task, EndOfInput(p), UNCHANGED job
    PROVE  CliTyped'
<1>1. At(p, "copyIn") /\ <<>> \in NextInput(p) /\ Moved(p, "flush") /\ UNCHANGED files
  BY DEF EndOfInput, openVars
<1>2. Len(run[p].took) = run[p].at - job[p].offset
  BY <1>1, InputFacts
<1>3. StoresTyped'
  BY StoresStay DEF EndOfInput, KeepFiles, KeepGuest, CliTyped
<1>4. QED
  BY <1>1, <1>2, <1>3, MovedTyped

LEMMA CopyInFailsTyped ==
    ASSUME Given, CliTyped, NEW p \in Task, CopyInFails(p), UNCHANGED job
    PROVE  CliTyped'
<1>1. PICK bytes \in NextInput(p) : \E part \in Prefixes(bytes) :
          /\ guest' = IF Fits(p, bytes) THEN Placed(guest, run[p].at, part) ELSE guest
          /\ run' = [run EXCEPT ![p] = [run[p] EXCEPT !.stage = "returned", !.result = "failed",
                                                      !.took = Took(p, bytes)]]
  BY DEF CopyInFails
<1>2. PICK part \in Prefixes(bytes) :
          /\ guest' = IF Fits(p, bytes) THEN Placed(guest, run[p].at, part) ELSE guest
          /\ run' = [run EXCEPT ![p] = [run[p] EXCEPT !.stage = "returned", !.result = "failed",
                                                      !.took = Took(p, bytes)]]
  BY <1>1
<1> DEFINE took == Took(p, bytes)
           r == [run[p] EXCEPT !.stage = "returned", !.result = "failed", !.took = took]
<1>3. At(p, "copyIn") /\ UNCHANGED <<files, inode, name, overlapped, input>> /\ flushed' = FALSE
  BY DEF CopyInFails, KeepFiles
<1>4. /\ run[p] \in RunType /\ RunSound(p, run[p])
      /\ run[p].at \in Nat /\ run[p].end \in Nat /\ run[p].end <= Len(Guest)
      /\ run[p].took \in Seq(Nat)
      /\ guest \in Seq(Nat) /\ Len(guest) = Len(Guest)
  BY <1>3, InFacts
<1>5. /\ bytes \in Seq(Nat) /\ run[p].at + Len(bytes) <= run[p].end /\ took \in Seq(Nat)
      /\ Len(took) = IF job[p].from = "pipe" THEN Len(run[p].took)
                     ELSE Len(run[p].took) + Len(bytes)
  BY <1>3, InputFacts
<1> HIDE DEF took
<1>6. StoresTyped'
  <2>1. part \in Seq(Nat) /\ Len(part) <= Len(bytes)
    BY <1>5, PrefixesAreParts
  <2>2. run[p].at + Len(part) <= Len(guest)
    <3>1. Len(part) \in Nat /\ Len(bytes) \in Nat
      BY <1>5, <2>1
    <3>2. run[p].at + Len(part) <= run[p].end
      <4>1. \A a, k, m, e \in Nat : k <= m /\ a + m <= e => a + k <= e
        OBVIOUS
      <4>2. QED
        BY <1>4, <1>5, <2>1, <3>1, <4>1
    <3>3. QED
      BY <1>4, <3>1, <3>2
  <2>3. guest' \in Seq(Nat) /\ Len(guest') = Len(Guest)
    <3>1. /\ Placed(guest, run[p].at, part) \in Seq(Nat)
          /\ Len(Placed(guest, run[p].at, part)) = Len(guest)
      BY <1>4, <2>1, <2>2, GuestKeepsLength
    <3>2. QED
      BY <1>2, <1>4, <3>1
  <2>4. QED
    BY <1>3, <2>3 DEF CliTyped, StoresTyped
<1>7. /\ r \in RunType /\ r.stage = "returned" /\ r.at = run[p].at
      /\ r.end = run[p].end /\ r.took = took /\ r.sent = run[p].sent
  <2>1. "returned" \in CliStages /\ "failed" \in Outcomes
    BY DEF CliStages, Outcomes
  <2>2. r \in RunType
    BY <1>4, <1>5, <2>1 DEF RunType
  <2>3. QED
    BY <1>4, <2>2 DEF RunType
<1>8. run' = [run EXCEPT ![p] = r]
  BY <1>2 DEF took
<1> HIDE DEF r
<1>9. RunSound(p, r)
  <2>1. run[p].sent \in Nat /\ run[p].sent <= Len(run[p].took) /\ Len(bytes) \in Nat
        /\ Len(run[p].took) \in Nat
    BY <1>4, <1>5 DEF RunSound, RunType
  <2>2. r.sent <= Len(r.took)
    <3>1. Len(took) >= Len(run[p].took) /\ Len(took) \in Nat
      BY <1>5, <2>1
    <3>2. QED
      BY <1>7, <2>1, <3>1
  <2>3. QED
    BY <1>4, <1>7, <2>2 DEF RunSound, OnPartial
<1>10. QED
  BY <1>3, <1>6, <1>7, <1>8, <1>9, RunBecomes

LEMMA FlushTyped ==
    ASSUME CliTyped, NEW p \in Task, Flush(p), UNCHANGED job
    PROVE  CliTyped'
<1>1. \E result \in Outcomes : Return(p, result)
  BY DEF Flush, Outcomes
<1>2. StoresTyped'
  BY DEF Flush, KeepFiles, CliTyped, StoresTyped
<1>3. QED
  BY <1>1, <1>2, ReturnTyped

LEMMA KillTyped ==
    ASSUME CliTyped, NEW p \in Task, Kill(p), UNCHANGED job
    PROVE  CliTyped'
<1> DEFINE r == [run[p] EXCEPT !.stage = "dead"]
<1>1. run' = [run EXCEPT ![p] = r] /\ UNCHANGED files /\ StoresTyped'
  BY StoresStay DEF Kill, KeepFiles, KeepGuest, CliTyped
<1>2. run[p] \in RunType
  BY RunFacts
<1>3. r = [run[p] EXCEPT !.stage = "dead", !.result = run[p].result] /\ run[p].result \in Outcomes
  BY <1>2 DEF RunType
<1> HIDE DEF r
<1>4. r \in RunType /\ RunSound(p, r)
  BY <1>3, EndedIsSound
<1>5. QED
  BY <1>1, <1>4, RunBecomes

LEMMA InputChangesTyped ==
    ASSUME CliTyped, InputChanges, UNCHANGED job
    PROVE  CliTyped'
<1>1. UNCHANGED <<files, run, inode, name, overlapped, guest, flushed>>
  BY DEF InputChanges, openVars, KeepFiles
<1>2. input \in Seq(Nat) /\ Len(input) \in Nat
  BY DEF CliTyped, StoresTyped
<1>3. input' \in Seq(Nat)
  <2>1. CASE input' = Append(input, Len(input) + 1)
    <3>1. Len(input) + 1 \in Nat
      BY <1>2
    <3>2. QED
      BY <1>2, <2>1, <3>1, AppendProperties
  <2>2. CASE input # <<>> /\ input' = SubSeq(input, 1, Len(input) - 1)
    <3>1. Len(input) - 1 \in Int /\ Len(input) - 1 <= Len(input) /\ 1 \in Nat \ {0}
      BY <1>2
    <3>2. QED
      BY <1>2, <2>2, <3>1, PartOf
  <2>3. QED
    BY <2>1, <2>2 DEF InputChanges
<1>4. \A p \in Task : RunSound(p, run[p])'
  BY <1>1, RunSoundStays DEF CliTyped
<1>5. QED
  BY <1>1, <1>3, <1>4 DEF CliTyped, StoresTyped

LEMMA PowerLossTyped ==
    ASSUME CliTyped, PowerLoss, UNCHANGED job
    PROVE  CliTyped'
<1>1. UNCHANGED <<files, overlapped, guest, flushed, input>>
      /\ run' = [p \in Task |-> [run[p] EXCEPT !.stage = "dead"]]
  BY DEF PowerLoss, KeepGuest
<1>2. ASSUME NEW p \in Task PROVE run'[p] \in RunType /\ RunSound(p, run[p])'
  <2> DEFINE r == [run[p] EXCEPT !.stage = "dead"]
  <2>1. run[p] \in RunType
    BY RunFacts
  <2>2. r = [run[p] EXCEPT !.stage = "dead", !.result = run[p].result] /\ run[p].result \in Outcomes
    BY <2>1 DEF RunType
  <2>3. run'[p] = r
    BY <1>1
  <2> HIDE DEF r
  <2>4. r \in RunType /\ RunSound(p, r)
    BY <2>2, EndedIsSound
  <2>5. QED
    BY <1>1, <2>3, <2>4, RunSoundStays
<1>3. run' \in [Task -> RunType]
  BY <1>1, <1>2
<1>4. PICK kept \in SUBSET DOMAIN inode, dest \in {name.dest} \cup name.before :
          /\ inode' = [i \in DOMAIN inode |->
                          IF i \in kept THEN inode[i]
                          ELSE [inode[i] EXCEPT !.data = inode[i].durable]]
          /\ name' = [name EXCEPT !.dest = dest]
  BY DEF PowerLoss
<1>5. inode' \in [Task \cup {Old} -> InodeType]
  <2>1. inode \in [Task \cup {Old} -> InodeType]
    BY DEF CliTyped, StoresTyped
  <2>2. \A i \in Task \cup {Old} : [inode[i] EXCEPT !.data = inode[i].durable] \in InodeType
    BY <2>1 DEF InodeType
  <2>3. QED
    BY <1>4, <2>1, <2>2
<1>6. name' \in NameType
  BY <1>4 DEF NameType, CliTyped, StoresTyped
<1>7. QED
  BY <1>1, <1>2, <1>3, <1>5, <1>6 DEF CliTyped, StoresTyped

(***************************************************************************)
(* Every step of the session                                               *)
(***************************************************************************)
(* What a step does to the commands: nothing, or a step of one of them, or *)
(* something from outside.                                                 *)
Acts(p) == CommandStep(p) \/ BeginCommand(p) \/ CommandFails(p) \/ Kill(p)

LEMMA StepCases ==
    ASSUME [Next]_vars
    PROVE  /\ UNCHANGED <<files, job>>
           /\ \/ UNCHANGED cliVars
              \/ \E p \in Task : IsCommand(p) /\ Acts(p)
              \/ InputChanges
              \/ PowerLoss
<1>1. ASSUME NEW t \in Task, Command(t) \/ Disturbed(t)
      PROVE  /\ UNCHANGED <<files, job>>
             /\ UNCHANGED cliVars \/ (IsCommand(t) /\ Acts(t))
  <2>1. UNCHANGED job /\ IsCommand(t)
    BY <1>1 DEF Command, Disturbed
  <2>2. CASE CommandStep(t) \/ CommandFails(t) \/ Kill(t)
    BY <2>1, <2>2, CommandOpens DEF Acts, openVars, Becomes
  <2>3. CASE BeginCommand(t)
    BY <2>1, <2>3 DEF Acts, BeginCommand, StartOpen, Becomes
  <2>4. CASE (OpenStep(t) \/ OpenFails(t)) /\ UNCHANGED cliVars
    BY <2>1, <2>4, FilesStay
  <2>5. QED
    BY <1>1, <2>2, <2>3, <2>4 DEF Command, Disturbed
<1>2. ASSUME NEW t \in Task, Opens(t) \/ User(t)
      PROVE  UNCHANGED <<files, job, cliVars>>
  <2>1. UNCHANGED <<job, cliVars>>
    BY <1>2 DEF Opens, User
  <2>2. CASE OpenStep(t) \/ OpenFails(t) \/ CloseImage(t)
    BY <2>1, <2>2, FilesStay
  <2>3. CASE StartOpen(t, job[t].image, job[t].wanted)
    BY <2>1, <2>3 DEF StartOpen, Becomes
  <2>4. QED
    BY <1>2, <2>2, <2>3 DEF Opens, User
<1>3. ASSUME NEW t \in Task, Called(t) \/ Calls(t)
      PROVE  UNCHANGED <<files, job, cliVars>>
  <2>1. UNCHANGED <<job, cliVars>>
    BY <1>3 DEF Called, Calls
  <2>2. CASE OpenStep(t) \/ OpenFails(t)
    BY <2>1, <2>2, FilesStay
  <2>3. CASE CallStep
    BY <2>1, <2>3 DEF CallStep, ReturnNull, ReturnHandle, Destroy, CloseImage, Becomes, openVars
  <2>4. CASE CallsIn
    BY <2>1, <2>4 DEF CallsIn, CallByPath, Close, CallOnDevice, FileOpen, StartOpen,
                      OpenOnDevice, Becomes, openVars
  <2>5. QED
    BY <1>3, <2>2, <2>3, <2>4 DEF Called, Calls
<1>4. CASE Outside
  <2>1. CASE InputChanges
    BY <1>4, <2>1 DEF Outside, InputChanges, openVars
  <2>2. CASE PowerLoss
    BY <1>4, <2>2 DEF Outside, PowerLoss
  <2>3. QED
    BY <1>4, <2>1, <2>2 DEF Outside
<1>5. CASE UNCHANGED vars
  BY <1>5 DEF vars, openVars
<1>6. QED
  BY <1>1, <1>2, <1>3, <1>4, <1>5 DEF Next, Advance

LEMMA ActsTyped ==
    ASSUME OpenInv, CliInv, NEW p \in Task, IsCommand(p), Acts(p), UNCHANGED job
    PROVE  CliTyped'
<1>1. Given /\ CliTyped
  BY DEF OpenInv, CliInv
<1>2. CASE CommandStep(p)
  <2>1. CASE NotOpened(p)
    BY <1>1, <2>1, StreamFailsTyped
  <2>2. CASE StartRead(p)
    BY <2>2, StartReadTyped
  <2>3. CASE Stream(p)
    BY <1>1, <2>3, StreamTyped
  <2>4. CASE FlushOut(p)
    BY <1>1, <2>4, FlushOutTyped
  <2>5. CASE CreatePartial(p)
    BY <1>1, <2>5, CreateTyped
  <2>6. CASE CopyChunk(p)
    BY <1>1, <2>6, CopyChunkTyped
  <2>7. CASE SetLength(p)
    BY <1>1, <2>7, SetLengthTyped
  <2>8. CASE SyncAll(p)
    BY <1>1, <2>8, SyncTyped
  <2>9. CASE Rename(p) \/ Cleanup(p)
    BY <1>1, <2>9, RenameTyped
  <2>10. CASE RenameFails(p)
    BY <1>1, <2>10, StreamFailsTyped
  <2>11. CASE StartWrite(p)
    BY <2>11, StartWriteTyped
  <2>12. CASE CopyIn(p)
    BY <1>1, <2>12, CopyInTyped
  <2>13. CASE EndOfInput(p)
    BY <1>1, <2>13, EndOfInputTyped
  <2>14. CASE Flush(p)
    BY <1>1, <2>14, FlushTyped
  <2>15. QED
    BY <1>2, <2>1, <2>2, <2>3, <2>4, <2>5, <2>6, <2>7, <2>8, <2>9, <2>10, <2>11, <2>12,
       <2>13, <2>14 DEF CommandStep
<1>3. CASE BeginCommand(p)
  BY <1>1, <1>3, BeginTyped
<1>4. CASE CommandFails(p)
  <2>1. CASE StreamFails(p) \/ RenameFails(p) \/ InputFails(p)
    BY <1>1, <2>1, StreamFailsTyped
  <2>2. CASE CopyFails(p)
    BY <1>1, <2>2, CopyFailsTyped
  <2>3. CASE CopyInFails(p)
    BY <1>1, <2>3, CopyInFailsTyped
  <2>4. QED
    BY <1>4, <2>1, <2>2, <2>3 DEF CommandFails
<1>5. CASE Kill(p)
  BY <1>1, <1>5, KillTyped
<1>6. QED
  BY <1>2, <1>3, <1>4, <1>5 DEF Acts

LEMMA TypedStays ==
    ASSUME OpenInv, CliInv, [Next]_vars
    PROVE  CliTyped'
<1>1. UNCHANGED <<files, job>> /\ CliTyped
  BY StepCases DEF CliInv
<1>2. CASE UNCHANGED cliVars
  <2>1. UNCHANGED <<run, inode, name, guest, flushed, input, overlapped>>
    BY <1>2 DEF cliVars
  <2>2. \A p \in Task : RunSound(p, run[p])'
    BY <1>1, <2>1, RunSoundStays DEF CliTyped
  <2>3. StoresTyped'
    BY <1>1, <2>1, StoresStay DEF CliTyped
  <2>4. QED
    BY <1>1, <2>1, <2>2, <2>3 DEF CliTyped
<1>3. QED
  BY <1>1, <1>2, StepCases, ActsTyped, InputChangesTyped, PowerLossTyped

(* Whoever opens, the image stays the one that was named.                  *)
LEMMA LeafBecomes ==
    ASSUME OpenInv, LeafNamed, NEW t \in Task, NEW call, Becomes(t, call), UNCHANGED job,
           call.held # <<>> => call.held[1].path = call.path,
           At(t, "opening")' => call.path = job[t].image,
           \A u \in Task \ {t} : At(u, "opening")' => At(u, "opening")
    PROVE  LeafNamed'
<1> SUFFICES ASSUME NEW u \in Task
             PROVE  /\ opening'[u].held # <<>> => opening'[u].held[1].path = opening'[u].path
                    /\ At(u, "opening")' => opening'[u].path = job[u].image
  BY DEF LeafNamed
<1>1. opening' = [opening EXCEPT ![t] = call] /\ opening \in [Task -> CallType]
  BY DEF Becomes, OpenInv
<1>2. CASE u = t
  <2>1. opening'[u] = call
    BY <1>1, <1>2
  <2>2. QED
    BY <1>2, <2>1
<1>3. CASE u # t
  <2>1. opening'[u] = opening[u]
    BY <1>1, <1>3
  <2>2. QED
    BY <1>3, <2>1 DEF LeafNamed
<1>4. QED
  BY <1>2, <1>3

LEMMA LeafOpens ==
    ASSUME OpenInv, LeafNamed, NEW t \in Task, OpenStep(t) \/ OpenFails(t), UNCHANGED <<run, job>>
    PROVE  LeafNamed'
<1> DEFINE call == opening[t]
<1>1. /\ call \in CallType /\ CallSound(call)
      /\ call.held # <<>> => call.held[1].path = call.path
      /\ At(t, "opening") => call.path = job[t].image
  BY CallFacts DEF LeafNamed
<1>2. \A u \in Task : At(u, "opening")' <=> At(u, "opening")
  BY DEF At
<1>3. ASSUME NEW next, Becomes(t, next), next.path = call.path,
             next.held # <<>> => next.held[1].path = call.path
      PROVE  LeafNamed'
  BY <1>1, <1>2, <1>3, LeafBecomes
<1>4. ASSUME Refuse(t) PROVE LeafNamed'
  <2>1. Refused(call).path = call.path /\ Refused(call).held = <<>>
    BY <1>1 DEF Refused, CallType
  <2>2. QED
    BY <1>3, <1>4, <2>1 DEF Refuse
<1>5. ASSUME NEW stage, Moves(t, stage) PROVE LeafNamed'
  <2> DEFINE next == [call EXCEPT !.stage = stage]
  <2>1. next.path = call.path /\ next.held = call.held /\ Becomes(t, next)
    BY <1>1, <1>5 DEF Moves, CallType
  <2> HIDE DEF next
  <2>2. QED
    BY <1>1, <1>3, <2>1
<1>6. ASSUME NEW path, NEW writable, NEW depth, Becomes(t, Enter(call, path, writable, depth)),
             (call.held = <<>> /\ path = call.path) \/ call.held # <<>>
      PROVE  LeafNamed'
  <2> DEFINE next == Enter(call, path, writable, depth)
  <2>1. /\ next.path = call.path /\ next.held = call.held \o <<Image(path, writable)>>
    BY <1>1 DEF Enter, CallType
  <2> HIDE DEF next
  <2>2. call.held \in Seq(ImageType)
    BY <1>1 DEF CallType
  <2>3. CASE call.held = <<>> /\ path = call.path
    <3>1. call.held \o <<Image(path, writable)>> = <<Image(path, writable)>>
      BY <2>3 DEF Image
    <3>2. next.held[1] = Image(path, writable) /\ Image(path, writable).path = path
      BY <2>1, <3>1 DEF Image
    <3>3. QED
      BY <1>3, <1>6, <2>1, <2>3, <3>2 DEF next
  <2>4. CASE call.held # <<>>
    <3>1. Len(call.held) \in Nat /\ Len(call.held) >= 1
      BY <2>2, <2>4
    <3>2. (call.held \o <<Image(path, writable)>>)[1] = call.held[1]
      BY <2>2, <3>1
    <3>3. QED
      BY <1>1, <1>3, <1>6, <2>1, <2>4, <3>2 DEF next
  <2>5. QED
    BY <1>6, <2>3, <2>4
<1>7. CASE OpenLeaf(t)
  <2>1. call.held = <<>>
    BY <1>1, <1>7 DEF OpenLeaf, OpenAt, CallSound
  <2>2. QED
    BY <1>4, <1>6, <1>7, <2>1 DEF OpenLeaf
<1>8. CASE ReadHeader(t) \/ ReadL1(t)
  BY <1>4, <1>5, <1>8 DEF ReadHeader, ReadL1
<1>9. CASE FollowBacking(t)
  <2>1. call.held # <<>>
    BY <1>1, <1>9 DEF FollowBacking, OpenAt, CallSound, InChain, Linked, CallType
  <2>2. QED
    BY <1>4, <1>5, <1>6, <1>9, <2>1 DEF FollowBacking
<1>10. QED
  BY <1>4, <1>7, <1>8, <1>9 DEF OpenStep, OpenFails
(* A call that is not a command's goes where it likes.                     *)
LEMMA LeafOfOthers ==
    ASSUME OpenInv, CliInv, NEW t \in Task, NEW call, Becomes(t, call), ~IsCommand(t),
           UNCHANGED <<run, job>>, call.held # <<>> => call.held[1].path = call.path
    PROVE  LeafNamed'
<1>1. ~At(t, "opening")
  BY RunFacts DEF CliInv, RunSound, At
<1>2. \A u \in Task : At(u, "opening")' <=> At(u, "opening")
  BY DEF At
<1>3. QED
  BY <1>1, <1>2, LeafBecomes DEF CliInv

(* No step of a command but its beginning brings it to the opening.        *)
LEMMA NotBackToOpening ==
    ASSUME CliTyped, NEW p \in Task, CommandStep(p) \/ CommandFails(p) \/ Kill(p)
    PROVE  /\ ~At(p, "opening")' /\ \A u \in Task : At(u, "opening")' => At(u, "opening")
           /\ \A u \in Task \ {p} : run'[u] = run[u]
<1>1. \E r : run' = [run EXCEPT ![p] = r] /\ r.stage # "opening"
  <2>0. run[p] \in RunType
    BY RunFacts
  <2>1. ASSUME NEW result, Return(p, result)
        PROVE  \E r : run' = [run EXCEPT ![p] = r] /\ r.stage # "opening"
    <3> DEFINE r == [run[p] EXCEPT !.stage = "returned", !.result = result]
    <3>1. run' = [run EXCEPT ![p] = r] /\ r.stage = "returned"
      BY <2>0, <2>1 DEF Return, RunType
    <3>2. QED
      BY <3>1
  <2>2. ASSUME NEW stage \in {"sync", "rename", "cleanup", "flush"}, Moved(p, stage)
        PROVE  \E r : run' = [run EXCEPT ![p] = r] /\ r.stage # "opening"
    <3> DEFINE r == [run[p] EXCEPT !.stage = stage]
    <3>1. run' = [run EXCEPT ![p] = r] /\ r.stage = stage
      BY <2>0, <2>2 DEF Moved, RunType
    <3>2. QED
      BY <3>1
  <2>3. CASE NotOpened(p) \/ Rename(p) \/ RenameFails(p) \/ Cleanup(p) \/ Flush(p)
             \/ StreamFails(p) \/ InputFails(p)
    BY <2>1, <2>3 DEF NotOpened, Rename, RenameFails, Cleanup, Flush, StreamFails, InputFails
  <2>4. CASE SetLength(p) \/ SyncAll(p) \/ EndOfInput(p) \/ CopyFails(p)
    BY <2>2, <2>4 DEF SetLength, SyncAll, EndOfInput, CopyFails
  <2>5. CASE StartRead(p)
    <3>1. CASE Return(p, "refused")
      BY <2>1, <3>1
    <3>2. CASE ~Return(p, "refused")
      <4> DEFINE stage == IF job[p].to = "stdout" THEN "stream" ELSE "create"
                 r == [run[p] EXCEPT !.at = From(p), !.end = From(p) + Length(p), !.stage = stage]
      <4>1. run' = [run EXCEPT ![p] = r] /\ r.stage = stage
        BY <2>0, <2>5, <3>2 DEF StartRead, RunType
      <4>2. stage # "opening"
        OBVIOUS
      <4> HIDE DEF stage, r
      <4>3. QED
        BY <4>1, <4>2
    <3>3. QED
      BY <3>1, <3>2
  <2>6. CASE StartWrite(p)
    <3>1. CASE Return(p, "refused")
      BY <2>1, <3>1
    <3>2. CASE ~Return(p, "refused")
      <4> DEFINE r == [run[p] EXCEPT !.at = job[p].offset, !.end = job[p].offset + Len(input),
                                     !.stage = "copyIn",
                                     !.took = IF job[p].from = "pipe" THEN input ELSE <<>>]
      <4>1. run' = [run EXCEPT ![p] = r] /\ r.stage = "copyIn"
        BY <2>0, <2>6, <3>2 DEF StartWrite, RunType
      <4>2. QED
        BY <4>1
    <3>3. QED
      BY <3>1, <3>2
  <2>7. CASE Stream(p)
    <3>1. PICK sent : run' = [run EXCEPT ![p] =
                    [run[p] EXCEPT !.at = @ + Len(ReadChunk(p)),
                                   !.took = run[p].took \o ReadChunk(p), !.sent = sent]]
      BY <2>7 DEF Stream
    <3> DEFINE r == [run[p] EXCEPT !.at = @ + Len(ReadChunk(p)),
                                   !.took = run[p].took \o ReadChunk(p), !.sent = sent]
    <3>2. run' = [run EXCEPT ![p] = r] /\ r.stage = "stream"
      BY <2>0, <2>7, <3>1 DEF Stream, RunType, At
    <3>3. QED
      BY <3>2
  <2>8. CASE FlushOut(p)
    <3> DEFINE r == [run[p] EXCEPT !.stage = "returned", !.result = "ok", !.sent = Len(run[p].took)]
    <3>1. run' = [run EXCEPT ![p] = r] /\ r.stage = "returned"
      BY <2>0, <2>8 DEF FlushOut, RunType
    <3>2. QED
      BY <3>1
  <2>9. CASE CreatePartial(p)
    <3> DEFINE file == IF name.partial = None THEN p ELSE name.partial
               r == [run[p] EXCEPT !.stage = "copy", !.file = file]
    <3>1. run' = [run EXCEPT ![p] = r] /\ r.stage = "copy"
      BY <2>0, <2>9 DEF CreatePartial, RunType
    <3>2. QED
      BY <3>1
  <2>10. CASE CopyChunk(p)
    <3> DEFINE r == [run[p] EXCEPT !.at = @ + Len(ReadChunk(p))]
    <3>1. run' = [run EXCEPT ![p] = r] /\ r.stage = "copy"
      BY <2>0, <2>10 DEF CopyChunk, RunType, At
    <3>2. QED
      BY <3>1
  <2>11. CASE CopyIn(p)
    <3>1. PICK bytes : run' = [run EXCEPT ![p] =
                    [run[p] EXCEPT !.at = @ + Len(bytes), !.took = Took(p, bytes)]]
      BY <2>11 DEF CopyIn
    <3> DEFINE r == [run[p] EXCEPT !.at = @ + Len(bytes), !.took = Took(p, bytes)]
    <3>2. run' = [run EXCEPT ![p] = r] /\ r.stage = "copyIn"
      BY <2>0, <2>11, <3>1 DEF CopyIn, RunType, At
    <3>3. QED
      BY <3>2
  <2>12. CASE CopyInFails(p)
    <3>1. PICK bytes : run' = [run EXCEPT ![p] =
                    [run[p] EXCEPT !.stage = "returned", !.result = "failed",
                                   !.took = Took(p, bytes)]]
      BY <2>12 DEF CopyInFails
    <3> DEFINE r == [run[p] EXCEPT !.stage = "returned", !.result = "failed",
                                   !.took = Took(p, bytes)]
    <3>2. run' = [run EXCEPT ![p] = r] /\ r.stage = "returned"
      BY <2>0, <3>1 DEF RunType
    <3>3. QED
      BY <3>2
  <2>13. CASE Kill(p)
    <3> DEFINE r == [run[p] EXCEPT !.stage = "dead"]
    <3>1. run' = [run EXCEPT ![p] = r] /\ r.stage = "dead"
      BY <2>0, <2>13 DEF Kill, RunType
    <3>2. QED
      BY <3>1
  <2>14. QED
    BY <2>3, <2>4, <2>5, <2>6, <2>7, <2>8, <2>9, <2>10, <2>11, <2>12, <2>13
       DEF CommandStep, CommandFails
<1>2. run \in [Task -> RunType]
  BY DEF CliTyped
<1>3. QED
  BY <1>1, <1>2 DEF At

LEMMA LeafNamedStays ==
    ASSUME SessionInv, CliInv, [Next]_vars
    PROVE  LeafNamed'
<1>1. OpenInv /\ LeafNamed /\ CliTyped /\ UNCHANGED job
  BY StepCases DEF SessionInv, CliInv
<1>2. ASSUME UNCHANGED <<openVars, run>> PROVE LeafNamed'
  BY <1>1, <1>2 DEF LeafNamed, At, openVars
<1>3. Idle.held = <<>>
  BY DEF Idle
<1>4. ASSUME NEW t \in Task, Command(t) \/ Disturbed(t) PROVE LeafNamed'
  <2>1. CASE CommandStep(t) \/ CommandFails(t) \/ Kill(t)
    <3>1. ~At(t, "opening")' /\ \A u \in Task : At(u, "opening")' => At(u, "opening")
      BY <1>1, <2>1, NotBackToOpening
    <3>2. CASE Becomes(t, Idle)
      BY <1>1, <1>3, <3>1, <3>2, LeafBecomes
    <3>3. CASE UNCHANGED openVars
      BY <1>1, <3>1, <3>3 DEF LeafNamed, openVars
    <3>4. QED
      BY <2>1, <3>2, <3>3, CommandOpens
  <2>2. CASE BeginCommand(t)
    <3>1. PICK wanted : StartOpen(t, job[t].image, wanted)
      BY <2>2 DEF BeginCommand
    <3> DEFINE call == [Idle EXCEPT !.stage = "open", !.wanted = wanted, !.path = job[t].image]
    <3>2. Becomes(t, call) /\ call.held = <<>> /\ call.path = job[t].image
      BY <3>1 DEF StartOpen, Idle
    <3> HIDE DEF call
    <3>3. \A u \in Task \ {t} : At(u, "opening")' => At(u, "opening")
      BY <2>2 DEF BeginCommand, Moved, At, CliTyped
    <3>4. QED
      BY <1>1, <3>2, <3>3, LeafBecomes
  <2>3. CASE (OpenStep(t) \/ OpenFails(t)) /\ UNCHANGED cliVars
    BY <1>1, <2>3, LeafOpens DEF cliVars
  <2>4. QED
    BY <1>4, <2>1, <2>2, <2>3 DEF Command, Disturbed
<1>5. ASSUME NEW t \in Task, ~IsCommand(t), UNCHANGED run,
             \/ OpenStep(t) \/ OpenFails(t) \/ CloseImage(t)
             \/ \E path, wanted : StartOpen(t, path, wanted)
             \/ \E path, wanted, writable : OpenOnDevice(t, path, writable, wanted)
      PROVE  LeafNamed'
  <2>1. CASE OpenStep(t) \/ OpenFails(t)
    BY <1>1, <1>5, <2>1, LeafOpens
  <2>2. CASE CloseImage(t)
    BY <1>1, <1>3, <1>5, <2>2, LeafOfOthers DEF CloseImage
  <2>3. ASSUME NEW path, NEW wanted, StartOpen(t, path, wanted) PROVE LeafNamed'
    <3> DEFINE call == [Idle EXCEPT !.stage = "open", !.wanted = wanted, !.path = path]
    <3>1. Becomes(t, call) /\ call.held = <<>>
      BY <2>3 DEF StartOpen, Idle
    <3> HIDE DEF call
    <3>2. QED
      BY <1>1, <1>5, <3>1, LeafOfOthers
  <2>4. ASSUME NEW path, NEW wanted, NEW writable, OpenOnDevice(t, path, writable, wanted)
        PROVE  LeafNamed'
    <3> DEFINE refused == [Idle EXCEPT !.stage = "failed"]
               call == [Idle EXCEPT !.stage = "header", !.wanted = wanted, !.path = path,
                                    !.named = FALSE, !.depth = MaxDepth,
                                    !.held = <<Image(path, wanted = "rw")>>]
    <3>1. Becomes(t, refused) \/ Becomes(t, call)
      BY <2>4 DEF OpenOnDevice
    <3>2. refused.held = <<>> /\ call.held = <<Image(path, wanted = "rw")>> /\ call.path = path
      BY DEF Idle
    <3> HIDE DEF refused, call
    <3>3. call.held[1].path = path
      BY <3>2 DEF Image
    <3>4. QED
      BY <1>1, <1>5, <3>1, <3>2, <3>3, LeafOfOthers
  <2>5. QED
    BY <1>5, <2>1, <2>2, <2>3, <2>4
<1>6. ASSUME NEW t \in Task, Opens(t) \/ User(t) PROVE LeafNamed'
  <2>1. ~IsCommand(t) /\ UNCHANGED run
    BY <1>6 DEF Opens, User, IsUser, IsCommand, cliVars
  <2>2. QED
    BY <1>5, <1>6, <2>1 DEF Opens, User
<1>7. ASSUME NEW t \in Task, Called(t) \/ Calls(t) PROVE LeafNamed'
  <2>1. ~IsCommand(t) /\ UNCHANGED run /\ t = Caller
    BY <1>7 DEF Called, Calls, IsCaller, IsCommand, cliVars
  <2>2. CASE OpenStep(t) \/ OpenFails(t)
    BY <1>5, <2>1, <2>2
  <2>3. CASE CallStep
    <3>1. UNCHANGED openVars \/ CloseImage(t)
      BY <2>1, <2>3 DEF CallStep, ReturnNull, ReturnHandle, Destroy
    <3>2. QED
      BY <1>2, <1>5, <2>1, <3>1
  <2>4. CASE CallsIn
    <3>1. ASSUME NEW path, NEW wanted, CallByPath(path, wanted) PROVE LeafNamed'
      <4>1. StartOpen(t, path, wanted)
        BY <2>1, <3>1 DEF CallByPath
      <4>2. QED
        BY <1>5, <2>1, <4>1
    <3>2. ASSUME NEW h \in Handle, NEW wanted \in {"ro", "rw"}, CallOnDevice(h, wanted)
          PROVE  LeafNamed'
      <4>1. OpenOnDevice(t, shows[h].content, shows[h].writable, wanted)
        BY <2>1, <3>2 DEF CallOnDevice
      <4>2. QED
        BY <1>5, <2>1, <4>1
    <3>3. ASSUME UNCHANGED openVars PROVE LeafNamed'
      BY <1>2, <2>1, <3>3
    <3>4. QED
      BY <2>4, <3>1, <3>2, <3>3 DEF CallsIn, Close, FileOpen
  <2>5. QED
    BY <1>7, <2>2, <2>3, <2>4 DEF Called, Calls
<1>8. CASE Outside
  <2>1. CASE InputChanges
    BY <1>2, <2>1 DEF InputChanges
  <2>2. CASE PowerLoss
    <3>1. opening' = [t \in Task |-> Idle] /\ \A t \in Task : ~At(t, "opening")'
      BY <1>1, <2>2 DEF PowerLoss, At, CliTyped, RunType
    <3>2. QED
      BY <1>3, <3>1 DEF LeafNamed
  <2>3. QED
    BY <1>8, <2>1, <2>2 DEF Outside
<1>9. CASE UNCHANGED vars
  BY <1>2, <1>9 DEF vars, cliVars, openVars
<1>10. QED
  BY <1>4, <1>6, <1>7, <1>8, <1>9 DEF Next, Advance

LEMMA CliInvHolds == Spec => [](SessionInv /\ CliInv)
<1>1. Init => CliInv
  <2> SUFFICES ASSUME Init PROVE CliInv
    OBVIOUS
  <2>1. /\ Guest \in Seq(Nat) /\ input \in Seq(Nat) /\ run = [p \in Task |-> IdleRun]
        /\ Old \notin Task
    BY TransferAssumption, ScenariosAssumption DEF Init, CliInit
  <2>2. IdleRun \in RunType /\ \A p \in Task : RunSound(p, IdleRun)
    <3>1. IdleRun \in RunType
      BY DEF IdleRun, RunType, CliStages, Outcomes
    <3>2. \A p \in Task : RunSound(p, IdleRun)
      BY DEF IdleRun, RunSound, OnPartial
    <3>3. QED
      BY <3>1, <3>2
  <2>3. OldFile \in Seq(Nat) /\ <<>> \in Seq(Nat)
    BY DEF OldFile
  <2>4. inode \in [Task \cup {Old} -> InodeType]
    BY <2>3 DEF Init, CliInit, InodeType
  <2>5. StoresTyped
    BY <2>1, <2>4 DEF Init, CliInit, StoresTyped, NameType
  <2>6. CliTyped
    BY <2>1, <2>2, <2>5 DEF CliTyped
  <2>7. LeafNamed
    BY <2>1 DEF Init, OpenInit, Idle, LeafNamed, At, IdleRun
  <2>8. DiskSized
    <3>1. PICK s \in Scenarios : files = s.files /\ job = s.job /\ input = s.input
      BY DEF Init
    <3>2. HoldsGuest(s)
      BY ScenariosAssumption
    <3>3. QED
      BY <3>1, <3>2 DEF HoldsGuest, DiskSized, IsCommand, VirtualSize, HeaderOf
  <2>9. QED
    BY <2>6, <2>7, <2>8 DEF CliInv
<1>2. SessionInv /\ CliInv /\ [Next]_vars => CliInv'
  <2> SUFFICES ASSUME SessionInv, CliInv, [Next]_vars PROVE CliInv'
    OBVIOUS
  <2>1. CliTyped' /\ LeafNamed'
    BY TypedStays, LeafNamedStays DEF SessionInv
  <2>2. DiskSized'
    BY StepCases DEF CliInv, DiskSized, IsCommand, VirtualSize, HeaderOf
  <2>3. QED
    BY <2>1, <2>2 DEF CliInv
<1>3. QED
  BY <1>1, <1>2, SessionInvHolds, PTL DEF Spec

(* Every variable of a session stays within its type: calls within the     *)
(* depth limit (open_inner), positions within their ranges (read, write),  *)
(* boxes and references at most one (capi.rs).                             *)
THEOREM SessionIsTyped == Spec => []TypeOK
<1>1. SessionInv /\ CliInv => TypeOK
  <2> SUFFICES ASSUME SessionInv, CliInv PROVE TypeOK
    OBVIOUS
  <2>1. OpenTypeOK
    <3> SUFFICES ASSUME NEW t \in Task
                 PROVE  LET call == opening[t] IN
                        /\ call.stage \in Stages
                        /\ call.depth \in 0 .. MaxDepth
                        /\ Len(call.held) <= MaxDepth + 1
                        /\ call.stage \in {"idle", "open", "failed"} => call.held = <<>>
      BY DEF OpenTypeOK
    <3> DEFINE call == opening[t]
    <3>1. call \in CallType /\ CallSound(call)
      BY CallFacts DEF SessionInv
    <3>2. call.stage \in Stages /\ call.depth \in 0 .. MaxDepth /\ Len(call.held) \in Nat
      BY <3>1 DEF CallType
    <3>3. Len(call.held) <= MaxDepth + 1
      <4>1. CASE call.stage \in InChain
        <5>1. Len(call.held) + call.depth = MaxDepth + 1
          BY <3>1, <4>1 DEF CallSound, Linked
        <5> HIDE DEF call
        <5>2. QED
          BY <3>2, <5>1, OpenAssumption
      <4>2. CASE call.stage \notin InChain
        <5>1. call.held = <<>>
          BY <3>1, <3>2, <4>2 DEF CallSound, InChain, Stages
        <5>2. QED
          BY <5>1, OpenAssumption
      <4>3. QED
        BY <4>1, <4>2
    <3>4. QED
      BY <3>1, <3>2, <3>3 DEF CallSound
  <2>2. CliTypeOK
    <3>1. ASSUME NEW p \in Task
          PROVE  /\ run[p].at <= run[p].end /\ run[p].sent <= Len(run[p].took)
                 /\ run[p].file \in Task \cup {None}
      BY RunFacts DEF CliInv, RunSound, RunType
    <3>2. name.dest \in Task \cup {Old} /\ name.partial \in Task \cup {None}
      BY DEF CliInv, CliTyped, StoresTyped, NameType
    <3>3. QED
      BY <3>1, <3>2 DEF CliTypeOK
  <2>3. HandleTypeOK
    BY DEF SessionInv, HandleInv, HandleTyped, HandleTypeOK, NodeType
  <2>4. QED
    BY <2>1, <2>2, <2>3 DEF TypeOK
<1>2. QED
  BY <1>1, CliInvHolds, PTL

(***************************************************************************)
(* What the commands read and write                                        *)
(***************************************************************************)
(* No other command runs beside one that writes the image.                 *)
WritesAlone(j) ==
    \A p, q \in Task : j[p].verb = "write" /\ j[q].verb \in {"read", "write"} => p = q
Alone == \A s \in Scenarios : WritesAlone(s.job)

(* What is not written stays as it was.                                    *)
Quiet == (\A t \in Task : job[t].verb # "write") => guest = Guest

Ranged(p) ==
    /\ InRange(p) /\ From(p) \in Nat /\ Length(p) \in Nat
    /\ From(p) + Length(p) <= Len(Guest)

(* The pipe of a read holds the bytes of its range as far as they went.    *)
Streamed(p) ==
    /\ Ranged(p) /\ Len(run[p].took) <= Length(p)
    /\ \A i \in 1 .. Len(run[p].took) : run[p].took[i] = Guest[From(p) + i]
StreamSound(p) ==
    ReadsTo(p, "stdout") =>
        /\ run[p].took # <<>> \/ run[p].result = "ok" => Streamed(p)
        /\ run[p].result = "ok" => Len(run[p].took) = Length(p) /\ run[p].sent = Length(p)

(* The guest of a write: the bytes taken so far, and the rest as it was.   *)
WriteSound(p) ==
    LET r == run[p]
        offset == job[p].offset
    IN  job[p].verb = "write" =>
        /\ r.stage \in {"start", "opening"} \/ r.result = "refused" => guest = Guest
        /\ r.stage \in {"copyIn", "flush"} =>
               \A i \in 1 .. Len(Guest) :
                   guest[i] = IF i \in offset + 1 .. r.at THEN r.took[i - offset] ELSE Guest[i]
        /\ \A i \in 1 .. Len(Guest) :
               \/ guest[i] = Guest[i]
               \/ i \in offset + 1 .. r.end /\ guest[i] = r.took[i - offset]
        /\ r.result = "ok" => flushed /\ SubSeq(guest, offset + 1, r.at) = r.took

BytesInv ==
    /\ WritesAlone(job) /\ Quiet
    /\ \A p \in Task : StreamSound(p) /\ WriteSound(p)

LEMMA RangesStay ==
    ASSUME UNCHANGED <<files, job>>
    PROVE  /\ \A p : /\ From(p)' = From(p) /\ Length(p)' = Length(p)
                     /\ InRange(p)' = InRange(p) /\ Slice(p)' = Slice(p)
                     /\ Ranged(p)' = Ranged(p)
           /\ \A p, to : ReadsTo(p, to)' = ReadsTo(p, to)
  BY DEF From, Length, InRange, Slice, Ranged, ReadsTo, VirtualSize, HeaderOf

(* A reader reads the disk as it was.                                      *)
LEMMA ReadersSeeGuest ==
    ASSUME BytesInv, NEW p \in Task, job[p].verb = "read"
    PROVE  guest = Guest
<1>1. ASSUME NEW t \in Task PROVE job[t].verb # "write"
  BY DEF BytesInv, WritesAlone
<1>2. QED
  BY <1>1 DEF BytesInv, Quiet

(* A part of the guest, byte by byte.                                      *)
LEMMA PartIs ==
    ASSUME NEW s \in Seq(Nat), NEW a \in Nat, NEW b \in Nat, a <= b, b <= Len(s),
           NEW t \in Seq(Nat), Len(t) = b - a, \A i \in 1 .. b - a : t[i] = s[a + i]
    PROVE  SubSeq(s, a + 1, b) = t
<1> DEFINE part == SubSeq(s, a + 1, b)
<1>1. /\ part \in Seq(Nat) /\ Len(part) = b - a
      /\ \A i \in 1 .. b - a : part[i] = s[a + i]
  BY Between
<1> HIDE DEF part
<1>2. Len(part) = Len(t) /\ \A i \in 1 .. Len(part) : part[i] = t[i]
  BY <1>1
<1>3. part = t
  BY <1>1, <1>2, SeqEqual
<1>4. QED
  BY <1>3 DEF part

LEMMA SliceFacts ==
    ASSUME NEW p \in Task, Ranged(p)
    PROVE  /\ Slice(p) \in Seq(Nat) /\ Len(Slice(p)) = Length(p)
           /\ \A i \in 1 .. Length(p) : Slice(p)[i] = Guest[From(p) + i]
<1> DEFINE last == From(p) + Length(p)
<1>1. /\ From(p) \in Nat /\ last \in Nat /\ Guest \in Seq(Nat)
      /\ From(p) <= last /\ last <= Len(Guest) /\ last - From(p) = Length(p)
  BY TransferAssumption DEF Ranged
<1>2. Slice(p) = SubSeq(Guest, From(p) + 1, last)
  BY DEF Slice
<1> HIDE DEF last
<1> DEFINE part == SubSeq(Guest, From(p) + 1, last)
<1>3. /\ part \in Seq(Nat) /\ Len(part) = last - From(p)
      /\ \A i \in 1 .. last - From(p) : part[i] = Guest[From(p) + i]
  BY <1>1, Between
<1> HIDE DEF part
<1>4. QED
  BY <1>1, <1>2, <1>3 DEF part

(* A step touches the guest only if some command writes.                   *)
LEMMA ActsOnGuest ==
    ASSUME CliTyped, NEW p \in Task, Acts(p), job[p].verb # "write"
    PROVE  UNCHANGED guest
<1>1. ~At(p, "copyIn") /\ ~At(p, "flush")
  BY RunFacts DEF RunSound, At
<1>2. CASE CommandStep(p)
  BY <1>1, <1>2 DEF CommandStep, NotOpened, StartRead, Stream, FlushOut, CreatePartial, CopyChunk,
              SetLength, SyncAll, Rename, RenameFails, Cleanup, StartWrite, CopyIn,
              EndOfInput, Flush, KeepGuest
<1>3. CASE CommandFails(p)
  BY <1>1, <1>3 DEF CommandFails, StreamFails, RenameFails, CopyFails, InputFails, CopyInFails,
                    KeepGuest
<1>4. CASE BeginCommand(p) \/ Kill(p)
  BY <1>4 DEF BeginCommand, Kill, KeepGuest
<1>5. QED
  BY <1>2, <1>3, <1>4 DEF Acts

LEMMA QuietStays ==
    ASSUME CliTyped, Quiet, [Next]_vars
    PROVE  Quiet'
<1>1. UNCHANGED job
  BY StepCases
<1>2. ASSUME \A t \in Task : job[t].verb # "write" PROVE UNCHANGED guest
  BY <1>2, StepCases, ActsOnGuest DEF cliVars, InputChanges, PowerLoss, KeepGuest
<1>3. QED
  BY <1>1, <1>2 DEF Quiet
LEMMA OthersStay ==
    ASSUME CliTyped, NEW p \in Task, Acts(p)
    PROVE  \A q \in Task \ {p} : run'[q] = run[q]
<1>1. CASE BeginCommand(p)
  BY <1>1 DEF BeginCommand, Moved, CliTyped
<1>2. CASE CommandStep(p) \/ CommandFails(p) \/ Kill(p)
  BY <1>2, NotBackToOpening
<1>3. QED
  BY <1>1, <1>2 DEF Acts

LEMMA StreamStays ==
    ASSUME CliTyped, NEW p \in Task, StreamSound(p), UNCHANGED <<files, job>>,
           run'[p].took = run[p].took, run'[p].sent = run[p].sent,
           run'[p].result # "ok" \/ run'[p].result = run[p].result
    PROVE  StreamSound(p)'
<1>1. Ranged(p)' = Ranged(p) /\ From(p)' = From(p) /\ Length(p)' = Length(p)
      /\ ReadsTo(p, "stdout")' = ReadsTo(p, "stdout")
  BY RangesStay
<1>2. Streamed(p)' <=> Streamed(p)
  BY <1>1 DEF Streamed
<1>3. QED
  BY <1>1, <1>2 DEF StreamSound

LEMMA StreamChunk ==
    ASSUME CliTyped, BytesInv, NEW p \in Task, Stream(p), UNCHANGED <<files, job>>
    PROVE  StreamSound(p)'
<1> DEFINE handed == run[p].took \o ReadChunk(p)
<1>1. run'[p].took = handed /\ run'[p].result = run[p].result
  BY DEF Stream, CliTyped, RunType
<1>2. /\ run[p] \in RunType /\ RunSound(p, run[p]) /\ run[p].stage = "stream" /\ More(p)
      /\ run[p].took \in Seq(Nat) /\ run[p].at \in Nat /\ run[p].end \in Nat
  BY RunFacts DEF Stream, At, RunType
<1>3. /\ Ranged(p) /\ ReadsTo(p, "stdout") /\ From(p) <= run[p].at
      /\ run[p].end = From(p) + Length(p) /\ run[p].end <= Len(Guest)
      /\ Len(run[p].took) = run[p].at - From(p) /\ run[p].result = "none"
  BY <1>2 DEF RunSound, Ranged
<1>4. /\ ReadChunk(p) \in Seq(Nat) /\ Len(ReadChunk(p)) \in Nat
      /\ run[p].at + Len(ReadChunk(p)) <= run[p].end
      /\ \A i \in 1 .. Len(ReadChunk(p)) : ReadChunk(p)[i] = Guest[run[p].at + i]
  BY <1>2, <1>3, ChunkFacts, ReadersSeeGuest DEF ReadsTo
<1>5. /\ Len(handed) = Len(run[p].took) + Len(ReadChunk(p))
      /\ \A i \in 1 .. Len(run[p].took) + Len(ReadChunk(p)) :
             handed[i] = IF i <= Len(run[p].took) THEN run[p].took[i]
                         ELSE ReadChunk(p)[i - Len(run[p].took)]
  BY <1>2, <1>4, ConcatProperties
<1>6. run[p].took # <<>> => Streamed(p)
  BY <1>3 DEF BytesInv, StreamSound
<1>7. From(p) \in Nat /\ Length(p) \in Nat
  BY <1>3 DEF Ranged
<1> HIDE DEF handed
<1>8. Len(handed) <= Length(p)
  <2>1. \A at, from, k, n \in Nat : at + k <= from + n => (at - from) + k <= n
    OBVIOUS
  <2>2. run[p].at + Len(ReadChunk(p)) <= From(p) + Length(p)
    BY <1>3, <1>4
  <2>3. (run[p].at - From(p)) + Len(ReadChunk(p)) <= Length(p)
    BY <1>2, <1>4, <1>7, <2>1, <2>2
  <2>4. QED
    BY <1>3, <1>5, <2>3
<1>9. ASSUME NEW i \in 1 .. Len(handed) PROVE handed[i] = Guest[From(p) + i]
  <2>1. Len(run[p].took) \in Nat
    BY <1>2
  <2>2. CASE i <= Len(run[p].took)
    <3>1. i \in 1 .. Len(run[p].took) /\ run[p].took # <<>>
      BY <1>5, <2>1, <2>2
    <3>2. run[p].took[i] = Guest[From(p) + i]
      BY <1>6, <3>1 DEF Streamed
    <3>3. QED
      BY <1>5, <2>2, <3>2
  <2>3. CASE ~(i <= Len(run[p].took))
    <3>1. i - Len(run[p].took) \in 1 .. Len(ReadChunk(p)) /\ i \in Nat
      BY <1>4, <1>5, <2>1, <2>3
    <3>2. run[p].at + (i - Len(run[p].took)) = From(p) + i
      <4>1. \A at, from, k \in Nat : at + (k - (at - from)) = from + k
        OBVIOUS
      <4>2. run[p].at + (i - (run[p].at - From(p))) = From(p) + i
        BY <1>2, <1>7, <3>1, <4>1
      <4>3. QED
        BY <1>3, <4>2
    <3>3. ReadChunk(p)[i - Len(run[p].took)] = Guest[From(p) + i]
      BY <1>4, <3>1, <3>2
    <3>4. QED
      BY <1>5, <2>3, <3>3
  <2>4. QED
    BY <2>2, <2>3
<1>10. Streamed(p)'
  BY <1>1, <1>3, <1>8, <1>9, RangesStay DEF Streamed
<1>11. QED
  BY <1>1, <1>3, <1>10 DEF StreamSound

LEMMA StreamEnds ==
    ASSUME CliTyped, BytesInv, NEW p \in Task, FlushOut(p), UNCHANGED <<files, job>>
    PROVE  StreamSound(p)'
<1>1. run'[p].took = run[p].took /\ run'[p].sent = Len(run[p].took)
  BY DEF FlushOut, CliTyped, RunType
<1>2. /\ run[p].at \in Nat /\ run[p].end \in Nat /\ run[p].took \in Seq(Nat)
      /\ run[p].stage = "stream" /\ RunSound(p, run[p]) /\ ~More(p)
  BY RunFacts DEF FlushOut, At, RunType
<1>3. /\ Ranged(p) /\ run[p].at <= run[p].end /\ run[p].end = From(p) + Length(p)
      /\ Len(run[p].took) = run[p].at - From(p) /\ ReadsTo(p, "stdout")
  BY <1>2 DEF RunSound, Ranged
<1>4. From(p) \in Nat /\ Length(p) \in Nat
  BY <1>3 DEF Ranged
<1>5. Len(run[p].took) = Length(p)
  BY <1>2, <1>3, <1>4 DEF More
<1>6. Streamed(p)
  <2>1. CASE run[p].took = <<>>
    BY <1>3, <1>4, <1>5, <2>1 DEF Streamed
  <2>2. CASE run[p].took # <<>>
    BY <1>3, <2>2 DEF BytesInv, StreamSound
  <2>3. QED
    BY <2>1, <2>2
<1>7. Streamed(p)'
  BY <1>1, <1>6, RangesStay DEF Streamed
<1>8. QED
  BY <1>1, <1>5, <1>7, RangesStay DEF StreamSound

(* What a read to stdout does besides moves no byte.                       *)
LEMMA StreamSoundStays ==
    ASSUME CliTyped, BytesInv, NEW p \in Task, Acts(p), UNCHANGED <<files, job>>
    PROVE  StreamSound(p)'
<1> SUFFICES ASSUME ReadsTo(p, "stdout") PROVE StreamSound(p)'
  BY RangesStay DEF StreamSound
<1>1. run[p] \in RunType /\ RunSound(p, run[p]) /\ StreamSound(p) /\ run \in [Task -> RunType]
  BY RunFacts DEF BytesInv, CliTyped
<1>2. run[p].stage \in {"start", "opening", "stream", "returned", "dead"}
  BY <1>1 DEF RunType, CliStages, RunSound, ReadsTo
<1>3. ASSUME NEW result \in Outcomes \ {"ok"}, Return(p, result) PROVE StreamSound(p)'
  <2>1. run'[p].took = run[p].took /\ run'[p].sent = run[p].sent /\ run'[p].result = result
    BY <1>1, <1>3 DEF Return, RunType
  <2>2. QED
    BY <1>1, <2>1, StreamStays
<1>4. CASE NotOpened(p) \/ StreamFails(p) \/ InputFails(p)
  BY <1>3, <1>4 DEF NotOpened, StreamFails, InputFails, Outcomes
<1>5. CASE Kill(p) \/ BeginCommand(p)
  <2>1. run'[p].took = run[p].took /\ run'[p].sent = run[p].sent
        /\ run'[p].result = run[p].result
    BY <1>1, <1>5 DEF Kill, BeginCommand, Moved, RunType
  <2>2. QED
    BY <1>1, <2>1, StreamStays
<1>6. CASE StartRead(p)
  <2>1. CASE Return(p, "refused")
    BY <1>3, <2>1 DEF Outcomes
  <2>2. CASE ~Return(p, "refused")
    <3>1. run'[p].took = run[p].took /\ run'[p].sent = run[p].sent
          /\ run'[p].result = run[p].result
      BY <1>1, <1>6, <2>2 DEF StartRead, RunType
    <3>2. QED
      BY <1>1, <3>1, StreamStays
  <2>3. QED
    BY <2>1, <2>2
<1>7. CASE Stream(p) \/ FlushOut(p)
  BY <1>7, StreamChunk, StreamEnds
<1>8. QED
  BY <1>2, <1>4, <1>5, <1>6, <1>7
     DEF Acts, CommandStep, CommandFails, CreatePartial, CopyChunk, SetLength, SyncAll, Rename,
         RenameFails, Cleanup, StartWrite, Opened, ReadsTo, CopyIn, EndOfInput, Flush, CopyFails,
         CopyInFails, At
(* A write that moves no byte.                                             *)
LEMMA WriteRests ==
    ASSUME NEW p \in Task, WriteSound(p), UNCHANGED <<guest, job>>, job[p].verb = "write",
           run'[p].at = run[p].at, run'[p].end = run[p].end, run'[p].took = run[p].took,
           run'[p].stage \in {"start", "opening"} \/ run'[p].result = "refused" => guest = Guest,
           run'[p].stage \in {"copyIn", "flush"} => run[p].stage \in {"copyIn", "flush"},
           run'[p].result = "ok" =>
               flushed' /\ SubSeq(guest, job[p].offset + 1, run[p].at) = run[p].took
    PROVE  WriteSound(p)'
  BY DEF WriteSound

(* The guest after the next bytes of the input, or a first part of them.   *)
LEMMA NextBytes ==
    ASSUME Given, CliTyped, NEW p \in Task, WriteSound(p), At(p, "copyIn"),
           NEW bytes \in NextInput(p), NEW part \in Seq(Nat), Len(part) <= Len(bytes),
           \A i \in 1 .. Len(part) : part[i] = bytes[i],
           NEW next, next = Placed(guest, run[p].at, part)
    PROVE  \A i \in 1 .. Len(Guest) :
               next[i] = IF i \in job[p].offset + 1 .. run[p].at + Len(part)
                         THEN Took(p, bytes)[i - job[p].offset] ELSE Guest[i]
<1> DEFINE at == run[p].at
           offset == job[p].offset
           done == at - offset
           took == run[p].took
           taken == Took(p, bytes)
<1>1. /\ job[p].verb = "write" /\ offset \in Nat /\ at \in Nat /\ offset <= at
      /\ run[p].end <= Len(Guest) /\ run[p].end \in Nat
      /\ guest \in Seq(Nat) /\ Len(guest) = Len(Guest) /\ Len(Guest) \in Nat
  BY InFacts, TransferAssumption
<1>2. /\ done \in Nat /\ bytes \in Seq(Nat) /\ at + Len(bytes) <= run[p].end
      /\ \A i \in 1 .. done : taken[i] = took[i]
      /\ \A i \in 1 .. Len(bytes) : taken[done + i] = bytes[i]
  BY InputFacts
<1>3. \A i \in 1 .. Len(Guest) :
          guest[i] = IF i \in offset + 1 .. at THEN took[i - offset] ELSE Guest[i]
  BY <1>1 DEF WriteSound, At
<1> HIDE DEF at, offset, taken, took
<1>4. Len(part) \in Nat /\ Len(bytes) \in Nat /\ at + Len(part) <= Len(guest)
  <2>1. Len(part) \in Nat /\ Len(bytes) \in Nat
    BY <1>2
  <2>2. \A a, k, m, e, n \in Nat : k <= m /\ a + m <= e /\ e <= n => a + k <= n
    OBVIOUS
  <2>3. at + Len(part) <= Len(Guest)
    BY <1>1, <1>2, <2>1, <2>2
  <2>4. QED
    BY <1>1, <2>1, <2>3
<1>5. \A i \in 1 .. Len(Guest) :
          next[i] = IF i \in at + 1 .. at + Len(part) THEN part[i - at] ELSE guest[i]
  <2>1. \A i \in 1 .. Len(guest) :
            Placed(guest, at, part)[i] =
                IF i \in at + 1 .. at + Len(part) THEN part[i - at] ELSE guest[i]
    BY <1>1, <1>4, GuestKeepsLength
  <2>2. next = Placed(guest, at, part)
    BY DEF at
  <2>3. QED
    BY <1>1, <2>1, <2>2
<1>6. ASSUME NEW i \in 1 .. Len(Guest)
      PROVE  next[i] = IF i \in offset + 1 .. at + Len(part) THEN taken[i - offset] ELSE Guest[i]
  <2>0. i \in Nat
    BY <1>1
  <2>1. CASE i \in at + 1 .. at + Len(part)
    <3>1. i - at \in 1 .. Len(part) /\ i - at \in 1 .. Len(bytes) /\ done + (i - at) = i - offset
      <4>1. i - at \in 1 .. Len(part)
        BY <1>1, <1>4, <2>0, <2>1
      <4>2. \A k, m, n \in Nat : n \in 1 .. k /\ k <= m => n \in 1 .. m
        OBVIOUS
      <4>3. i - at \in 1 .. Len(bytes)
        BY <1>4, <4>1, <4>2
      <4>4. done + (i - at) = i - offset
        BY <1>1, <2>0
      <4>5. QED
        BY <4>1, <4>3, <4>4
    <3>2. i \in offset + 1 .. at + Len(part)
      BY <1>1, <1>4, <2>0, <2>1
    <3>3. part[i - at] = bytes[i - at] /\ taken[i - offset] = bytes[i - at]
      BY <1>2, <3>1
    <3>4. QED
      BY <1>5, <2>1, <3>2, <3>3
  <2>2. CASE i \in offset + 1 .. at
    <3>1. i - offset \in 1 .. done
      BY <1>1, <2>0, <2>2
    <3>2. i \notin at + 1 .. at + Len(part) /\ i \in offset + 1 .. at + Len(part)
      BY <1>1, <1>4, <2>0, <2>2
    <3>3. next[i] = took[i - offset]
      BY <1>3, <1>5, <2>2, <3>2
    <3>4. QED
      BY <1>2, <3>1, <3>2, <3>3
  <2>3. CASE i \notin offset + 1 .. at /\ i \notin at + 1 .. at + Len(part)
    <3>1. i \notin offset + 1 .. at + Len(part)
      BY <1>1, <1>4, <2>0, <2>3
    <3>2. QED
      BY <1>3, <1>5, <2>3, <3>1
  <2>4. QED
    BY <2>1, <2>2, <2>3
<1>7. QED
  BY <1>6 DEF at, offset, taken

LEMMA WriteChunk ==
    ASSUME Given, CliTyped, NEW p \in Task, WriteSound(p), CopyIn(p), UNCHANGED <<files, job>>,
           CliTyped'
    PROVE  WriteSound(p)'
<1>1. PICK bytes \in NextInput(p) \ {<<>>} :
          /\ guest' = Placed(guest, run[p].at, bytes)
          /\ run' = [run EXCEPT ![p] = [run[p] EXCEPT !.at = @ + Len(bytes),
                                                      !.took = Took(p, bytes)]]
  BY DEF CopyIn
<1>2. At(p, "copyIn") /\ run[p] \in RunType /\ run[p].result = "none" /\ job[p].offset \in Nat
      /\ run[p].at \in Nat /\ job[p].offset <= run[p].at /\ run[p].end \in Nat
  BY InFacts DEF CopyIn
<1>3. bytes \in Seq(Nat) /\ run[p].at + Len(bytes) <= run[p].end /\ Len(bytes) <= Len(bytes)
  <2>1. bytes \in Seq(Nat) /\ run[p].at + Len(bytes) <= run[p].end
    BY <1>2, InputFacts
  <2>2. QED
    BY <2>1
<1>4. \A i \in 1 .. Len(Guest) :
          guest'[i] = IF i \in job[p].offset + 1 .. run[p].at + Len(bytes)
                      THEN Took(p, bytes)[i - job[p].offset] ELSE Guest[i]
  BY <1>1, <1>2, <1>3, NextBytes
<1>5. /\ run'[p].at = run[p].at + Len(bytes) /\ run'[p].took = Took(p, bytes)
      /\ run'[p].end = run[p].end /\ run'[p].stage = "copyIn" /\ run'[p].result = "none"
  BY <1>1, <1>2 DEF CliTyped, RunType, At
<1>6. \A i \in 1 .. Len(Guest) :
          i \in job[p].offset + 1 .. run'[p].at => i \in job[p].offset + 1 .. run'[p].end
  BY <1>2, <1>3, <1>5
<1>7. QED
  BY <1>4, <1>5, <1>6 DEF WriteSound

LEMMA WriteBreaks ==
    ASSUME Given, CliTyped, NEW p \in Task, WriteSound(p), CopyInFails(p),
           UNCHANGED <<files, job>>
    PROVE  WriteSound(p)'
<1>1. PICK bytes \in NextInput(p) : \E part \in Prefixes(bytes) :
          /\ guest' = IF Fits(p, bytes) THEN Placed(guest, run[p].at, part) ELSE guest
          /\ run' = [run EXCEPT ![p] = [run[p] EXCEPT !.stage = "returned", !.result = "failed",
                                                      !.took = Took(p, bytes)]]
  BY DEF CopyInFails
<1>2. PICK part \in Prefixes(bytes) :
          /\ guest' = IF Fits(p, bytes) THEN Placed(guest, run[p].at, part) ELSE guest
          /\ run' = [run EXCEPT ![p] = [run[p] EXCEPT !.stage = "returned", !.result = "failed",
                                                      !.took = Took(p, bytes)]]
  BY <1>1
<1>3. At(p, "copyIn") /\ run[p] \in RunType /\ job[p].offset \in Nat
      /\ run[p].at \in Nat /\ job[p].offset <= run[p].at /\ run[p].end \in Nat
  BY InFacts DEF CopyInFails
<1>4. bytes \in Seq(Nat) /\ run[p].at + Len(bytes) <= run[p].end
  BY <1>3, InputFacts
<1>5. \E landed \in Seq(Nat) :
          /\ Len(landed) <= Len(bytes) /\ \A i \in 1 .. Len(landed) : landed[i] = bytes[i]
          /\ guest' = Placed(guest, run[p].at, landed)
  <2>1. CASE Fits(p, bytes)
    BY <1>2, <1>4, <2>1, PrefixesAreParts
  <2>2. CASE ~Fits(p, bytes)
    <3>1. <<>> \in Seq(Nat) /\ Len(<<>>) <= Len(bytes) /\ \A i \in 1 .. Len(<<>>) : <<>>[i] = bytes[i]
      BY <1>4
    <3>2. guest' = Placed(guest, run[p].at, <<>>)
      BY <1>2, <2>2 DEF Placed
    <3>3. QED
      BY <3>1, <3>2
  <2>3. QED
    BY <2>1, <2>2
<1>6. PICK landed \in Seq(Nat) :
          /\ Len(landed) <= Len(bytes) /\ \A i \in 1 .. Len(landed) : landed[i] = bytes[i]
          /\ guest' = Placed(guest, run[p].at, landed)
  BY <1>5
<1>7. \A i \in 1 .. Len(Guest) :
          guest'[i] = IF i \in job[p].offset + 1 .. run[p].at + Len(landed)
                      THEN Took(p, bytes)[i - job[p].offset] ELSE Guest[i]
  <2> DEFINE next == Placed(guest, run[p].at, landed)
  <2>1. \A i \in 1 .. Len(Guest) :
            next[i] = IF i \in job[p].offset + 1 .. run[p].at + Len(landed)
                      THEN Took(p, bytes)[i - job[p].offset] ELSE Guest[i]
    <3>1. At(p, "copyIn") /\ bytes \in NextInput(p)
      BY <1>1, <1>3
    <3>2. /\ landed \in Seq(Nat) /\ Len(landed) <= Len(bytes)
          /\ \A i \in 1 .. Len(landed) : landed[i] = bytes[i]
      BY <1>6
    <3>3. next = Placed(guest, run[p].at, landed)
      OBVIOUS
    <3> HIDE DEF next
    <3>4. QED
      BY <3>1, <3>2, <3>3, NextBytes
  <2>2. guest' = next
    BY <1>6
  <2> HIDE DEF next
  <2>3. QED
    BY <2>1, <2>2
<1>8. /\ run'[p].took = Took(p, bytes) /\ run'[p].end = run[p].end
      /\ run'[p].stage = "returned" /\ run'[p].result = "failed"
  BY <1>2, <1>3 DEF CliTyped, RunType
<1>9. \A i \in 1 .. Len(Guest) :
          i \in job[p].offset + 1 .. run[p].at + Len(landed) =>
              i \in job[p].offset + 1 .. run'[p].end
  <2>1. Len(landed) \in Nat /\ Len(bytes) \in Nat
    BY <1>4, <1>6
  <2>2. run[p].at + Len(landed) <= run[p].end
    <3>1. \A a, k, m, e \in Nat : k <= m /\ a + m <= e => a + k <= e
      OBVIOUS
    <3>2. QED
      BY <1>3, <1>4, <1>6, <2>1, <3>1
  <2>3. QED
    BY <1>3, <1>8, <2>1, <2>2
<1>10. QED
  BY <1>7, <1>8, <1>9 DEF WriteSound

(* A write reports success only after its last byte and a flush.           *)
LEMMA WriteEnds ==
    ASSUME Given, CliTyped, NEW p \in Task, WriteSound(p), At(p, "flush")
    PROVE  SubSeq(guest, job[p].offset + 1, run[p].at) = run[p].took
<1> DEFINE at == run[p].at
           offset == job[p].offset
           took == run[p].took
<1>1. /\ job[p].verb = "write" /\ offset \in Nat /\ at \in Nat /\ offset <= at
      /\ took \in Seq(Nat) /\ at <= run[p].end /\ run[p].end <= Len(Guest) /\ run[p].end \in Nat
      /\ guest \in Seq(Nat) /\ Len(guest) = Len(Guest) /\ Len(Guest) \in Nat
      /\ RunSound(p, run[p])
  BY InFacts, TransferAssumption
<1>2. Len(took) = at - offset
  BY <1>1 DEF RunSound, At
<1>3. \A i \in 1 .. Len(Guest) :
          guest[i] = IF i \in offset + 1 .. at THEN took[i - offset] ELSE Guest[i]
  BY <1>1 DEF WriteSound, At
<1> HIDE DEF at, offset, took
<1>4. at <= Len(guest)
  BY <1>1 DEF at
<1>5. ASSUME NEW i \in 1 .. at - offset PROVE took[i] = guest[offset + i]
  <2>1. /\ offset + i \in 1 .. Len(Guest) /\ offset + i \in offset + 1 .. at
        /\ (offset + i) - offset = i
    BY <1>1, <1>4
  <2>2. QED
    BY <1>3, <2>1
<1>6. QED
  BY <1>1, <1>2, <1>4, <1>5, PartIs DEF at, offset, took

LEMMA WriteSoundStays ==
    ASSUME Given, CliTyped, NEW p \in Task, WriteSound(p), job[p].verb = "write", Acts(p),
           UNCHANGED <<files, job>>, CliTyped'
    PROVE  WriteSound(p)'
<1>1. run[p] \in RunType /\ RunSound(p, run[p]) /\ run \in [Task -> RunType]
  BY RunFacts DEF CliTyped
<1>2. /\ run[p].stage \in {"start", "opening", "copyIn", "flush", "returned", "dead"}
      /\ run[p].result # "none" => run[p].stage \in {"returned", "dead"}
  BY <1>1 DEF RunType, CliStages, RunSound, ReadsTo
<1>3. ASSUME NEW result \in Outcomes, Return(p, result), UNCHANGED guest,
             result = "refused" => At(p, "opening"), result = "ok" => At(p, "flush") /\ flushed'
      PROVE  WriteSound(p)'
  <2>1. /\ run'[p].at = run[p].at /\ run'[p].end = run[p].end /\ run'[p].took = run[p].took
        /\ run'[p].stage = "returned" /\ run'[p].result = result
    BY <1>1, <1>3 DEF Return, RunType
  <2>2. result = "refused" => guest = Guest
    BY <1>3 DEF WriteSound, At
  <2>3. result = "ok" => SubSeq(guest, job[p].offset + 1, run[p].at) = run[p].took
    BY <1>3, WriteEnds
  <2>4. QED
    BY <1>3, <2>1, <2>2, <2>3, WriteRests
<1>4. CASE NotOpened(p) \/ InputFails(p)
  BY <1>3, <1>4 DEF NotOpened, InputFails, Opened, Outcomes, KeepGuest
<1>5. CASE Kill(p) \/ BeginCommand(p) \/ EndOfInput(p)
  <2>1. /\ run'[p].at = run[p].at /\ run'[p].end = run[p].end /\ run'[p].took = run[p].took
        /\ run'[p].result = run[p].result /\ UNCHANGED guest /\ run[p].result = "none"
        /\ \/ run'[p].stage = "dead"
           \/ run'[p].stage = "opening" /\ run[p].stage = "start"
           \/ run'[p].stage = "flush" /\ run[p].stage = "copyIn"
    BY <1>1, <1>2, <1>5 DEF Kill, Ended, BeginCommand, EndOfInput, Moved, At, RunType, KeepGuest
  <2>2. run[p].stage = "start" => guest = Guest
    BY DEF WriteSound
  <2>3. QED
    BY <2>1, <2>2, WriteRests
<1>6. CASE StartWrite(p)
  <2>1. CASE Return(p, "refused")
    BY <1>3, <1>6, <2>1 DEF StartWrite, Opened, Outcomes, KeepGuest
  <2>2. CASE ~Return(p, "refused")
    <3> DEFINE offset == job[p].offset
    <3>1. /\ run'[p].at = offset /\ run'[p].stage = "copyIn" /\ run'[p].result = run[p].result
          /\ UNCHANGED guest /\ At(p, "opening") /\ run[p].result = "none"
      BY <1>1, <1>2, <1>6, <2>2 DEF StartWrite, Opened, At, RunType, KeepGuest
    <3>2. guest = Guest /\ offset \in Nat
      BY <3>1 DEF WriteSound, At, Given, JobTyped
    <3>3. \A i \in 1 .. Len(Guest) : i \notin offset + 1 .. offset
      BY <3>2
    <3>4. QED
      BY <3>1, <3>2, <3>3 DEF WriteSound
  <2>3. QED
    BY <2>1, <2>2
<1>7. CASE CopyIn(p)
  BY <1>7, WriteChunk
<1>8. CASE CopyInFails(p)
  BY <1>8, WriteBreaks
<1>9. CASE Flush(p)
  <2>1. At(p, "flush") /\ UNCHANGED guest
    BY <1>9 DEF Flush
  <2>2. CASE flushed' = TRUE /\ Return(p, "ok")
    BY <1>3, <2>1, <2>2 DEF Outcomes
  <2>3. CASE Return(p, "failed")
    BY <1>3, <2>1, <2>3 DEF Outcomes
  <2>4. QED
    BY <1>9, <2>2, <2>3 DEF Flush
<1>10. QED
  BY <1>2, <1>4, <1>5, <1>6, <1>7, <1>8, <1>9
     DEF Acts, CommandStep, CommandFails, CreatePartial, CopyChunk, SetLength, SyncAll, Rename,
         RenameFails, Cleanup, StartRead, Opened, Stream, FlushOut, StreamFails, CopyFails, At
LEMMA BytesStay ==
    ASSUME SessionInv, CliInv, BytesInv, [Next]_vars
    PROVE  BytesInv'
<1>1. /\ UNCHANGED <<files, job>> /\ CliTyped /\ CliTyped' /\ OpenInv /\ Given
      /\ \/ UNCHANGED cliVars
         \/ \E p \in Task : IsCommand(p) /\ Acts(p)
         \/ InputChanges
         \/ PowerLoss
  BY StepCases, TypedStays DEF SessionInv, CliInv, OpenInv
<1>2. WritesAlone(job)' /\ Quiet'
  BY <1>1, QuietStays DEF BytesInv, WritesAlone
<1>3. ASSUME NEW p \in Task PROVE StreamSound(p)' /\ WriteSound(p)'
  <2>0. StreamSound(p) /\ WriteSound(p)
    BY DEF BytesInv
  <2>1. CASE UNCHANGED <<run, guest, flushed>>
    <3>1. StreamSound(p)'
      BY <1>1, <2>0, <2>1, StreamStays
    <3>2. WriteSound(p)'
      BY <1>1, <2>0, <2>1 DEF WriteSound
    <3>3. QED
      BY <3>1, <3>2
  <2>2. ASSUME NEW q \in Task, IsCommand(q), Acts(q) PROVE StreamSound(p)' /\ WriteSound(p)'
    <3>1. CASE p = q
      <4>1. StreamSound(p)'
        BY <1>1, <2>2, <3>1, StreamSoundStays
      <4>2. CASE job[p].verb = "write"
        BY <1>1, <2>0, <2>2, <3>1, <4>1, <4>2, WriteSoundStays
      <4>3. CASE job[p].verb # "write"
        BY <1>1, <4>1, <4>3 DEF WriteSound
      <4>4. QED
        BY <4>2, <4>3
    <3>2. CASE p # q
      <4>1. run'[p] = run[p]
        BY <1>1, <2>2, <3>2, OthersStay
      <4>2. StreamSound(p)'
        BY <1>1, <2>0, <4>1, StreamStays
      <4>3. job[p].verb # "write"
        BY <2>2, <3>2 DEF BytesInv, WritesAlone, IsCommand
      <4>4. WriteSound(p)'
        BY <1>1, <4>3 DEF WriteSound
      <4>5. QED
        BY <4>2, <4>4
    <3>3. QED
      BY <3>1, <3>2
  <2>3. CASE PowerLoss
    <3>1. run'[p].took = run[p].took /\ run'[p].sent = run[p].sent
          /\ run'[p].result = run[p].result
      BY <1>1, <2>3 DEF PowerLoss, CliTyped, RunType
    <3>2. StreamSound(p)'
      BY <1>1, <2>0, <3>1, StreamStays
    <3>3. PICK q \in Task : run[q].stage \in OnPartial
      BY <2>3 DEF PowerLoss
    <3>4. RunSound(q, run[q])
      BY <1>1, RunFacts
    <3>5. job[q].verb = "read"
      BY <3>3, <3>4 DEF RunSound, ReadsTo, OnPartial
    <3>6. job[p].verb # "write"
      BY <3>5 DEF BytesInv, WritesAlone
    <3>7. WriteSound(p)'
      BY <1>1, <3>6 DEF WriteSound
    <3>8. QED
      BY <3>2, <3>7
  <2>4. QED
    BY <1>1, <2>1, <2>2, <2>3 DEF cliVars, InputChanges
<1>4. QED
  BY <1>2, <1>3 DEF BytesInv

LEMMA BytesStart ==
    ASSUME Alone, Init
    PROVE  BytesInv
<1>1. PICK s \in Scenarios : job = s.job
  BY DEF Init
<1>2. WritesAlone(job)
  BY <1>1 DEF Alone
<1>3. /\ guest = Guest
      /\ \A p \in Task : run[p].took = <<>> /\ run[p].result = "none" /\ run[p].stage = "start"
  BY DEF Init, CliInit, IdleRun
<1>4. \A p \in Task : StreamSound(p) /\ WriteSound(p)
  BY <1>3 DEF StreamSound, WriteSound
<1>5. QED
  BY <1>2, <1>3, <1>4 DEF BytesInv, Quiet

LEMMA BytesInvHolds ==
    ASSUME Alone
    PROVE  Spec => [](SessionInv /\ CliInv /\ BytesInv)
<1>1. Init => BytesInv
  BY BytesStart
<1>2. SessionInv /\ CliInv /\ BytesInv /\ [Next]_vars => BytesInv'
  BY BytesStay
<1>3. QED
  BY <1>1, <1>2, CliInvHolds, PTL DEF Spec

(* A pipe gets a prefix of the range and all of it on success; a write     *)
(* changes no byte outside the range whose length it checked, and inside   *)
(* it only to its input's bytes (img.rs): for every disk, chunk size,      *)
(* range, input that changes meanwhile, failure and kill, as long as no    *)
(* other command runs beside a write.                                      *)
THEOREM TransfersAreExact ==
    ASSUME Alone
    PROVE  Spec => []TransferIsExact
<1>1. SessionInv /\ CliInv /\ BytesInv => TransferIsExact
  <2> SUFFICES ASSUME SessionInv, CliInv, BytesInv, NEW p \in Task
               PROVE  /\ ReadsTo(p, "stdout") /\ run[p].took # <<>> =>
                             run[p].took = SubSeq(Slice(p), 1, Len(run[p].took))
                      /\ ReadsTo(p, "stdout") /\ run[p].result = "ok" =>
                             run[p].took = Slice(p) /\ run[p].sent = Length(p)
                      /\ job[p].verb = "write" =>
                             /\ Len(guest) = Len(Guest)
                             /\ \A i \in 1 .. Len(Guest) :
                                    \/ guest[i] = Guest[i]
                                    \/ /\ i \in job[p].offset + 1 .. run[p].end
                                       /\ guest[i] = run[p].took[i - job[p].offset]
                             /\ run[p].result = "refused" => guest = Guest
                             /\ run[p].result = "ok" =>
                                    /\ flushed
                                    /\ SubSeq(guest, job[p].offset + 1, run[p].at) = run[p].took
    BY DEF TransferIsExact
  <2>1. run[p] \in RunType /\ StreamSound(p) /\ WriteSound(p)
    BY RunFacts DEF BytesInv, CliInv
  <2>2. run[p].took \in Seq(Nat) /\ Len(run[p].took) \in Nat
    BY <2>1 DEF RunType
  <2>3. ASSUME Streamed(p)
        PROVE  /\ run[p].took = SubSeq(Slice(p), 1, Len(run[p].took))
               /\ Len(run[p].took) = Length(p) => run[p].took = Slice(p)
    <3> DEFINE took == run[p].took
               slice == Slice(p)
    <3>1. /\ slice \in Seq(Nat) /\ Len(slice) = Length(p) /\ Length(p) \in Nat
          /\ \A i \in 1 .. Length(p) : slice[i] = Guest[From(p) + i]
      BY <2>3, SliceFacts DEF Streamed, Ranged
    <3>2. Len(took) <= Length(p) /\ \A i \in 1 .. Len(took) : took[i] = Guest[From(p) + i]
      BY <2>3 DEF Streamed
    <3> HIDE DEF slice, took
    <3>3. \A i \in 1 .. Len(took) : i \in 1 .. Length(p)
      BY <2>2, <3>1, <3>2 DEF took
    <3>4. \A i \in 1 .. Len(took) : took[i] = slice[i]
      BY <3>1, <3>2, <3>3
    <3> DEFINE part == SubSeq(slice, 1, Len(took))
    <3>5. /\ part \in Seq(Nat) /\ Len(part) = Len(took)
          /\ \A i \in 1 .. Len(took) : part[i] = slice[i]
      <4>1. /\ SubSeq(slice, 0 + 1, Len(took)) \in Seq(Nat)
            /\ Len(SubSeq(slice, 0 + 1, Len(took))) = Len(took) - 0
            /\ \A i \in 1 .. Len(took) - 0 :
                   SubSeq(slice, 0 + 1, Len(took))[i] = slice[0 + i]
        BY <2>2, <3>1, <3>2, Between DEF took
      <4>2. Len(took) \in Nat /\ Len(took) - 0 = Len(took)
        BY <2>2 DEF took
      <4>3. QED
        BY <4>1, <4>2
    <3> HIDE DEF part
    <3>6. took = part
      BY <2>2, <3>4, <3>5, SeqEqual DEF took
    <3>7. Len(took) = Length(p) => took = slice
      BY <2>2, <3>1, <3>4, SeqEqual DEF took
    <3>8. QED
      BY <3>6, <3>7 DEF part, took, slice
  <2>4. /\ ReadsTo(p, "stdout") /\ run[p].took # <<>> =>
               run[p].took = SubSeq(Slice(p), 1, Len(run[p].took))
        /\ ReadsTo(p, "stdout") /\ run[p].result = "ok" =>
               run[p].took = Slice(p) /\ run[p].sent = Length(p)
    BY <2>1, <2>3 DEF StreamSound
  <2>5. Len(guest) = Len(Guest)
    BY DEF CliInv, CliTyped, StoresTyped
  <2>6. QED
    BY <2>1, <2>4, <2>5 DEF WriteSound
<1>2. QED
  BY <1>1, BytesInvHolds, PTL

(***************************************************************************)
(* What FILE holds                                                         *)
(***************************************************************************)
Named == {name.dest} \cup name.before

(* The inode of a read that has not created its file has no name.          *)
Fresh ==
    \A p \in Task : run[p].stage \notin Working \cup {"returned", "dead"} =>
        p \notin Named \cup {name.partial}
OldKept == inode[Old] = [data |-> OldFile, durable |-> OldFile]

Whole == {OldFile} \cup {Slice(p) : p \in {q \in Task : ReadsTo(q, "file") /\ InRange(q)}}

(* FILE.partial, zeros appended, is the range as far as the copy came.     *)
Filled(p) ==
    LET data == inode[File(p)].data
        k == run[p].at - From(p)
    IN  /\ Len(data) <= k
        /\ \A i \in 1 .. k : Guest[From(p) + i] = IF i <= Len(data) THEN data[i] ELSE 0
Stands(p) ==
    /\ run[p].stage \in {"copy", "sync", "rename"} => name.partial = File(p)
    /\ run[p].stage = "copy" => Filled(p)
    /\ run[p].stage \in {"sync", "rename"} => inode[File(p)].data = Slice(p)
    /\ run[p].stage = "rename" => inode[File(p)].durable = Slice(p)

Lone(p) == ReadsTo(p, "file") /\ \A q \in Task \ {p} : ReadsTo(q, "file") => At(q, "start")
LoneSound(p) ==
    Lone(p) =>
        /\ run[p].stage \in {"start", "opening"} \cup OnPartial => name.dest = Old
        /\ At(p, "returned") /\ run[p].result \in {"ok", "failed"} => name.partial = None
        /\ At(p, "returned") /\ run[p].result = "ok" => inode[name.dest].data = Slice(p)
        /\ At(p, "returned") /\ run[p].result = "failed" => name.dest = Old

(* While no two reads to FILE overlap, FILE.partial has no other name, one *)
(* command works on it, and every file that is or was FILE is whole.       *)
NoneOverlap ==
    /\ name.partial \notin Named
    /\ \A p, q \in Task : run[p].stage \in Working /\ run[q].stage \in Working => p = q
    /\ \A i \in Named : inode[i].data \in Whole /\ inode[i].durable \in Whole
    /\ \A p \in Task : Stands(p) /\ LoneSound(p)
FilesInv == Fresh /\ OldKept /\ (~overlapped => NoneOverlap)

(* A step of a command that leaves the files and their names alone.        *)
PlainAct(p) ==
    \/ BeginCommand(p) \/ NotOpened(p) \/ StartRead(p) \/ Stream(p) \/ FlushOut(p)
    \/ StreamFails(p) \/ RenameFails(p) \/ Kill(p)
    \/ StartWrite(p) \/ InputFails(p) \/ CopyIn(p) \/ EndOfInput(p) \/ CopyInFails(p) \/ Flush(p)

LEMMA PlainFacts ==
    ASSUME CliTyped, NEW p \in Task, PlainAct(p), IsCommand(p)
    PROVE  LET r == run'[p] IN
           /\ UNCHANGED <<inode, name, overlapped>>
           /\ run[p].stage \notin {"returned", "dead"}
           /\ \/ run[p].stage = "start" /\ r.stage = "opening"
              \/ run[p].stage = "opening" /\ r.stage = "create"
              \/ /\ run[p].stage \notin OnPartial
                 /\ r.stage \in {"stream", "copyIn", "flush"}
              \/ /\ r.stage \in {"returned", "dead"}
                 /\ ReadsTo(p, "file") => r.stage = "dead" \/ r.result \notin {"ok", "failed"}
<1> DEFINE r == run'[p]
<1>1. run[p] \in RunType /\ RunSound(p, run[p]) /\ run \in [Task -> RunType]
  BY RunFacts DEF CliTyped
<1>2. ASSUME NEW result, Return(p, result) PROVE r.stage = "returned" /\ r.result = result
  BY <1>1, <1>2 DEF Return, RunType
<1>3. CASE BeginCommand(p)
  BY <1>1, <1>3 DEF BeginCommand, Moved, At, RunType, KeepFiles
<1>4. CASE NotOpened(p) \/ InputFails(p)
  <2>1. r.stage = "returned" /\ r.result = "refused"
    BY <1>2, <1>4 DEF NotOpened, InputFails
  <2>2. UNCHANGED <<inode, name, overlapped>> /\ run[p].stage = "opening"
    BY <1>4 DEF NotOpened, InputFails, Opened, At, KeepFiles
  <2>3. QED
    BY <2>1, <2>2
<1>5. CASE RenameFails(p)
  <2>1. r.stage = "returned" /\ r.result = "kept"
    BY <1>2, <1>5 DEF RenameFails
  <2>2. UNCHANGED <<inode, name, overlapped>> /\ run[p].stage = "rename"
    BY <1>5 DEF RenameFails, At, KeepFiles
  <2>3. QED
    BY <2>1, <2>2
<1>6. CASE StartRead(p)
  <2>1. UNCHANGED <<inode, name, overlapped>> /\ run[p].stage = "opening"
    BY <1>6 DEF StartRead, Opened, At, KeepFiles
  <2>2. CASE Return(p, "refused")
    <3>1. r.stage = "returned" /\ r.result = "refused"
      BY <1>2, <2>2
    <3>2. QED
      BY <2>1, <3>1
  <2>3. CASE ~Return(p, "refused")
    <3>1. r.stage \in {"stream", "create"}
      BY <1>1, <1>6, <2>3 DEF StartRead, RunType
    <3>2. QED
      BY <2>1, <3>1 DEF OnPartial
  <2>4. QED
    BY <2>2, <2>3
<1>7. CASE Stream(p) \/ FlushOut(p) \/ StreamFails(p)
  <2>1. UNCHANGED <<inode, name, overlapped>> /\ run[p].stage = "stream"
    BY <1>7 DEF Stream, FlushOut, StreamFails, At, KeepFiles
  <2>2. ~ReadsTo(p, "file")
    BY <1>1, <2>1 DEF RunSound, ReadsTo
  <2>3. r.stage \in {"stream", "returned"}
    <3>1. CASE Stream(p)
      BY <1>1, <2>1, <3>1 DEF Stream, RunType
    <3>2. CASE FlushOut(p)
      BY <1>1, <3>2 DEF FlushOut, RunType
    <3>3. CASE StreamFails(p)
      BY <1>2, <3>3 DEF StreamFails
    <3>4. QED
      BY <1>7, <3>1, <3>2, <3>3
  <2>4. QED
    BY <2>1, <2>2, <2>3 DEF OnPartial
<1>8. CASE Kill(p)
  BY <1>1, <1>8 DEF Kill, Ended, RunType, KeepFiles
<1>9. CASE StartWrite(p)
  <2>1. UNCHANGED <<inode, name, overlapped>> /\ run[p].stage = "opening"
        /\ job[p].verb = "write"
    BY <1>9 DEF StartWrite, Opened, At, KeepFiles
  <2>2. CASE Return(p, "refused")
    <3>1. r.stage = "returned" /\ r.result = "refused"
      BY <1>2, <2>2
    <3>2. QED
      BY <2>1, <3>1
  <2>3. CASE ~Return(p, "refused")
    <3>1. r.stage = "copyIn"
      BY <1>1, <1>9, <2>3 DEF StartWrite, RunType
    <3>2. QED
      BY <2>1, <3>1 DEF OnPartial
  <2>4. QED
    BY <2>2, <2>3
<1>10. CASE CopyIn(p) \/ EndOfInput(p) \/ CopyInFails(p) \/ Flush(p)
  <2>1. UNCHANGED <<inode, name, overlapped>> /\ run[p].stage \in {"copyIn", "flush"}
    BY <1>10 DEF CopyIn, EndOfInput, CopyInFails, Flush, At, KeepFiles
  <2>2. ~ReadsTo(p, "file")
    BY <1>1, <2>1 DEF RunSound, ReadsTo
  <2>3. r.stage \in {"copyIn", "flush", "returned"}
    <3>1. CASE CopyIn(p)
      BY <1>1, <3>1 DEF CopyIn, RunType, At
    <3>2. CASE EndOfInput(p)
      BY <1>1, <3>2 DEF EndOfInput, Moved, RunType
    <3>3. CASE CopyInFails(p)
      <4>1. \E took : run' = [run EXCEPT ![p] = [run[p] EXCEPT !.stage = "returned",
                                             !.result = "failed", !.took = took]]
        BY <3>3 DEF CopyInFails
      <4>2. QED
        BY <1>1, <4>1 DEF RunType
    <3>4. CASE Flush(p)
      BY <1>2, <3>4 DEF Flush
    <3>5. QED
      BY <1>10, <3>1, <3>2, <3>3, <3>4
  <2>4. QED
    BY <2>1, <2>2, <2>3 DEF OnPartial
<1>11. QED
  BY <1>3, <1>4, <1>5, <1>6, <1>7, <1>8, <1>9, <1>10 DEF PlainAct
LEMMA WholeStays ==
    ASSUME UNCHANGED <<files, job>>
    PROVE  Whole' = Whole
<1>1. /\ \A p : Slice(p)' = Slice(p) /\ InRange(p)' = InRange(p)
      /\ \A p : ReadsTo(p, "file")' = ReadsTo(p, "file")
  BY RangesStay
<1>2. {Slice(p) : p \in {q \in Task : ReadsTo(q, "file") /\ InRange(q)}}' =
          {Slice(p) : p \in {q \in Task : ReadsTo(q, "file") /\ InRange(q)}}
  BY <1>1
<1>3. QED
  BY <1>2 DEF Whole, OldFile

LEMMA StandsStays ==
    ASSUME NEW q \in Task, Stands(q), UNCHANGED <<files, job>>, run'[q] = run[q],
           UNCHANGED <<inode, name>>
    PROVE  Stands(q)'
<1>1. From(q)' = From(q) /\ Slice(q)' = Slice(q) /\ File(q)' = File(q)
  BY RangesStay DEF File
<1>2. Filled(q)' <=> Filled(q)
  BY <1>1 DEF Filled
<1>3. QED
  BY <1>1, <1>2 DEF Stands

(* Who is alone after a step was alone before it.                          *)
LEMMA LoneBefore ==
    ASSUME CliTyped, UNCHANGED <<files, job>>, NEW p \in Task, run'[p].stage # "start",
           \A q \in Task \ {p} : run'[q] = run[q], NEW u \in Task, Lone(u)'
    PROVE  Lone(u) /\ (u # p => ~ReadsTo(p, "file"))
<1>1. \A q \in Task : ReadsTo(q, "file")' = ReadsTo(q, "file")
  BY RangesStay
<1>2. ReadsTo(u, "file") /\ \A q \in Task \ {u} : ReadsTo(q, "file") => run'[q].stage = "start"
  BY <1>1 DEF Lone, At
<1>3. \A q \in Task \ {u} : ReadsTo(q, "file") => q # p /\ run[q].stage = "start"
  BY <1>2
<1>4. QED
  BY <1>2, <1>3 DEF Lone, At

LEMMA LoneSoundStays ==
    ASSUME CliTyped, UNCHANGED <<files, job>>, UNCHANGED <<inode, name>>,
           NEW u \in Task, LoneSound(u), Lone(u)' => Lone(u), run'[u] = run[u]
    PROVE  LoneSound(u)'
<1>1. Slice(u)' = Slice(u)
  BY RangesStay
<1>2. QED
  BY <1>1 DEF LoneSound, At

LEMMA PlainKeeps ==
    ASSUME CliTyped, FilesInv, UNCHANGED <<files, job>>, NEW p \in Task, PlainAct(p), IsCommand(p)
    PROVE  FilesInv'
<1> DEFINE r == run'[p]
<1>1. /\ UNCHANGED <<inode, name, overlapped>>
      /\ run[p].stage \notin {"returned", "dead"}
      /\ \/ run[p].stage = "start" /\ r.stage = "opening"
         \/ run[p].stage = "opening" /\ r.stage = "create"
         \/ run[p].stage \notin OnPartial /\ r.stage \in {"stream", "copyIn", "flush"}
         \/ /\ r.stage \in {"returned", "dead"}
            /\ ReadsTo(p, "file") => r.stage = "dead" \/ r.result \notin {"ok", "failed"}
  BY PlainFacts
<1>2. \A q \in Task \ {p} : run'[q] = run[q]
  BY OthersStay DEF PlainAct, Acts, CommandStep, CommandFails
<1>3. r.stage \notin Working /\ r.stage # "start"
  BY <1>1 DEF Working, OnPartial
<1>4. r.stage \notin Working \cup {"returned", "dead"} =>
          run[p].stage \notin Working \cup {"returned", "dead"}
  BY <1>1 DEF Working, OnPartial
<1> HIDE DEF r
<1>5. Named' = Named
  BY <1>1 DEF Named
<1>6. Fresh'
  BY <1>1, <1>2, <1>4, <1>5 DEF FilesInv, Fresh, r
<1>7. OldKept'
  BY <1>1 DEF FilesInv, OldKept, OldFile
<1>8. ASSUME ~overlapped' PROVE NoneOverlap'
  <2>1. NoneOverlap
    BY <1>1, <1>8 DEF FilesInv
  <2>2. (name.partial \notin Named)'
    BY <1>1, <1>5, <2>1 DEF NoneOverlap
  <2>3. \A i \in Named' : inode'[i].data \in Whole' /\ inode'[i].durable \in Whole'
    BY <1>1, <1>5, <2>1, WholeStays DEF NoneOverlap
  <2>4. \A q \in Task : run'[q].stage \in Working => run[q].stage \in Working
    BY <1>2, <1>3 DEF r
  <2>5. ASSUME NEW q \in Task PROVE Stands(q)'
    <3>1. CASE q = p
      BY <1>3, <3>1 DEF Stands, Working, OnPartial, r
    <3>2. CASE q # p
      BY <1>1, <1>2, <2>1, <3>2, StandsStays DEF NoneOverlap
    <3>3. QED
      BY <3>1, <3>2
  <2>6. ASSUME NEW u \in Task PROVE LoneSound(u)'
    <3>1. Lone(u)' => Lone(u)
      BY <1>2, <1>3, LoneBefore DEF r
    <3>2. CASE u # p
      BY <1>1, <1>2, <2>1, <3>1, <3>2, LoneSoundStays DEF NoneOverlap
    <3>3. CASE u = p
      <4>1. r.stage \in {"start", "opening"} \cup OnPartial => run[p].stage \in {"start", "opening"}
        BY <1>1 DEF OnPartial
      <4>2. ASSUME Lone(p)'
            PROVE  /\ r.stage \in {"start", "opening"} \cup OnPartial => name'.dest = Old
                   /\ ~(r.stage = "returned" /\ r.result \in {"ok", "failed"})
        <5>1. Lone(p) /\ ReadsTo(p, "file")
          BY <3>1, <3>3, <4>2 DEF Lone
        <5>2. LoneSound(p)
          BY <2>1 DEF NoneOverlap
        <5>3. QED
          BY <1>1, <4>1, <5>1, <5>2 DEF LoneSound
      <4>3. QED
        BY <3>3, <4>2 DEF LoneSound, At, r
    <3>4. QED
      BY <3>2, <3>3
  <2>7. QED
    BY <2>1, <2>2, <2>3, <2>4, <2>5, <2>6 DEF NoneOverlap
<1>9. QED
  BY <1>6, <1>7, <1>8 DEF FilesInv

LEMMA NoOthers ==
    ASSUME NoneOverlap, NEW p \in Task, run[p].stage \in Working
    PROVE  Others(p) = {}
  BY DEF NoneOverlap, Others, Working

(* A step on FILE.partial: it suffices to look at the command itself.      *)
LEMMA WorkKeeps ==
    ASSUME CliTyped, FilesInv, UNCHANGED <<files, job>>, NEW p \in Task,
           run[p].stage \in OnPartial, run'[p].stage \in Working \cup {"returned"},
           \A q \in Task \ {p} : run'[q] = run[q],
           name'.dest = name.dest, name'.before = name.before,
           name'.partial \in {name.partial, None, p}, inode'[Old] = inode[Old],
           ~overlapped' => /\ ~overlapped /\ Others(p) = {}
                           /\ name'.partial \notin Named
                           /\ \A i \in Named : inode'[i] = inode[i]
                           /\ Stands(p)' /\ LoneSound(p)'
    PROVE  FilesInv'
<1>1. Named' = Named /\ name \in NameType /\ None \notin Task
  BY TransferAssumption DEF Named, CliTyped, StoresTyped
<1>2. ReadsTo(p, "file")
  BY RunFacts DEF RunSound, OnPartial
<1>3. Fresh'
  <2> SUFFICES ASSUME NEW q \in Task, run'[q].stage \notin Working \cup {"returned", "dead"}
               PROVE  q \notin Named \cup {name'.partial}
    BY <1>1 DEF Fresh
  <2>1. q # p /\ run'[q] = run[q]
    OBVIOUS
  <2>2. q \notin Named /\ q # name.partial
    BY <2>1 DEF FilesInv, Fresh
  <2>3. QED
    BY <1>1, <2>1, <2>2
<1>4. OldKept'
  BY DEF FilesInv, OldKept, OldFile
<1>5. ASSUME ~overlapped' PROVE NoneOverlap'
  <2>1. /\ NoneOverlap /\ Others(p) = {} /\ name'.partial \notin Named
        /\ \A i \in Named : inode'[i] = inode[i]
        /\ Stands(p)' /\ LoneSound(p)'
    BY <1>5 DEF FilesInv
  <2>2. \A q \in Task \ {p} : run'[q].stage \notin Working
    BY <2>1 DEF Others, Working
  <2>3. \A q \in Task \ {p} : Stands(q)'
    BY <2>2 DEF Stands, Working, OnPartial
  <2>4. ASSUME NEW u \in Task \ {p} PROVE LoneSound(u)'
    <3>1. run'[p].stage # "start"
      BY DEF Working, OnPartial
    <3>2. ~Lone(u)'
      BY <1>2, <2>4, <3>1, LoneBefore
    <3>3. QED
      BY <3>2 DEF LoneSound
  <2>5. \A i \in Named' : inode'[i].data \in Whole' /\ inode'[i].durable \in Whole'
    BY <1>1, <2>1, WholeStays DEF NoneOverlap
  <2>6. QED
    BY <1>1, <2>1, <2>2, <2>3, <2>4, <2>5 DEF NoneOverlap
<1>6. QED
  BY <1>3, <1>4, <1>5 DEF FilesInv
LEMMA LoneWorks ==
    ASSUME CliTyped, NoneOverlap, UNCHANGED <<files, job>>, NEW p \in Task,
           run[p].stage \in OnPartial, run'[p].stage \in OnPartial,
           \A q \in Task \ {p} : run'[q] = run[q], name'.dest = name.dest
    PROVE  LoneSound(p)'
<1>1. Lone(p)' => Lone(p)
  BY LoneBefore DEF OnPartial
<1>2. LoneSound(p)
  BY DEF NoneOverlap
<1>3. Lone(p) => name.dest = Old
  BY <1>2 DEF LoneSound
<1>4. ~At(p, "returned")'
  BY DEF At, OnPartial
<1>5. QED
  BY <1>1, <1>3, <1>4 DEF LoneSound

(* FILE.partial is neither what FILE is nor what it was.                   *)
LEMMA OnlyPartial ==
    ASSUME CliTyped, NEW file \in Task, NEW content, inode' = [inode EXCEPT ![file] = content]
    PROVE  /\ inode'[file] = content /\ inode'[Old] = inode[Old]
           /\ \A i \in Named \ {file} : inode'[i] = inode[i]
<1>1. inode \in [Task \cup {Old} -> InodeType] /\ Named \subseteq Task \cup {Old} /\ Old # file
  BY TransferAssumption DEF CliTyped, StoresTyped, Named, NameType
<1>2. QED
  BY <1>1

LEMMA CreateKeeps ==
    ASSUME CliTyped, FilesInv, UNCHANGED <<files, job>>, NEW p \in Task, CreatePartial(p)
    PROVE  FilesInv'
<1> DEFINE file == IF name.partial = None THEN p ELSE name.partial
<1>1. /\ run[p].stage = "create" /\ run[p] \in RunType /\ RunSound(p, run[p])
      /\ name' = [name EXCEPT !.partial = file] /\ name \in NameType
      /\ inode' = [inode EXCEPT ![file].data = <<>>]
      /\ overlapped' = (overlapped \/ Others(p) # {})
      /\ run' = [run EXCEPT ![p].stage = "copy", ![p].file = file] /\ run \in [Task -> RunType]
  BY RunFacts DEF CreatePartial, At, CliTyped, StoresTyped
<1>2. file \in Task /\ name'.partial = file /\ name'.dest = name.dest /\ name'.before = name.before
  BY <1>1 DEF NameType
<1>3. name'.partial \in {name.partial, None, p}
  BY <1>2
<1> HIDE DEF file
<1>4. /\ run'[p].stage = "copy" /\ run'[p].file = file /\ run'[p].at = run[p].at
      /\ \A q \in Task \ {p} : run'[q] = run[q]
  BY <1>1 DEF RunType
<1> DEFINE content == [inode[file] EXCEPT !.data = <<>>]
<1>5. inode' = [inode EXCEPT ![file] = content]
  BY <1>1, <1>2 DEF CliTyped, StoresTyped
<1>6. content.data = <<>>
  <2>1. inode[file] \in InodeType
    BY <1>2 DEF CliTyped, StoresTyped
  <2>2. QED
    BY <2>1 DEF InodeType
<1> HIDE DEF content
<1>7. /\ inode'[file].data = <<>> /\ inode'[Old] = inode[Old]
      /\ \A i \in Named \ {file} : inode'[i] = inode[i]
  BY <1>2, <1>5, <1>6, OnlyPartial
<1>8. ASSUME ~overlapped'
      PROVE  /\ ~overlapped /\ Others(p) = {} /\ file \notin Named
             /\ Stands(p)' /\ LoneSound(p)'
  <2>1. ~overlapped /\ Others(p) = {} /\ NoneOverlap
    BY <1>1, <1>8 DEF FilesInv, CliTyped, StoresTyped
  <2>2. file \notin Named
    <3>1. p \notin Named
      BY <1>1 DEF FilesInv, Fresh, Working, OnPartial
    <3>2. QED
      BY <2>1, <3>1 DEF NoneOverlap, file
  <2>3. Stands(p)'
    <3>1. run[p].at = From(p) /\ From(p) \in Nat
      BY <1>1 DEF RunSound, OnPartial
    <3>2. From(p)' = From(p)
      BY RangesStay
    <3>3. Len(inode'[file].data) = 0 /\ run'[p].at - From(p)' = 0
      BY <1>4, <1>7, <3>1, <3>2
    <3>4. Filled(p)'
      BY <1>4, <3>3 DEF Filled, File
    <3>5. QED
      BY <1>2, <1>4, <3>4 DEF Stands, File
  <2>4. LoneSound(p)'
    BY <1>1, <1>2, <1>4, <2>1, LoneWorks DEF OnPartial
  <2>5. QED
    BY <2>1, <2>2, <2>3, <2>4
<1>9. run[p].stage \in OnPartial /\ run'[p].stage \in Working \cup {"returned"}
  BY <1>1, <1>4 DEF Working, OnPartial
<1>10. ~overlapped' => /\ ~overlapped /\ Others(p) = {} /\ name'.partial \notin Named
                       /\ \A i \in Named : inode'[i] = inode[i]
                       /\ Stands(p)' /\ LoneSound(p)'
  BY <1>2, <1>7, <1>8
<1>11. QED
  BY <1>2, <1>3, <1>4, <1>7, <1>9, <1>10, WorkKeeps

(* A step that stays on FILE.partial and changes at most its content.      *)
LEMMA ContentKeeps ==
    ASSUME CliTyped, FilesInv, UNCHANGED <<files, job>>, NEW p \in Task,
           run[p].stage \in {"copy", "sync"}, run'[p].stage \in Working,
           \A q \in Task \ {p} : run'[q] = run[q], UNCHANGED name,
           UNCHANGED inode \/ \E content : inode' = [inode EXCEPT ![File(p)] = content],
           overlapped' = overlapped \/ overlapped' = (overlapped \/ Others(p) # {}),
           NoneOverlap => Stands(p)'
    PROVE  FilesInv'
<1>1. File(p) \in Task /\ name \in NameType /\ overlapped \in BOOLEAN
  BY CopyFacts DEF At, CliTyped, StoresTyped
<1>2. inode'[Old] = inode[Old] /\ \A i \in Named \ {File(p)} : inode'[i] = inode[i]
  BY <1>1, OnlyPartial
<1>3. run[p].stage \in Working /\ run[p].stage \in OnPartial /\ run'[p].stage \in OnPartial
  BY DEF Working, OnPartial
<1>4. ASSUME ~overlapped'
      PROVE  /\ ~overlapped /\ Others(p) = {} /\ name'.partial \notin Named
             /\ \A i \in Named : inode'[i] = inode[i]
             /\ Stands(p)' /\ LoneSound(p)'
  <2>1. ~overlapped
    BY <1>1, <1>4
  <2>2. NoneOverlap
    BY <2>1 DEF FilesInv
  <2>3. Others(p) = {}
    BY <1>3, <2>2, NoOthers
  <2>4. name.partial = File(p) /\ name.partial \notin Named
    BY <2>2 DEF NoneOverlap, Stands
  <2>5. LoneSound(p)'
    BY <1>3, <2>2, LoneWorks
  <2>6. QED
    BY <1>2, <2>1, <2>2, <2>3, <2>4, <2>5
<1>5. QED
  BY <1>2, <1>3, <1>4, WorkKeeps

(* The chunk extends what the copy has put down, written or skipped over.  *)
LEMMA ChunkFills ==
    ASSUME CliTyped, BytesInv, UNCHANGED <<files, job>>, NEW p \in Task, Filled(p), CopyChunk(p)
    PROVE  Filled(p)'
<1> DEFINE bytes == ReadChunk(p)
           at == run[p].at
           from == From(p)
           k == at - from
           data == inode[File(p)].data
           next == inode'[File(p)].data
<1>1. At(p, "copy") /\ More(p) /\ run' = [run EXCEPT ![p].at = @ + Len(bytes)]
      /\ run \in [Task -> RunType]
  BY DEF CopyChunk, CliTyped
<1>2. /\ File(p) \in Task /\ from \in Nat /\ at \in Nat /\ from <= at
      /\ run[p].end \in Nat /\ run[p].end <= Len(Guest) /\ ReadsTo(p, "file")
      /\ run[p] \in RunType
  BY <1>1, CopyFacts
<1>3. /\ bytes \in Seq(Nat) /\ Len(bytes) \in Nat
      /\ \A i \in 1 .. Len(bytes) : bytes[i] = Guest[at + i]
  BY <1>1, <1>2, ChunkFacts, ReadersSeeGuest DEF ReadsTo
<1>4. run'[p].at = at + Len(bytes) /\ run'[p].file = run[p].file
  BY <1>1, <1>2 DEF RunType
<1>5. data \in Seq(Nat) /\ Len(data) \in Nat
  <2>1. inode[File(p)] \in InodeType
    BY <1>2 DEF CliTyped, StoresTyped
  <2>2. QED
    BY <2>1 DEF InodeType
<1>6. /\ Len(data) <= k /\ k \in Nat
      /\ \A i \in 1 .. k : Guest[from + i] = IF i <= Len(data) THEN data[i] ELSE 0
  BY <1>2 DEF Filled
<1>7. from' = from /\ (at + Len(bytes)) - from = k + Len(bytes)
  BY <1>2, <1>3, RangesStay
<1>8. CASE \A i \in 1 .. Len(bytes) : bytes[i] = 0
  <2>1. next = data
    BY <1>8 DEF CopyChunk
  <2> HIDE DEF bytes, at, from, data, next
  <2>2. ASSUME NEW i \in 1 .. k + Len(bytes)
        PROVE  Guest[from + i] = IF i <= Len(data) THEN data[i] ELSE 0
    <3>1. CASE i <= k
      BY <1>3, <1>6, <3>1
    <3>2. CASE ~(i <= k)
      <4>1. i - k \in 1 .. Len(bytes) /\ at + (i - k) = from + i /\ ~(i <= Len(data))
        BY <1>2, <1>3, <1>5, <1>6, <3>2
      <4>2. QED
        BY <1>3, <1>8, <4>1
    <3>3. QED
      BY <3>1, <3>2
  <2>3. Len(data) <= k + Len(bytes)
    BY <1>3, <1>5, <1>6
  <2>4. QED
    BY <1>4, <1>7, <2>1, <2>2, <2>3 DEF Filled, File, next, at, from, data
<1>9. CASE ~(\A i \in 1 .. Len(bytes) : bytes[i] = 0)
  <2>1. Len(bytes) # 0 /\ bytes # <<>>
    BY <1>3, <1>9
  <2>2. next = Placed(data, k, bytes)
    <3>1. Write(p, bytes)
      BY <1>9 DEF CopyChunk
    <3>2. QED
      BY <1>2, <3>1 DEF Write, CliTyped, StoresTyped, InodeType
  <2> HIDE DEF bytes, at, from, data, next
  <2>3. /\ Len(next) = IF Len(data) > k + Len(bytes) THEN Len(data) ELSE k + Len(bytes)
        /\ \A i \in 1 .. Len(next) :
               next[i] = IF i \in k + 1 .. k + Len(bytes) THEN bytes[i - k]
                         ELSE IF i <= Len(data) THEN data[i] ELSE 0
    <3> HIDE DEF k
    <3> DEFINE placed == Placed(data, k, bytes)
               reach == k + Len(bytes)
               n == IF bytes = <<>> \/ Len(data) > reach THEN Len(data) ELSE reach
    <3>1. /\ Len(placed) = n
          /\ \A i \in 1 .. n :
                 placed[i] = IF i \in k + 1 .. reach THEN bytes[i - k]
                             ELSE IF i <= Len(data) THEN data[i] ELSE 0
      BY <1>3, <1>5, <1>6, PlacedBytes
    <3>2. n = IF Len(data) > reach THEN Len(data) ELSE reach
      BY <2>1
    <3> HIDE DEF placed, n
    <3>3. QED
      BY <2>2, <3>1, <3>2 DEF placed
  <2>4. Len(next) = k + Len(bytes)
    BY <1>3, <1>5, <1>6, <2>3
  <2>5. ASSUME NEW i \in 1 .. k + Len(bytes)
        PROVE  i <= Len(next) /\ Guest[from + i] = next[i]
    <3>1. i <= Len(next) /\ i \in 1 .. Len(next)
      BY <1>3, <1>6, <2>4
    <3>2. CASE i <= k
      <4>1. i \in 1 .. k /\ i \notin k + 1 .. k + Len(bytes)
        BY <1>3, <1>6, <3>2
      <4>2. QED
        BY <1>6, <2>3, <3>1, <4>1
    <3>3. CASE ~(i <= k)
      <4>1. /\ i - k \in 1 .. Len(bytes) /\ at + (i - k) = from + i
            /\ i \in k + 1 .. k + Len(bytes)
        BY <1>2, <1>3, <1>6, <3>3
      <4>2. QED
        BY <1>3, <2>3, <3>1, <4>1
    <3>4. QED
      BY <3>1, <3>2, <3>3
  <2>6. Len(next) <= k + Len(bytes)
    BY <1>3, <1>6, <2>4
  <2>7. QED
    BY <1>4, <1>7, <2>5, <2>6 DEF Filled, File, next, at, from, data
<1>10. QED
  BY <1>8, <1>9

LEMMA CopyKeeps ==
    ASSUME CliTyped, FilesInv, BytesInv, UNCHANGED <<files, job>>, NEW p \in Task, CopyChunk(p)
    PROVE  FilesInv'
<1>1. /\ run[p].stage = "copy" /\ run' = [run EXCEPT ![p].at = @ + Len(ReadChunk(p))]
      /\ run \in [Task -> RunType] /\ run[p] \in RunType /\ UNCHANGED <<name, overlapped>>
      /\ inode \in [Task \cup {Old} -> InodeType] /\ File(p) \in Task
  BY RunFacts, CopyFacts DEF CopyChunk, At, CliTyped, StoresTyped
<1>2. /\ run'[p].stage = "copy" /\ run'[p].file = run[p].file
      /\ \A q \in Task \ {p} : run'[q] = run[q]
  BY <1>1 DEF RunType
<1>3. UNCHANGED inode \/ \E content : inode' = [inode EXCEPT ![File(p)] = content]
  BY <1>1 DEF CopyChunk, Write
<1>4. NoneOverlap => Stands(p)'
  <2> SUFFICES ASSUME NoneOverlap PROVE Stands(p)'
    OBVIOUS
  <2>1. Filled(p) /\ name.partial = File(p)
    BY <1>1 DEF NoneOverlap, Stands
  <2>2. Filled(p)'
    BY <2>1, ChunkFills
  <2>3. QED
    BY <1>1, <1>2, <2>1, <2>2 DEF Stands, File
<1>5. run'[p].stage \in Working
  BY <1>2 DEF Working, OnPartial
<1>6. QED
  BY <1>1, <1>2, <1>3, <1>4, <1>5, ContentKeeps
(* Cut or extended with zeros to its length, the copy is the range.        *)
LEMMA FilledIsSlice ==
    ASSUME CliTyped, NEW p \in Task, At(p, "copy"), ~More(p), Filled(p)
    PROVE  Resized(inode[File(p)].data, Length(p)) = Slice(p)
<1> DEFINE data == inode[File(p)].data
           whole == Resized(data, Length(p))
           slice == Slice(p)
<1>1. /\ File(p) \in Task /\ Ranged(p) /\ From(p) \in Nat /\ Length(p) \in Nat
      /\ run[p].at \in Nat /\ run[p].end \in Nat /\ run[p].at <= run[p].end
      /\ run[p].end = From(p) + Length(p)
  BY CopyFacts DEF Ranged
<1>2. run[p].at - From(p) = Length(p)
  BY <1>1 DEF More
<1>3. data \in Seq(Nat)
  <2>1. inode[File(p)] \in InodeType
    BY <1>1 DEF CliTyped, StoresTyped
  <2>2. QED
    BY <2>1 DEF InodeType
<1>4. \A i \in 1 .. Length(p) : Guest[From(p) + i] = IF i <= Len(data) THEN data[i] ELSE 0
  BY <1>2 DEF Filled
<1>5. /\ slice \in Seq(Nat) /\ Len(slice) = Length(p)
      /\ \A i \in 1 .. Length(p) : slice[i] = Guest[From(p) + i]
  BY <1>1, SliceFacts
<1> HIDE DEF data, slice
<1>6. /\ whole \in Seq(Nat) /\ Len(whole) = Length(p)
      /\ \A i \in 1 .. Length(p) : whole[i] = IF i <= Len(data) THEN data[i] ELSE 0
  BY <1>1, <1>3, ResizedBytes
<1> HIDE DEF whole
<1>7. whole = slice
  BY <1>4, <1>5, <1>6, SeqEqual
<1>8. QED
  BY <1>7 DEF whole, data, slice

LEMMA SetLengthKeeps ==
    ASSUME CliTyped, FilesInv, UNCHANGED <<files, job>>, NEW p \in Task, SetLength(p)
    PROVE  FilesInv'
<1>1. /\ run[p].stage = "copy" /\ run' = [run EXCEPT ![p].stage = "sync"]
      /\ run \in [Task -> RunType] /\ run[p] \in RunType /\ UNCHANGED <<name, overlapped>>
      /\ inode \in [Task \cup {Old} -> InodeType] /\ File(p) \in Task /\ ~More(p)
  BY RunFacts, CopyFacts DEF SetLength, Moved, At, CliTyped, StoresTyped
<1>2. /\ run'[p].stage = "sync" /\ run'[p].file = run[p].file
      /\ \A q \in Task \ {p} : run'[q] = run[q]
  BY <1>1 DEF RunType
<1>3. /\ UNCHANGED inode \/ \E content : inode' = [inode EXCEPT ![File(p)] = content]
      /\ inode'[File(p)].data = Resized(inode[File(p)].data, Length(p))
  BY <1>1 DEF SetLength, InodeType
<1>4. NoneOverlap => Stands(p)'
  <2> SUFFICES ASSUME NoneOverlap PROVE Stands(p)'
    OBVIOUS
  <2>1. Filled(p) /\ name.partial = File(p)
    BY <1>1 DEF NoneOverlap, Stands
  <2>2. inode'[File(p)].data = Slice(p)
    BY <1>1, <1>3, <2>1, FilledIsSlice DEF At
  <2>3. Slice(p)' = Slice(p)
    BY RangesStay
  <2>4. QED
    BY <1>1, <1>2, <2>1, <2>2, <2>3 DEF Stands, File
<1>5. run'[p].stage \in Working
  BY <1>2 DEF Working, OnPartial
<1>6. QED
  BY <1>1, <1>2, <1>3, <1>4, <1>5, ContentKeeps

LEMMA SyncKeeps ==
    ASSUME CliTyped, FilesInv, UNCHANGED <<files, job>>, NEW p \in Task, SyncAll(p)
    PROVE  FilesInv'
<1>1. /\ run[p].stage = "sync" /\ run' = [run EXCEPT ![p].stage = "rename"]
      /\ run \in [Task -> RunType] /\ run[p] \in RunType /\ UNCHANGED <<name, overlapped>>
      /\ inode \in [Task \cup {Old} -> InodeType] /\ File(p) \in Task
      /\ inode' = [inode EXCEPT ![File(p)].durable = inode[File(p)].data]
  BY RunFacts, CopyFacts DEF SyncAll, Moved, At, CliTyped, StoresTyped
<1>2. /\ run'[p].stage = "rename" /\ run'[p].file = run[p].file
      /\ \A q \in Task \ {p} : run'[q] = run[q]
  BY <1>1 DEF RunType
<1>3. /\ UNCHANGED inode \/ \E content : inode' = [inode EXCEPT ![File(p)] = content]
      /\ inode'[File(p)].data = inode[File(p)].data
      /\ inode'[File(p)].durable = inode[File(p)].data
  BY <1>1 DEF InodeType
<1>4. NoneOverlap => Stands(p)'
  <2> SUFFICES ASSUME NoneOverlap PROVE Stands(p)'
    OBVIOUS
  <2>1. inode[File(p)].data = Slice(p) /\ name.partial = File(p)
    BY <1>1 DEF NoneOverlap, Stands
  <2>2. Slice(p)' = Slice(p)
    BY RangesStay
  <2>3. QED
    BY <1>1, <1>2, <1>3, <2>1, <2>2 DEF Stands, File
<1>5. run'[p].stage \in Working
  BY <1>2 DEF Working, OnPartial
<1>6. QED
  BY <1>1, <1>2, <1>3, <1>4, <1>5, ContentKeeps

LEMMA CopyFailsKeeps ==
    ASSUME CliTyped, FilesInv, UNCHANGED <<files, job>>, NEW p \in Task, CopyFails(p)
    PROVE  FilesInv'
<1>1. /\ run[p].stage \in {"create", "copy", "sync"}
      /\ run' = [run EXCEPT ![p].stage = "cleanup"]
      /\ run \in [Task -> RunType] /\ run[p] \in RunType /\ UNCHANGED name
      /\ overlapped' = (overlapped \/ Others(p) # {}) /\ overlapped \in BOOLEAN
      /\ inode \in [Task \cup {Old} -> InodeType]
  BY RunFacts DEF CopyFails, Moved, CliTyped, StoresTyped
<1>2. run'[p].stage = "cleanup" /\ \A q \in Task \ {p} : run'[q] = run[q]
  BY <1>1 DEF RunType
<1>3. run'[p].stage \in Working /\ run'[p].stage \in OnPartial /\ run[p].stage \in OnPartial
  BY <1>1, <1>2 DEF Working, OnPartial
<1>4. Stands(p)'
  BY <1>2 DEF Stands
<1>5. CASE run[p].stage = "create"
  <2>1. UNCHANGED inode
    BY <1>1, <1>5 DEF CopyFails, At
  <2>2. ASSUME ~overlapped'
        PROVE  /\ ~overlapped /\ Others(p) = {} /\ name'.partial \notin Named
               /\ \A i \in Named : inode'[i] = inode[i]
               /\ Stands(p)' /\ LoneSound(p)'
    <3>1. ~overlapped /\ Others(p) = {} /\ NoneOverlap
      BY <1>1, <2>2 DEF FilesInv
    <3>2. LoneSound(p)'
      BY <1>1, <1>2, <1>3, <3>1, LoneWorks
    <3>3. QED
      BY <1>1, <1>4, <2>1, <3>1, <3>2 DEF NoneOverlap
  <2>3. QED
    BY <1>1, <1>2, <1>3, <2>1, <2>2, WorkKeeps
<1>6. CASE run[p].stage \in {"copy", "sync"}
  <2>1. File(p) \in Task
    BY <1>6, CopyFacts DEF At
  <2>2. UNCHANGED inode \/ \E content : inode' = [inode EXCEPT ![File(p)] = content]
    <3>1. ASSUME NEW bytes, Write(p, bytes)
          PROVE  \E content : inode' = [inode EXCEPT ![File(p)] = content]
      BY <1>1, <2>1, <3>1 DEF Write
    <3>2. QED
      BY <3>1 DEF CopyFails
  <2>3. QED
    BY <1>1, <1>2, <1>3, <1>4, <1>6, <2>2, ContentKeeps
<1>7. QED
  BY <1>1, <1>5, <1>6

LEMMA CleanupKeeps ==
    ASSUME CliTyped, FilesInv, UNCHANGED <<files, job>>, NEW p \in Task, Cleanup(p)
    PROVE  FilesInv'
<1>1. /\ run[p].stage = "cleanup" /\ run \in [Task -> RunType] /\ run[p] \in RunType
      /\ UNCHANGED <<inode, overlapped>> /\ name \in NameType
      /\ Named \subseteq Task \cup {Old} /\ None \notin Task \cup {Old}
  BY RunFacts, TransferAssumption DEF Cleanup, At, CliTyped, StoresTyped, Named, NameType
<1>2. PICK result \in {"failed", "kept"} :
          /\ Return(p, result)
          /\ IF result = "failed" THEN name' = [name EXCEPT !.partial = None] ELSE UNCHANGED name
  BY DEF Cleanup
<1>3. /\ run'[p].stage = "returned" /\ run'[p].result = result
      /\ \A q \in Task \ {p} : run'[q] = run[q]
  BY <1>1, <1>2 DEF Return, RunType
<1>4. /\ name'.dest = name.dest /\ name'.before = name.before
      /\ name'.partial \in {name.partial, None} /\ (result = "failed" => name'.partial = None)
  BY <1>1, <1>2 DEF NameType
<1>5. run[p].stage \in OnPartial /\ run[p].stage \in Working /\ run'[p].stage # "start"
  BY <1>1, <1>3 DEF Working, OnPartial
<1>6. Stands(p)'
  BY <1>3 DEF Stands
<1>7. ASSUME ~overlapped'
      PROVE  /\ ~overlapped /\ Others(p) = {} /\ name'.partial \notin Named
             /\ \A i \in Named : inode'[i] = inode[i]
             /\ Stands(p)' /\ LoneSound(p)'
  <2>1. ~overlapped /\ NoneOverlap
    BY <1>1, <1>7 DEF FilesInv
  <2>2. Others(p) = {} /\ name'.partial \notin Named
    BY <1>1, <1>4, <1>5, <2>1, NoOthers DEF NoneOverlap
  <2>3. Lone(p)' => name.dest = Old
    <3>1. Lone(p)' => Lone(p)
      BY <1>3, <1>5, LoneBefore
    <3>2. QED
      BY <1>5, <2>1, <3>1 DEF NoneOverlap, LoneSound
  <2>4. LoneSound(p)'
    BY <1>3, <1>4, <2>3 DEF LoneSound
  <2>5. QED
    BY <1>1, <1>6, <2>1, <2>2, <2>4
<1>8. QED
  BY <1>1, <1>3, <1>4, <1>5, <1>7, WorkKeeps

(* The rename gives FILE the whole range, and the old FILE's name up.      *)
LEMMA RenameKeeps ==
    ASSUME CliTyped, FilesInv, UNCHANGED <<files, job>>, NEW p \in Task, Rename(p)
    PROVE  FilesInv'
<1>1. /\ run[p].stage = "rename" /\ run \in [Task -> RunType] /\ run[p] \in RunType
      /\ UNCHANGED <<inode, overlapped>> /\ name \in NameType
      /\ Return(p, "ok") /\ None \notin Task \cup {Old} /\ name.partial # None
      /\ name' = [dest |-> name.partial, partial |-> None, before |-> name.before \cup {name.dest}]
  BY RunFacts, TransferAssumption DEF Rename, At, CliTyped, StoresTyped
<1>2. /\ run'[p].stage = "returned" /\ run'[p].result = "ok"
      /\ \A q \in Task \ {p} : run'[q] = run[q]
  BY <1>1 DEF Return, RunType
<1>3. /\ name'.dest = name.partial /\ name'.partial = None
      /\ Named' = Named \cup {name.partial} /\ name.partial \in Task
      /\ Named \subseteq Task \cup {Old}
  BY <1>1 DEF Named, NameType
<1>4. ReadsTo(p, "file") /\ InRange(p)
  BY <1>1, CopyFacts DEF At
<1>5. Fresh'
  <2> SUFFICES ASSUME NEW q \in Task, run'[q].stage \notin Working \cup {"returned", "dead"}
               PROVE  q \notin Named \cup {name.partial} \cup {None}
    BY <1>3 DEF Fresh
  <2>1. q # p /\ run'[q] = run[q]
    BY <1>2
  <2>2. QED
    BY <1>1, <2>1 DEF FilesInv, Fresh
<1>6. OldKept'
  BY <1>1 DEF FilesInv, OldKept, OldFile
<1>7. ASSUME ~overlapped' PROVE NoneOverlap'
  <2>1. NoneOverlap
    BY <1>1, <1>7 DEF FilesInv
  <2>2. Others(p) = {}
    BY <1>1, <2>1, NoOthers DEF Working, OnPartial
  <2>3. \A q \in Task : run'[q].stage \notin Working
    BY <1>2, <2>2 DEF Others, Working, OnPartial
  <2>4. \A q \in Task : Stands(q)'
    BY <2>3 DEF Stands, Working, OnPartial
  <2>5. name.partial = File(p) /\ inode[File(p)].data = Slice(p) /\ inode[File(p)].durable = Slice(p)
    BY <1>1, <2>1 DEF NoneOverlap, Stands
  <2>6. Slice(p) \in Whole
    BY <1>4 DEF Whole
  <2>7. \A i \in Named' : inode'[i].data \in Whole' /\ inode'[i].durable \in Whole'
    BY <1>1, <1>3, <2>1, <2>5, <2>6, WholeStays DEF NoneOverlap
  <2>8. ASSUME NEW u \in Task PROVE LoneSound(u)'
    <3>1. CASE u = p
      <4>1. inode'[name'.dest].data = Slice(p)'
        BY <1>1, <1>3, <2>5, RangesStay
      <4>2. QED
        BY <1>2, <1>3, <3>1, <4>1 DEF LoneSound, OnPartial
    <3>2. CASE u # p
      <4>1. ~Lone(u)'
        BY <1>2, <1>4, <3>2, LoneBefore
      <4>2. QED
        BY <4>1 DEF LoneSound
    <3>3. QED
      BY <3>1, <3>2
  <2>9. (name.partial \notin Named)'
    BY <1>1, <1>3
  <2>10. QED
    BY <2>3, <2>4, <2>7, <2>8, <2>9 DEF NoneOverlap
<1>8. QED
  BY <1>5, <1>6, <1>7 DEF FilesInv

(* A power loss leaves what was synced, under a name it had.               *)
LEMMA PowerLossKeeps ==
    ASSUME CliTyped, FilesInv, UNCHANGED <<files, job>>, PowerLoss
    PROVE  FilesInv'
<1>1. /\ \A p \in Task : run'[p].stage = "dead"
      /\ inode \in [Task \cup {Old} -> InodeType] /\ UNCHANGED overlapped
  BY DEF PowerLoss, CliTyped, StoresTyped, RunType
<1>2. PICK kept \in SUBSET DOMAIN inode, dest \in {name.dest} \cup name.before :
          /\ inode' = [i \in DOMAIN inode |->
                          IF i \in kept THEN inode[i]
                          ELSE [inode[i] EXCEPT !.data = inode[i].durable]]
          /\ name' = [name EXCEPT !.dest = dest]
  BY DEF PowerLoss
<1>3. /\ Named' \subseteq Named /\ name'.partial = name.partial
      /\ Named \subseteq Task \cup {Old}
  BY <1>2 DEF Named, CliTyped, StoresTyped, NameType
<1>4. ASSUME NEW i \in Task \cup {Old}
      PROVE  inode'[i].data \in {inode[i].data, inode[i].durable}
             /\ inode'[i].durable = inode[i].durable
             /\ (inode[i].data = inode[i].durable => inode'[i] = inode[i])
  <2>1. inode[i] \in InodeType
    BY <1>1
  <2>2. inode'[i] = inode[i] \/ inode'[i] = [inode[i] EXCEPT !.data = inode[i].durable]
    BY <1>1, <1>2
  <2>3. QED
    BY <2>1, <2>2 DEF InodeType
<1>5. Fresh'
  BY <1>1 DEF Fresh
<1>6. OldKept'
  <2>1. inode[Old].data = inode[Old].durable
    BY DEF FilesInv, OldKept
  <2>2. inode'[Old] = inode[Old]
    BY <1>4, <2>1
  <2>3. QED
    BY <2>2 DEF FilesInv, OldKept, OldFile
<1>7. ASSUME ~overlapped' PROVE NoneOverlap'
  <2>1. NoneOverlap
    BY <1>1, <1>7 DEF FilesInv
  <2>2. \A p \in Task : run'[p].stage \notin Working
    BY <1>1 DEF Working, OnPartial
  <2>3. \A p \in Task : Stands(p)' /\ LoneSound(p)'
    BY <1>1 DEF Stands, LoneSound, OnPartial, At
  <2>4. \A i \in Named' : inode'[i].data \in Whole' /\ inode'[i].durable \in Whole'
    BY <1>3, <1>4, <2>1, WholeStays DEF NoneOverlap
  <2>5. QED
    BY <1>3, <2>1, <2>2, <2>3, <2>4 DEF NoneOverlap
<1>8. QED
  BY <1>5, <1>6, <1>7 DEF FilesInv

LEMMA FilesRest ==
    ASSUME CliTyped, FilesInv, UNCHANGED <<files, job>>, UNCHANGED <<run, inode, name, overlapped>>
    PROVE  FilesInv'
<1>1. Named' = Named /\ Fresh' /\ OldKept'
  BY DEF FilesInv, Named, Fresh, OldKept, OldFile
<1>2. ASSUME ~overlapped' PROVE NoneOverlap'
  <2>1. NoneOverlap
    BY <1>2 DEF FilesInv
  <2>2. ASSUME NEW p \in Task PROVE Stands(p)' /\ LoneSound(p)'
    <3>1. Stands(p)'
      BY <2>1, StandsStays DEF NoneOverlap
    <3>2. Lone(p)' => Lone(p)
      BY RangesStay DEF Lone, At
    <3>3. LoneSound(p)'
      BY <2>1, <3>2, LoneSoundStays DEF NoneOverlap
    <3>4. QED
      BY <3>1, <3>3
  <2>3. \A i \in Named' : inode'[i].data \in Whole' /\ inode'[i].durable \in Whole'
    BY <1>1, <2>1, WholeStays DEF NoneOverlap
  <2>4. QED
    BY <1>1, <2>1, <2>2, <2>3 DEF NoneOverlap
<1>3. QED
  BY <1>1, <1>2 DEF FilesInv

LEMMA FilesStayWhole ==
    ASSUME CliInv, BytesInv, FilesInv, [Next]_vars
    PROVE  FilesInv'
<1>1. /\ UNCHANGED <<files, job>> /\ CliTyped
      /\ \/ UNCHANGED cliVars
         \/ \E p \in Task : IsCommand(p) /\ Acts(p)
         \/ InputChanges
         \/ PowerLoss
  BY StepCases DEF CliInv
<1>2. CASE UNCHANGED cliVars \/ InputChanges
  BY <1>1, <1>2, FilesRest DEF cliVars, InputChanges, KeepFiles
<1>3. ASSUME NEW p \in Task, IsCommand(p), Acts(p) PROVE FilesInv'
  <2>1. CASE PlainAct(p)
    BY <1>1, <1>3, <2>1, PlainKeeps
  <2>2. CASE CreatePartial(p) \/ CopyChunk(p) \/ SetLength(p) \/ SyncAll(p)
    BY <1>1, <2>2, CreateKeeps, CopyKeeps, SetLengthKeeps, SyncKeeps
  <2>3. CASE Rename(p) \/ CopyFails(p) \/ Cleanup(p)
    BY <1>1, <2>3, RenameKeeps, CopyFailsKeeps, CleanupKeeps
  <2>4. QED
    BY <1>3, <2>1, <2>2, <2>3 DEF Acts, PlainAct, CommandStep, CommandFails
<1>4. QED
  BY <1>1, <1>2, <1>3, PowerLossKeeps

LEMMA FilesInvHolds ==
    ASSUME Alone
    PROVE  Spec => [](CliInv /\ FilesInv)
<1>1. Init => FilesInv
  <2> SUFFICES ASSUME Init PROVE FilesInv
    OBVIOUS
  <2>1. /\ name = [dest |-> Old, partial |-> None, before |-> {}]
        /\ inode[Old] = [data |-> OldFile, durable |-> OldFile]
        /\ \A p \in Task : run[p] = IdleRun
        /\ Old \notin Task /\ None \notin Task /\ None # Old
    BY TransferAssumption DEF Init, CliInit
  <2>2. Named = {Old} /\ \A p \in Task : run[p].stage = "start"
    BY <2>1 DEF Named, IdleRun
  <2>3. Fresh /\ OldKept
    BY <2>1, <2>2 DEF Fresh, OldKept
  <2>4. NoneOverlap
    BY <2>1, <2>2 DEF NoneOverlap, Whole, Stands, LoneSound, Working, OnPartial, At
  <2>5. QED
    BY <2>3, <2>4 DEF FilesInv
<1>2. CliInv /\ BytesInv /\ FilesInv /\ [Next]_vars => FilesInv'
  BY FilesStayWhole
<1>3. QED
  BY <1>1, <1>2, BytesInvHolds, PTL DEF Spec

(* FILE is what it was or a whole range some read asked for (img.rs), for  *)
(* every disk, chunk size and number of reads, wherever one fails, is      *)
(* killed or loses power, as long as no two reads to FILE overlap and no   *)
(* other command runs beside a write.                                      *)
THEOREM FilesAreWhole ==
    ASSUME Alone
    PROVE  Spec => []FileIsWhole
<1>1. CliInv /\ FilesInv => FileIsWhole
  <2> SUFFICES ASSUME CliInv, FilesInv, ~overlapped PROVE FileIsWhole
    BY DEF FileIsWhole
  <2>1. NoneOverlap /\ OldKept
    BY DEF FilesInv
  <2>2. inode[name.dest].data \in Whole
    BY <2>1 DEF NoneOverlap, Named
  <2>3. ASSUME NEW p \in Task, ReadsTo(p, "file"), At(p, "returned"),
               run[p].result \in {"ok", "failed"},
               \A q \in Task \ {p} : ReadsTo(q, "file") => At(q, "start")
        PROVE  /\ name.partial = None
               /\ inode[name.dest].data = IF run[p].result = "ok" THEN Slice(p) ELSE OldFile
    <3>1. Lone(p) /\ LoneSound(p)
      BY <2>1, <2>3 DEF Lone, NoneOverlap
    <3>2. QED
      BY <2>1, <2>3, <3>1 DEF LoneSound, OldKept
  <2>4. QED
    BY <2>2, <2>3 DEF FileIsWhole, Whole
<1>2. QED
  BY <1>1, FilesInvHolds, PTL
=============================================================================
