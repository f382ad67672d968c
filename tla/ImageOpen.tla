----------------------------- MODULE ImageOpen -----------------------------
(***************************************************************************)
(* Opening an image: `open`, `open_rw`, `open_best_effort`, the two        *)
(* on-device entry points, and `open_inner`, which reads the header,       *)
(* checks it, reads the L1 table and opens the backing file the header     *)
(* names by recursion.  Each task opens one image; any device may fail.    *)
(***************************************************************************)
EXTENDS ImageHeader, Sequences

CONSTANTS
    Task,           \* the processes and threads that open images
    Path,           \* the paths there are; a path is a sequence of names
    MaxDepth,       \* MAX_BACKING_DEPTH, 16 in the code
    MaxName         \* 1024, the longest backing file name

ASSUME OpenAssumption == MaxDepth \in Nat \ {0} /\ MaxName \in Nat

VARIABLES
    files,          \* what each path holds; opening changes none of it
    opening         \* each task's call: its stage and the devices it holds

openVars == <<files, opening>>

Stages == {"idle", "open", "header", "l1", "backing", "done", "failed"}

FilesTyped(fs) ==
    /\ DOMAIN fs \subseteq Path
    /\ \A path \in DOMAIN fs :
        /\ fs[path].inside \in DOMAIN fs
        /\ fs[path].prefix \in Prefix
        /\ fs[path].head \in HeadType
        /\ fs[path].size \in Nat

(* One image of the chain: where it was opened and whether for writing.    *)
Image(path, writable) == [path |-> path, writable |-> writable]

Idle == [stage |-> "idle", wanted |-> "ro", path |-> <<>>, named |-> TRUE,
         depth |-> 0, held |-> <<>>]

OpenInit == opening = [t \in Task |-> Idle]

Current(call) == call.held[Len(call.held)]
HeaderOf(path) == HeadRead(files[path])

OpenAt(t, stage) == opening[t].stage = stage
Becomes(t, call) == opening' = [opening EXCEPT ![t] = call] /\ UNCHANGED files
Moves(t, stage) == Becomes(t, [opening[t] EXCEPT !.stage = stage])

(* Mutant: the second attempt starts on top of the first one's devices.    *)
RefusedHolding(call) ==
    IF call.wanted = "best"
    THEN [call EXCEPT !.stage = "open", !.wanted = "ro"]
    ELSE [call EXCEPT !.stage = "failed", !.held = <<>>]

(* An error drops the devices with the readers that hold them; the best    *)
(* effort then opens again, read-only.                                     *)
Refused(call) ==
    IF call.wanted = "best"
    THEN [call EXCEPT !.stage = "open", !.wanted = "ro", !.held = <<>>]
    ELSE [call EXCEPT !.stage = "failed", !.held = <<>>]
Refuse(t) == Becomes(t, Refused(opening[t]))

OpenTypeOK ==
    \A t \in Task : LET call == opening[t] IN
        /\ call.stage \in Stages
        /\ call.depth \in 0 .. MaxDepth
        /\ Len(call.held) <= MaxDepth + 1
        /\ call.stage \in {"idle", "open", "failed"} => call.held = <<>>

WantsWrite(call) == call.wanted \in {"rw", "best"}

StartOpen(t, path, wanted) ==
    /\ OpenAt(t, "idle")
    /\ Becomes(t, [Idle EXCEPT !.stage = "open", !.wanted = wanted, !.path = path])

(* On a device the caller holds there is no path to resolve a name against.*)
OpenOnDevice(t, path, deviceWritable, wanted) ==
    /\ OpenAt(t, "idle")
    /\ Becomes(t, IF wanted = "rw" /\ ~deviceWritable
                  THEN [Idle EXCEPT !.stage = "failed"]
                  ELSE [Idle EXCEPT !.stage = "header", !.wanted = wanted, !.path = path,
                                    !.named = FALSE, !.depth = MaxDepth,
                                    !.held = <<Image(path, wanted = "rw")>>])

Present(path, writable) ==
    /\ path \in DOMAIN files
    /\ writable => files[path].permits_write

(* Opening a file hands its device to open_inner with the depth left.      *)
Enter(call, path, writable, depth) ==
    [call EXCEPT !.stage = "header", !.depth = depth, !.held = @ \o <<Image(path, writable)>>]

OpenLeaf(t) ==
    LET call == opening[t] IN
    /\ OpenAt(t, "open")
    /\ IF Present(call.path, WantsWrite(call))
       THEN Becomes(t, Enter(call, call.path, WantsWrite(call), MaxDepth))
       ELSE Refuse(t)

(* What the header must satisfy for this reader, or this writer.           *)
Gate(image) ==
    LET head == HeaderOf(image.path) IN
    /\ Parses(head)
    /\ CheckSupported(head)
    /\ image.writable => CheckWritable(head)

ReadHeader(t) ==
    LET call == opening[t] IN
    /\ OpenAt(t, "header")
    /\ IF call.depth > 0 /\ files[Current(call).path].prefix # "short" /\ Gate(Current(call))
       THEN Moves(t, "l1")
       ELSE Refuse(t)

(* span_inside_the_image: the whole table lies within the device.          *)
TableInside(path) ==
    LET head == HeaderOf(path)
    IN  head.l1_table_offset + head.l1_size * TableEntryBytes <= files[path].size

ReadL1(t) ==
    /\ OpenAt(t, "l1")
    /\ IF TableInside(Current(opening[t]).path) THEN Moves(t, "backing") ELSE Refuse(t)

(* A relative name is joined to the directory of the image that names it;  *)
(* one that starts with the root stands as it is.                          *)
Absolute(name) == Len(name) > 0 /\ name[1] = "/"
Resolved(path, name) ==
    IF Absolute(name) THEN name ELSE SubSeq(path, 1, Len(path) - 1) \o name

(* Mutant: relative to the image that was opened, not to the one that      *)
(* names it.                                                               *)
LeafParent(call) == Resolved(call.path, files[Current(call).path].name)

Parent(call) == Resolved(Current(call).path, files[Current(call).path].name)

(* read_backing_path: short enough, without a NUL byte, and UTF-8.         *)
NameReads(path) ==
    /\ HeaderOf(path).backing_file_size <= MaxName
    /\ files[path].name_is = "text"

FollowBacking(t) ==
    LET call == opening[t]
        here == Current(call).path
    IN  /\ OpenAt(t, "backing")
        /\ IF ~NamesBacking(HeaderOf(here)) THEN Moves(t, "done")
           ELSE IF call.named /\ NameReads(here) /\ Present(Parent(call), FALSE)
           THEN Becomes(t, Enter(call, Parent(call), FALSE, call.depth - 1))
           ELSE Refuse(t)

(* A read of the header, the table or the name fails, or a file does not   *)
(* open.                                                                   *)
OpenFails(t) ==
    /\ opening[t].stage \in {"open", "header", "l1", "backing"}
    /\ Refuse(t)

(* The reader is dropped, or its error reported.                           *)
CloseImage(t) ==
    /\ opening[t].stage \in {"done", "failed"}
    /\ Becomes(t, Idle)

OpenStep(t) == OpenLeaf(t) \/ ReadHeader(t) \/ ReadL1(t) \/ FollowBacking(t)

(* Every virtual byte has an L1 entry, and the entry was read from within  *)
(* the file; the name of a parent cannot be something the guest wrote.     *)
WellFormedImage(path) ==
    LET head == HeaderOf(path) IN
    /\ head.virtual_size <= head.l1_size * CoveredByL1(head)
    /\ head.l1_table_offset + head.l1_size * TableEntryBytes <= files[path].size
    /\ head.backing_file_offset + head.backing_file_size <= ClusterSizeOf(head)

(* What an open that returned a reader promises, however the chain was     *)
(* arranged and whatever failed on the way (open_inner): the chain is no   *)
(* longer than the limit and ends at an image without a backing file, so a *)
(* cyclic one never opens; every image of it is well formed; each is the   *)
(* one its child names, seen from the child's directory; only the leaf may *)
(* be written, and only if nothing says its counts are not to be trusted.  *)
ChainIsSound ==
    \A t \in Task : OpenAt(t, "done") =>
        LET held == opening[t].held IN
        /\ Len(held) \in 1 .. MaxDepth
        /\ ~NamesBacking(HeaderOf(held[Len(held)].path))
        /\ \A i \in 1 .. Len(held) : WellFormedImage(held[i].path)
        /\ \A i \in 2 .. Len(held) :
               held[i] = Image(Resolved(held[i - 1].path, files[held[i - 1].path].name), FALSE)
        /\ held[1].writable =>
               WantsWrite(opening[t]) /\ CheckWritable(HeaderOf(held[1].path))
=============================================================================
