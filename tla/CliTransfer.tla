---------------------------- MODULE CliTransfer ----------------------------
(***************************************************************************)
(* `img.qcow2 IMAGE read` and `img.qcow2 IMAGE write`: the range checks,   *)
(* the chunked copies, FILE.partial and its rename, the refusals before    *)
(* the first byte.  Processes share the file system and may be killed; the *)
(* power may fail.  A file is an inode; a process keeps the one it opened. *)
(***************************************************************************)
EXTENDS ImageOpen

CONSTANTS
    Chunk,          \* CHUNK, one mebibyte in the code
    Guest,          \* the guest's bytes before any command
    LongestInput,   \* bound on what the file on stdin may grow to
    None            \* an option not given, a name without a file

Old == "old"            \* the inode of the FILE that was there before

ASSUME TransferAssumption ==
    /\ Chunk \in Nat \ {0} /\ LongestInput \in Nat
    /\ Guest \in Seq(Nat)
    /\ None \notin Nat \cup Task \cup {Old}
    /\ Old \notin Task

VARIABLES
    job,            \* each process's command line; it does not change
    run,            \* how far it has come
    inode,          \* each file's bytes, and those a power loss would leave
    name,           \* the inodes FILE and FILE.partial name, and what FILE named
    guest,          \* the guest's bytes, seen through the image
    flushed,        \* whether the image was flushed since the last write
    input,          \* the bytes of the file, or in the pipe, on stdin
    overlapped      \* history: two reads to FILE ran at the same time

cliVars == <<run, inode, name, guest, flushed, input, overlapped>>

OldFile == <<7>>

(* at and end: positions in the guest; took: the bytes moved; sent: how    *)
(* many of them the pipe has; file: the inode of FILE.partial.             *)
IdleRun == [stage |-> "start", at |-> 0, end |-> 0, took |-> <<>>, sent |-> 0,
            file |-> None, result |-> "none"]

CliInit ==
    /\ run = [p \in Task |-> IdleRun]
    /\ inode = [i \in Task \cup {Old} |->
                   IF i = Old THEN [data |-> OldFile, durable |-> OldFile]
                   ELSE [data |-> <<>>, durable |-> <<>>]]
    /\ name = [dest |-> Old, partial |-> None, before |-> {}]
    /\ guest = Guest
    /\ flushed = TRUE
    /\ overlapped = FALSE

CliTypeOK ==
    /\ \A p \in Task :
        /\ run[p].at <= run[p].end
        /\ run[p].sent <= Len(run[p].took)
        /\ run[p].file \in Task \cup {None}
    /\ {name.dest, name.partial} \subseteq Task \cup {Old, None}

Least(S) == CHOOSE n \in S : \A m \in S : n <= m
Prefixes(bytes) == {SubSeq(bytes, 1, k) : k \in 0 .. Len(bytes)}

(* A file after bytes are written at pos: a gap before pos reads as zeros. *)
Placed(data, pos, bytes) ==
    IF bytes = <<>> THEN data
    ELSE [i \in 1 .. (IF Len(data) > pos + Len(bytes) THEN Len(data) ELSE pos + Len(bytes)) |->
             IF i \in pos + 1 .. pos + Len(bytes) THEN bytes[i - pos]
             ELSE IF i <= Len(data) THEN data[i] ELSE 0]

(* set_len: cut, or extended with zeros.                                   *)
Resized(data, n) == [i \in 1 .. n |-> IF i <= Len(data) THEN data[i] ELSE 0]

At(p, stage) == run[p].stage = stage
Moved(p, stage) == run' = [run EXCEPT ![p].stage = stage]

(* The command returns; the reader goes with it.                           *)
Return(p, result) ==
    /\ run' = [run EXCEPT ![p].stage = "returned", ![p].result = result]
    /\ opening' = [opening EXCEPT ![p] = Idle]
    /\ UNCHANGED files

KeepFiles == UNCHANGED <<inode, name, overlapped>>
KeepGuest == UNCHANGED <<guest, flushed, input>>

BeginCommand(p) ==
    /\ job[p].verb # "none" /\ At(p, "start")
    /\ Moved(p, "opening")
    /\ StartOpen(p, job[p].image, IF job[p].verb = "read" THEN "ro" ELSE "rw")
    /\ KeepFiles /\ KeepGuest

NotOpened(p) ==
    /\ At(p, "opening") /\ OpenAt(p, "failed")
    /\ Return(p, "refused")
    /\ KeepFiles /\ KeepGuest

Opened(p, verb) == job[p].verb = verb /\ At(p, "opening") /\ OpenAt(p, "done")

VirtualSize(p) == HeaderOf(job[p].image).virtual_size

(***************************************************************************)
(* read                                                                    *)
(***************************************************************************)
(* `range`: the length defaults to the rest of the disk.                   *)
From(p) == IF job[p].offset = None THEN 0 ELSE job[p].offset
Length(p) == IF job[p].length = None THEN VirtualSize(p) - From(p) ELSE job[p].length
InRange(p) ==
    /\ From(p) <= VirtualSize(p)
    /\ From(p) + Length(p) <= VirtualSize(p)

StartRead(p) ==
    /\ Opened(p, "read")
    /\ IF InRange(p)
       THEN /\ run' = [run EXCEPT ![p].at = From(p), ![p].end = From(p) + Length(p),
                           ![p].stage = IF job[p].to = "stdout" THEN "stream" ELSE "create"]
            /\ UNCHANGED openVars
       ELSE Return(p, "refused")
    /\ KeepFiles /\ KeepGuest

(* The next chunk: no more than CHUNK, no further than the end.            *)
ReadChunk(p) == SubSeq(guest, run[p].at + 1, Least({run[p].at + Chunk, run[p].end}))

(* Mutant: one chunk more, of no bytes, and so on for ever.                *)
MoreOrNone(p) == run[p].at <= run[p].end

More(p) == run[p].at < run[p].end

(* To stdout: read a chunk, hand it to the buffered writer.  The pipe has  *)
(* taken what it has taken.                                                *)
Stream(p) ==
    /\ At(p, "stream") /\ More(p)
    /\ LET handed == run[p].took \o ReadChunk(p) IN
       \E sent \in run[p].sent .. Len(handed) :
           run' = [run EXCEPT ![p].at = @ + Len(ReadChunk(p)), ![p].took = handed,
                              ![p].sent = sent]
    /\ UNCHANGED openVars /\ KeepFiles /\ KeepGuest

FlushOut(p) ==
    /\ At(p, "stream") /\ ~More(p)
    /\ run' = [run EXCEPT ![p].stage = "returned", ![p].result = "ok",
                          ![p].sent = Len(run[p].took)]
    /\ opening' = [opening EXCEPT ![p] = Idle]
    /\ UNCHANGED files /\ KeepFiles /\ KeepGuest

(* The image turns out unreadable, stdout fails, or the far end of the     *)
(* pipe closed, which ends the command without an error.                   *)
StreamFails(p) ==
    /\ At(p, "stream")
    /\ \E result \in {"failed", "closed"} : Return(p, result)
    /\ KeepFiles /\ KeepGuest

(* To FILE.  From here to its return the process works on FILE.partial.    *)
OnPartial == {"create", "copy", "sync", "rename", "cleanup"}
Others(p) == {q \in Task \ {p} : run[q].stage \in OnPartial \ {"create"}}

(* File::create: a file that is there is emptied, not replaced.            *)
CreatePartial(p) ==
    LET file == IF name.partial = None THEN p ELSE name.partial IN
    /\ At(p, "create")
    /\ name' = [name EXCEPT !.partial = file]
    /\ inode' = [inode EXCEPT ![file].data = <<>>]
    /\ overlapped' = (overlapped \/ Others(p) # {})
    /\ run' = [run EXCEPT ![p].stage = "copy", ![p].file = file]
    /\ UNCHANGED openVars /\ KeepGuest

File(p) == run[p].file
Write(p, bytes) ==
    inode' = [inode EXCEPT ![File(p)].data = Placed(@, run[p].at - From(p), bytes)]

(* A chunk of zeros is skipped over, any other written.                    *)
CopyChunk(p) ==
    LET bytes == ReadChunk(p) IN
    /\ At(p, "copy") /\ More(p)
    /\ IF \A i \in 1 .. Len(bytes) : bytes[i] = 0
       THEN UNCHANGED inode
       ELSE Write(p, bytes)
    /\ run' = [run EXCEPT ![p].at = @ + Len(bytes)]
    /\ UNCHANGED <<openVars, name, overlapped>> /\ KeepGuest

(* Mutant: the length is left to what was written.                         *)
NoSetLength(p) ==
    /\ At(p, "copy") /\ ~More(p)
    /\ Moved(p, "sync")
    /\ UNCHANGED <<openVars, inode, name, overlapped>> /\ KeepGuest

SetLength(p) ==
    /\ At(p, "copy") /\ ~More(p)
    /\ inode' = [inode EXCEPT ![File(p)].data = Resized(@, Length(p))]
    /\ Moved(p, "sync")
    /\ UNCHANGED <<openVars, name, overlapped>> /\ KeepGuest

SyncAll(p) ==
    /\ At(p, "sync")
    /\ inode' = [inode EXCEPT ![File(p)].durable = inode[File(p)].data]
    /\ Moved(p, "rename")
    /\ UNCHANGED <<openVars, name, overlapped>> /\ KeepGuest

Rename(p) ==
    /\ At(p, "rename") /\ name.partial # None
    /\ name' = [dest |-> name.partial, partial |-> None,
                before |-> name.before \cup {name.dest}]
    /\ Return(p, "ok")
    /\ UNCHANGED <<inode, overlapped>> /\ KeepGuest

(* A rename that fails leaves FILE.partial, which is whole.                *)
RenameFails(p) ==
    /\ At(p, "rename")
    /\ Return(p, "kept")
    /\ KeepFiles /\ KeepGuest

(* Any call on the way fails; a write may have put down some of its bytes. *)
CopyFails(p) ==
    /\ run[p].stage \in {"create", "copy", "sync"}
    /\ IF At(p, "copy") /\ More(p)
       THEN \E bytes \in Prefixes(ReadChunk(p)) : Write(p, bytes)
       ELSE UNCHANGED inode
    /\ overlapped' = (overlapped \/ Others(p) # {})
    /\ Moved(p, "cleanup")
    /\ UNCHANGED <<openVars, name>> /\ KeepGuest

(* remove_file, whose own failure is ignored.                              *)
Cleanup(p) ==
    /\ At(p, "cleanup")
    /\ \/ name' = [name EXCEPT !.partial = None] /\ Return(p, "failed")
       \/ UNCHANGED name /\ Return(p, "kept")
    /\ UNCHANGED <<inode, overlapped>> /\ KeepGuest

(***************************************************************************)
(* write                                                                   *)
(***************************************************************************)
Room(p) == VirtualSize(p) - job[p].offset

(* The bytes to come must fit; a file on stdin must not be the image.      *)
Accepts(p) ==
    /\ job[p].offset <= VirtualSize(p)
    /\ job[p].from # "image"
    /\ Len(input) <= Room(p)

(* A file's length is taken here and bounds the copy; a pipe is read whole,*)
(* up to one byte more than fits.                                          *)
StartWrite(p) ==
    /\ Opened(p, "write")
    /\ IF Accepts(p)
       THEN /\ run' = [run EXCEPT ![p].at = job[p].offset,
                                  ![p].end = job[p].offset + Len(input),
                                  ![p].stage = "copyIn",
                                  ![p].took = IF job[p].from = "pipe" THEN input ELSE <<>>]
            /\ UNCHANGED openVars
       ELSE Return(p, "refused")
    /\ KeepFiles /\ KeepGuest

InputFails(p) ==
    /\ Opened(p, "write")
    /\ Return(p, "refused")
    /\ KeepFiles /\ KeepGuest

(* How many bytes of the input the command has written.                    *)
Done(p) == run[p].at - job[p].offset

(* Mutant: reads on as long as the file has bytes.                         *)
NextInputUnbounded(p) ==
    IF job[p].from = "pipe"
    THEN {SubSeq(run[p].took, Done(p) + 1, Least({Done(p) + Chunk, Len(run[p].took)}))}
    ELSE LET last == Least({Done(p) + Chunk, Len(input)})
         IN  IF last <= Done(p) THEN {<<>>}
             ELSE {SubSeq(input, Done(p) + 1, n) : n \in Done(p) + 1 .. last}

(* What the next read of the input may return: a pipe's bytes are held     *)
(* already and come in chunks; a file gives what is there, perhaps less    *)
(* than asked, never past the length that was checked.                     *)
NextInput(p) ==
    IF job[p].from = "pipe"
    THEN {SubSeq(run[p].took, Done(p) + 1, Least({Done(p) + Chunk, Len(run[p].took)}))}
    ELSE LET last == Least({Done(p) + Chunk, run[p].end - job[p].offset, Len(input)})
         IN  IF last <= Done(p) THEN {<<>>}
             ELSE {SubSeq(input, Done(p) + 1, n) : n \in Done(p) + 1 .. last}

(* write_at refuses what does not fit; otherwise the bytes are the guest's.*)
Fits(p, bytes) == run[p].at + Len(bytes) <= VirtualSize(p)

Took(p, bytes) == IF job[p].from = "pipe" THEN run[p].took ELSE run[p].took \o bytes

CopyIn(p) ==
    /\ At(p, "copyIn")
    /\ \E bytes \in NextInput(p) \ {<<>>} :
           /\ Fits(p, bytes)
           /\ guest' = Placed(guest, run[p].at, bytes)
           /\ run' = [run EXCEPT ![p].at = @ + Len(bytes), ![p].took = Took(p, bytes)]
    /\ flushed' = FALSE
    /\ UNCHANGED <<openVars, input>> /\ KeepFiles

EndOfInput(p) ==
    /\ At(p, "copyIn") /\ <<>> \in NextInput(p)
    /\ Moved(p, "flush")
    /\ UNCHANGED openVars /\ KeepFiles /\ KeepGuest

(* The input or the image fails; part of the chunk may have landed.        *)
CopyInFails(p) ==
    /\ At(p, "copyIn")
    /\ \E bytes \in NextInput(p) : \E part \in Prefixes(bytes) :
           /\ guest' = IF Fits(p, bytes) THEN Placed(guest, run[p].at, part) ELSE guest
           /\ run' = [run EXCEPT ![p].stage = "returned", ![p].result = "failed",
                                 ![p].took = Took(p, bytes)]
    /\ flushed' = FALSE
    /\ opening' = [opening EXCEPT ![p] = Idle]
    /\ UNCHANGED <<files, input>> /\ KeepFiles

Flush(p) ==
    /\ At(p, "flush")
    /\ \/ flushed' = TRUE /\ Return(p, "ok")
       \/ UNCHANGED flushed /\ Return(p, "failed")
    /\ UNCHANGED <<guest, input>> /\ KeepFiles

(***************************************************************************)
(* What happens besides: another program changes the file on stdin, a      *)
(* process is killed, the power fails.                                     *)
(***************************************************************************)
InputChanges ==
    /\ \E p \in Task : job[p].verb = "write" /\ job[p].from = "file" /\ At(p, "copyIn")
    /\ \/ Len(input) < LongestInput /\ input' = Append(input, Len(input) + 1)
       \/ input # <<>> /\ input' = SubSeq(input, 1, Len(input) - 1)
    /\ UNCHANGED <<openVars, run, guest, flushed>> /\ KeepFiles

Ended(p) == run[p].stage \in {"start", "returned", "dead"}

Kill(p) ==
    /\ ~Ended(p)
    /\ run' = [run EXCEPT ![p].stage = "dead"]
    /\ opening' = [opening EXCEPT ![p] = Idle]
    /\ UNCHANGED files /\ KeepFiles /\ KeepGuest

(* Every process ends; a file holds what it held or what was synced; FILE  *)
(* names what it names or what it named, a rename alone being no barrier.  *)
PowerLoss ==
    /\ \E p \in Task : run[p].stage \in OnPartial
    /\ run' = [p \in Task |-> [run[p] EXCEPT !.stage = "dead"]]
    /\ opening' = [p \in Task |-> Idle]
    /\ \E kept \in SUBSET DOMAIN inode, dest \in {name.dest} \cup name.before :
           /\ inode' = [i \in DOMAIN inode |->
                           IF i \in kept THEN inode[i]
                           ELSE [inode[i] EXCEPT !.data = inode[i].durable]]
           /\ name' = [name EXCEPT !.dest = dest]
    /\ UNCHANGED <<files, overlapped>> /\ KeepGuest

CommandStep(p) ==
    \/ NotOpened(p)
    \/ StartRead(p) \/ Stream(p) \/ FlushOut(p)
    \/ CreatePartial(p) \/ CopyChunk(p) \/ SetLength(p) \/ SyncAll(p) \/ Rename(p)
    \/ (At(p, "rename") /\ name.partial = None /\ RenameFails(p))
    \/ Cleanup(p)
    \/ StartWrite(p) \/ CopyIn(p) \/ EndOfInput(p) \/ Flush(p)

CommandFails(p) ==
    StreamFails(p) \/ RenameFails(p) \/ CopyFails(p) \/ InputFails(p) \/ CopyInFails(p)

(***************************************************************************)
(* Properties                                                              *)
(***************************************************************************)
ReadsTo(p, to) == job[p].verb = "read" /\ job[p].to = to
Slice(p) == SubSeq(Guest, From(p) + 1, From(p) + Length(p))

(* `read -o FILE` (img.rs): as long as no two reads to FILE overlap, FILE  *)
(* is what it was or a whole range some read asked for, at every moment:   *)
(* after a failing device call, a kill or a power loss too.  A lone read   *)
(* that succeeded left its own range there, and one that returned left no  *)
(* FILE.partial unless the rename or the removal failed.                   *)
FileIsWhole ==
    ~overlapped =>
        /\ inode[name.dest].data \in
               {OldFile} \cup {Slice(p) : p \in {q \in Task : ReadsTo(q, "file") /\ InRange(q)}}
        /\ \A p \in Task :
               /\ ReadsTo(p, "file") /\ At(p, "returned") /\ run[p].result \in {"ok", "failed"}
               /\ \A q \in Task \ {p} : ReadsTo(q, "file") => At(q, "start")
               => /\ name.partial = None
                  /\ inode[name.dest].data = IF run[p].result = "ok" THEN Slice(p) ELSE OldFile

(* Both transfers, byte by byte (img.rs): a pipe gets a prefix of the      *)
(* range, all of it on success; a refused command moved nothing; a write   *)
(* changes no byte outside the range whose length it checked, whatever     *)
(* happens to its input meanwhile, and inside it only to the input's       *)
(* bytes; a write that reports success has flushed every byte it reports.  *)
TransferIsExact ==
    \A p \in Task :
        /\ ReadsTo(p, "stdout") /\ run[p].took # <<>> =>
               run[p].took = SubSeq(Slice(p), 1, Len(run[p].took))
        /\ ReadsTo(p, "stdout") /\ run[p].result = "ok" =>
               run[p].took = Slice(p) /\ run[p].sent = Length(p)
        /\ job[p].verb = "write" =>
               /\ Len(guest) = Len(Guest)
               /\ \A i \in 1 .. Len(Guest) :
                      \/ guest[i] = Guest[i]
                      \/ /\ i \in job[p].offset + 1 .. run[p].end
                         /\ guest[i] = run[p].took[i - job[p].offset]
               /\ run[p].result = "refused" => guest = Guest
               /\ run[p].result = "ok" =>
                      /\ flushed
                      /\ SubSeq(guest, job[p].offset + 1, run[p].at) = run[p].took
=============================================================================
