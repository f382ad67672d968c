----------------------------- MODULE MCSession -----------------------------
(***************************************************************************)
(* Session for TLC: one disk of five bytes moved two at a time, chains of  *)
(* at most three images, two processes and one caller.                     *)
(***************************************************************************)
EXTENDS Session, TLC

Raw == <<"raw">>
Leaf == <<"d", "leaf">>

Head0 == [magic |-> TRUE, version |-> 3, cluster_bits |-> 9, virtual_size |-> 5,
          crypt_method |-> 0, l1_size |-> 1, l1_table_offset |-> 512,
          refcount_table_offset |-> 1024, snapshots_offset |-> 0,
          backing_file_offset |-> 0, backing_file_size |-> 0, incompatible |-> {},
          header_length |-> "short", compression_type |-> 0]

File0 == [prefix |-> "whole", head |-> Head0, size |-> 2048, permits_write |-> TRUE,
          name |-> <<>>, name_is |-> "text", inside |-> Raw]

With(head) == [File0 EXCEPT !.head = head]
Over(path) == [File0 EXCEPT !.name = path, !.head.backing_file_offset = 104,
                            !.head.backing_file_size = 9]
NotAnImage == With([Head0 EXCEPT !.magic = FALSE])
Flagged(version, features) == [Head0 EXCEPT !.version = version, !.incompatible = features]

(* Headers at and past every limit the code checks.                        *)
Leaves ==
    {With([Head0 EXCEPT !.version = v]) : v \in {1, 2, 3, 4}}
    \cup {With([Head0 EXCEPT !.cluster_bits = b, !.l1_table_offset = 0,
                             !.refcount_table_offset = 0]) : b \in {8, 9, 10, 22}}
    \cup {With([Head0 EXCEPT !.virtual_size = size, !.l1_size = entries]) :
              size \in {0, 32768, 32769}, entries \in {0, 1, 2}}
    \cup {With([Head0 EXCEPT !.l1_table_offset = at]) : at \in {256, 1536, 2048}}
    \cup {With([Head0 EXCEPT !.l1_size = entries]) : entries \in {192, 193}}
    \cup {With([Head0 EXCEPT !.refcount_table_offset = 256]),
          With([Head0 EXCEPT !.snapshots_offset = 256]),
          With([Head0 EXCEPT !.crypt_method = 1]), NotAnImage}
    \cup {With(Flagged(v, {f})) : v \in {2, 3}, f \in Feature}
    \cup {With([Head0 EXCEPT !.compression_type = type, !.header_length = length]) :
              type \in {1, 2}, length \in {"short", "long"}}
    \cup {[With(Flagged(3, {"unknown"})) EXCEPT !.prefix = p] : p \in Prefix}
    \cup {[File0 EXCEPT !.permits_write = FALSE]}
    \cup {With([Head0 EXCEPT !.backing_file_offset = at, !.backing_file_size = n]) :
              at \in {0, 512, 513}, n \in {0, 1}}

(* Chains: the longest that opens, one longer, cycles, a name that is      *)
(* relative, absolute, in another directory, damaged, too long, of nothing.*)
Base == <<"base">>
Chains == {
    Leaf :> Over(Base) @@ <<"d", "base">> :> File0,
    Leaf :> Over(<<"sub", "base">>) @@ <<"d", "sub", "base">> :> Over(<<"tip">>)
        @@ <<"d", "sub", "tip">> :> File0 @@ <<"d", "tip">> :> NotAnImage,
    Leaf :> Over(<<"sub", "base">>) @@ <<"d", "sub", "base">> :> Over(<<"tip">>)
        @@ <<"d", "sub", "tip">> :> With(Flagged(3, {"CORRUPT"})) @@ <<"d", "tip">> :> File0,
    Leaf :> Over(Base) @@ <<"d", "base">> :> Over(<<"b">>) @@ <<"d", "b">> :> Over(<<"c">>)
        @@ <<"d", "c">> :> File0,
    Leaf :> Over(<<"leaf">>),
    Leaf :> Over(Base) @@ <<"d", "base">> :> Over(<<"leaf">>),
    Leaf :> Over(<<"/", "base">>) @@ <<"/", "base">> :> With(Flagged(3, {"DIRTY"})),
    Leaf :> Over(<<"/", "base">>) @@ <<"d", "base">> :> File0,
    Leaf :> Over(Base) @@ <<"d", "base">> :> NotAnImage,
    Leaf :> [Over(Base) EXCEPT !.name_is = "nul"] @@ <<"d", "base">> :> File0,
    Leaf :> [Over(Base) EXCEPT !.name_is = "bytes"] @@ <<"d", "base">> :> File0,
    Leaf :> [Over(Base) EXCEPT !.head.cluster_bits = 11, !.head.l1_table_offset = 0,
                 !.head.refcount_table_offset = 0, !.head.backing_file_size = 1025]
        @@ <<"d", "base">> :> File0,
    Leaf :> [Over(Base) EXCEPT !.head.incompatible = {"DIRTY"}] @@ <<"d", "base">> :> File0 }

NoJob == [verb |-> "none"]
Jobs(p, q, c) == "p" :> p @@ "q" :> q @@ "c" :> c
Scenario(fs, jobs, bytes) == [files |-> fs @@ (Raw :> NotAnImage), job |-> jobs, input |-> bytes]

OpenJob(wanted) == [verb |-> "open", image |-> Leaf, wanted |-> wanted]
Openings == {Scenario(fs, Jobs(OpenJob(wanted), NoJob, NoJob), <<>>) :
               fs \in {Leaf :> leaf : leaf \in Leaves} \cup Chains \cup {Raw :> NotAnImage},
               wanted \in {"ro", "rw", "best"}}

Disk == Leaf :> File0
ReadJob(offset, length, to) ==
    [verb |-> "read", image |-> Leaf, offset |-> offset, length |-> length, to |-> to]
Reads == {Scenario(Disk, Jobs(ReadJob(range[1], range[2], to), NoJob, NoJob), <<>>) :
              range \in {<<None, None>>, <<1, 3>>, <<4, None>>, <<5, None>>, <<6, None>>, <<3, 3>>},
              to \in {"file", "stdout"}}
TwoReads == {Scenario(Disk, Jobs(ReadJob(None, None, "file"), ReadJob(1, 3, "file"), NoJob), <<>>)}

WriteJob(offset, from) == [verb |-> "write", image |-> Leaf, offset |-> offset, from |-> from]
Writes == {Scenario(Disk, Jobs(WriteJob(offset, from), NoJob, NoJob), [i \in 1 .. n |-> i]) :
              offset \in {0, 1, 5, 6}, from \in {"file", "pipe", "image"}, n \in {0, 1, 3, 4, 5, 6}}

(* One image whose guest holds an image, and one over it that cannot be    *)
(* written and whose parent cannot be found from inside a guest.           *)
CallFiles == Leaf :> [File0 EXCEPT !.inside = <<"d", "over">>]
             @@ <<"d", "over">> :> [Over(<<"leaf">>) EXCEPT !.permits_write = FALSE,
                                                            !.inside = Leaf]
CallerAlone == {[files |-> CallFiles, job |-> Jobs(NoJob, NoJob, [verb |-> "call"]),
            input |-> <<>>]}

AllScenarios == Openings \cup Reads \cup TwoReads \cup Writes \cup CallerAlone
AllPaths == UNION {DOMAIN s.files : s \in AllScenarios} \cup {Leaf}
TheGuest == <<0, 0, 9, 0, 0>>
=============================================================================
