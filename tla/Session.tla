------------------------------ MODULE Session ------------------------------
(***************************************************************************)
(* Everything that opens an image, over one set of files: commands of the  *)
(* command line, users of the library, and a caller of the C ABI.          *)
(***************************************************************************)
EXTENDS CliTransfer, HandleOwnership

CONSTANT Scenarios      \* the files, the jobs and the input to start from

JobTyped(j) ==
    \A t \in Task :
        /\ j[t].verb \in {"read", "write", "open"} => j[t].image \in Path
        /\ j[t].verb = "open" => j[t].wanted \in {"ro", "rw", "best"}
        /\ j[t].verb = "read" => /\ {j[t].offset, j[t].length} \subseteq Nat \cup {None}
                                 /\ j[t].to \in {"file", "stdout"}
        /\ j[t].verb = "write" => j[t].offset \in Nat

(* The image a command is about, if it is there, is as long as the guest.  *)
HoldsGuest(s) ==
    \A t \in Task :
        s.job[t].verb \in {"read", "write"} /\ s.job[t].image \in DOMAIN s.files =>
            HeadRead(s.files[s.job[t].image]).virtual_size = Len(Guest)

ASSUME ScenariosAssumption ==
    \A s \in Scenarios :
        FilesTyped(s.files) /\ JobTyped(s.job) /\ s.input \in Seq(Nat) /\ HoldsGuest(s)

vars == <<openVars, cliVars, handleVars, job>>

Init ==
    /\ \E s \in Scenarios : files = s.files /\ job = s.job /\ input = s.input
    /\ OpenInit /\ CliInit /\ HandleInit

(* A process runs one command; its reads to a file all name the same FILE. *)
IsCommand(t) == job[t].verb \in {"read", "write"}
Command(t) ==
    /\ IsCommand(t)
    /\ CommandStep(t) \/ (OpenStep(t) /\ UNCHANGED cliVars)
    /\ UNCHANGED <<handleVars, job>>
Disturbed(t) ==
    /\ IsCommand(t)
    /\ BeginCommand(t) \/ CommandFails(t) \/ Kill(t) \/ (OpenFails(t) /\ UNCHANGED cliVars)
    /\ UNCHANGED <<handleVars, job>>
Outside ==
    /\ (InputChanges /\ UNCHANGED handleVars) \/ (PowerLoss /\ HandlesLost)
    /\ UNCHANGED job

(* A user of the library opens an image in one of the three ways and drops *)
(* the reader.                                                             *)
IsUser(t) == job[t].verb = "open"
Opens(t) == IsUser(t) /\ OpenStep(t) /\ UNCHANGED <<cliVars, handleVars, job>>
User(t) ==
    /\ IsUser(t)
    /\ StartOpen(t, job[t].image, job[t].wanted) \/ OpenFails(t) \/ CloseImage(t)
    /\ UNCHANGED <<cliVars, handleVars, job>>

IsCaller(t) == t = Caller /\ job[t].verb = "call"
Called(t) ==
    /\ IsCaller(t)
    /\ CallStep \/ (calling /\ OpenStep(t) /\ UNCHANGED handleVars)
    /\ UNCHANGED <<cliVars, job>>
Calls(t) ==
    /\ IsCaller(t)
    /\ CallsIn \/ (calling /\ OpenFails(t) /\ UNCHANGED handleVars)
    /\ UNCHANGED <<cliVars, job>>

(* What the system does of itself, once begun; nothing that fails.         *)
Advance(t) == Command(t) \/ Opens(t) \/ Called(t)

Next ==
    \/ \E t \in Task : Advance(t) \/ Disturbed(t) \/ User(t) \/ Calls(t)
    \/ Outside

Spec == Init /\ [][Next]_vars /\ \A t \in Task : WF_vars(Advance(t))

TypeOK == OpenTypeOK /\ CliTypeOK /\ HandleTypeOK

(* Every call and command ends (open_inner, read, write): a chain that     *)
(* leads back into itself with an error at the depth limit, a copy from a  *)
(* file that grows or shrinks meanwhile at the length that was checked.    *)
CallsEnd ==
    \A t \in Task :
        /\ opening[t].stage \in {"open", "header", "l1", "backing"}
               ~> opening[t].stage \in {"idle", "done", "failed"}
        /\ ~Ended(t) ~> Ended(t)
        /\ calling ~> ~calling
=============================================================================
