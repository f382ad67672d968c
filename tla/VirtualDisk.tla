----------------------------- MODULE VirtualDisk -----------------------------
(***************************************************************************)
(* What a writable image promises, as a flat array of words: a write       *)
(* changes its own words to its own value, in any number of steps, or      *)
(* fails after some of them; a flush makes the present contents            *)
(* survive; a crash leaves in every word a value it has held since the     *)
(* last flush.  WritePath implements it.                                   *)
(***************************************************************************)
CONSTANTS
    VWord,      \* the addressable words
    Writer,     \* the threads that write
    Value       \* what a word can hold

VARIABLES
    disk,       \* the contents
    may,        \* what each word may hold after a crash
    todo,       \* the words a writer has still to change
    payload     \* the value it changes them to

diskVars == <<disk, may, todo, payload>>

Init ==
    /\ disk \in [VWord -> Value]
    /\ may = [x \in VWord |-> {disk[x]}]
    /\ todo = [t \in Writer |-> {}]
    /\ payload \in [Writer -> Value]

(* Between two writes a writer turns to another payload.                   *)
Renew(t) ==
    /\ payload' \in [Writer -> Value]
    /\ \A u \in Writer \ {t} : payload'[u] = payload[u]

(* A write begins; with no words, a finished one forgets its payload.      *)
Start(t) ==
    /\ todo[t] = {}
    /\ \E words \in SUBSET VWord : todo' = [todo EXCEPT ![t] = words]
    /\ Renew(t)
    /\ UNCHANGED <<disk, may>>

(* Some of the words land, together.                                       *)
Land(t) ==
    \E words \in SUBSET todo[t] :
        /\ disk' = [x \in VWord |-> IF x \in words THEN payload[t] ELSE disk[x]]
        /\ may' = [x \in VWord |-> may[x] \cup {disk'[x]}]
        /\ todo' = [todo EXCEPT ![t] = @ \ words]
        /\ UNCHANGED payload

(* An error: the words that have not landed never will.                    *)
GiveUp(t) ==
    /\ todo' = [todo EXCEPT ![t] = {}]
    /\ Renew(t)
    /\ UNCHANGED <<disk, may>>

Flush ==
    /\ may' = [x \in VWord |-> {disk[x]}]
    /\ UNCHANGED <<disk, todo, payload>>

Crash ==
    /\ disk' \in [VWord -> Value]
    /\ \A x \in VWord : disk'[x] \in may[x]
    /\ may' = [x \in VWord |-> {disk'[x]}]
    /\ todo' = [t \in Writer |-> {}]
    /\ payload' \in [Writer -> Value]

Next == (\E t \in Writer : Start(t) \/ Land(t) \/ GiveUp(t)) \/ Flush \/ Crash

Spec == Init /\ [][Next]_diskVars
=============================================================================
