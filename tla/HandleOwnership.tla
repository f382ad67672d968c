-------------------------- MODULE HandleOwnership --------------------------
(***************************************************************************)
(* The C ABI: `open_path` and `open_on_device`, which turn an image into a *)
(* device handle, the second by consuming the handle it stands on.  A      *)
(* handle is a box around a counted reference to a device; a reader holds  *)
(* one reference to the device below it.  One caller, which uses only the  *)
(* handles it owns; a handle's number, like an address, is used again.     *)
(***************************************************************************)
EXTENDS ImageOpen

CONSTANTS
    Caller,         \* the task that calls the library
    Handle,         \* the addresses a handle may have
    Nowhere         \* no handle, no device below

ASSUME HandleAssumption == Caller \in Task /\ Nowhere \notin Handle

VARIABLES
    node,           \* each handle's box and the counted device in it
    shows,          \* whether the device can be written, and what it holds
    owned,          \* the handles the caller has to close
    below,          \* the device the call in progress holds a reference to
    calling         \* whether a call is in progress

handleVars == <<node, shows, owned, below, calling>>

NoNode == [boxes |-> 0, refs |-> 0, alive |-> FALSE, under |-> Nowhere]
Shown(writable, content) == [writable |-> writable, content |-> content]

HandleInit ==
    /\ node = [h \in Handle |-> NoNode]
    /\ shows = [h \in Handle |-> Shown(FALSE, <<>>)]
    /\ owned = {}
    /\ below = Nowhere
    /\ calling = FALSE

(* The process that held the handles is gone.                              *)
HandlesLost ==
    /\ node' = [h \in Handle |-> NoNode]
    /\ shows' = [h \in Handle |-> Shown(FALSE, <<>>)]
    /\ owned' = {}
    /\ below' = Nowhere
    /\ calling' = FALSE

HandleTypeOK ==
    /\ \A h \in Handle :
        /\ node[h].boxes \in 0 .. 1
        /\ node[h].refs \in 0 .. 1
        /\ node[h].under \in Handle \cup {Nowhere}
    /\ owned \subseteq Handle
    /\ below \in Handle \cup {Nowhere}
    /\ ~calling => below = Nowhere

(* Destructors run before the call that dropped the last reference goes on.*)
Settled == \A h \in Handle : node[h].alive => node[h].refs > 0
Unused(h) == ~node[h].alive /\ node[h].boxes = 0
Ready == Settled /\ ~calling

(* Bound: a call is made only when an address is left for what it returns. *)
AddressLeft == \E h \in Handle : Unused(h)

(* FsCoreDevice::into_handle: a box with the first reference to a device.  *)
Boxed(h, under) ==
    [node EXCEPT ![h] = [boxes |-> 1, refs |-> 1, alive |-> TRUE, under |-> under]]

(* Dropping one reference; dropping the box drops the one it holds.        *)
Dropped(nodes, h) == [nodes EXCEPT ![h].refs = @ - 1]
BoxDropped(nodes, h) == [Dropped(nodes, h) EXCEPT ![h].boxes = @ - 1]

(* fs_core_file_open.                                                      *)
FileOpen(h, path, writable) ==
    /\ Ready /\ Unused(h) /\ Present(path, writable)
    /\ node' = Boxed(h, Nowhere)
    /\ shows' = [shows EXCEPT ![h] = Shown(writable, path)]
    /\ owned' = owned \cup {h}
    /\ UNCHANGED <<openVars, below, calling>>

(* fs_core_device_close.                                                   *)
Close(h) ==
    /\ Ready /\ h \in owned
    /\ node' = BoxDropped(node, h)
    /\ owned' = owned \ {h}
    /\ UNCHANGED <<openVars, shows, below, calling>>

CallByPath(path, wanted) ==
    /\ Ready /\ AddressLeft
    /\ StartOpen(Caller, path, wanted)
    /\ calling' = TRUE
    /\ UNCHANGED <<node, shows, owned, below>>

(* Mutant: a device that cannot be written is handed back to nobody.       *)
ReclaimWritable(h, wanted) ==
    IF wanted = "rw" /\ ~shows[h].writable THEN [node EXCEPT ![h].refs = @ + 1]
    ELSE BoxDropped([node EXCEPT ![h].refs = @ + 1], h)

(* The device is cloned out of the box and the box dropped, whatever the   *)
(* open will say.                                                          *)
Reclaim(h, wanted) == BoxDropped([node EXCEPT ![h].refs = @ + 1], h)

CallOnDevice(h, wanted) ==
    /\ Ready /\ AddressLeft /\ h \in owned
    /\ node' = Reclaim(h, wanted)
    /\ owned' = owned \ {h}
    /\ below' = h
    /\ calling' = TRUE
    /\ OpenOnDevice(Caller, shows[h].content, shows[h].writable, wanted)
    /\ UNCHANGED shows

(* The reader took the reference over; its own device goes into a new box. *)
ReturnHandle(h) ==
    /\ calling /\ OpenAt(Caller, "done") /\ Unused(h)
    /\ node' = Boxed(h, below)
    /\ LET leaf == opening[Caller].held[1] IN
       shows' = [shows EXCEPT ![h] = Shown(leaf.writable, files[leaf.path].inside)]
    /\ owned' = owned \cup {h}
    /\ below' = Nowhere
    /\ calling' = FALSE
    /\ CloseImage(Caller)

(* An error, or a panic that catch_unwind turns into one: null, and what   *)
(* the call held is dropped on the way out.                                *)
ReturnNull ==
    /\ calling /\ OpenAt(Caller, "failed")
    /\ node' = IF below = Nowhere THEN node ELSE Dropped(node, below)
    /\ below' = Nowhere
    /\ calling' = FALSE
    /\ CloseImage(Caller)
    /\ UNCHANGED <<shows, owned>>

(* The last reference is gone: the device is closed; a reader lets go of   *)
(* the one below it.                                                       *)
Destroy(h) ==
    /\ node[h].alive /\ node[h].refs = 0
    /\ LET gone == [node EXCEPT ![h].alive = FALSE, ![h].under = Nowhere] IN
       node' = IF node[h].under = Nowhere THEN gone ELSE Dropped(gone, node[h].under)
    /\ UNCHANGED <<openVars, shows, owned, below, calling>>

(* What the library does once called; what the caller does in between.     *)
CallStep == ReturnNull \/ \E h \in Handle : ReturnHandle(h) \/ Destroy(h)

CallsIn ==
    \/ \E path \in DOMAIN files, wanted \in {"ro", "rw"} : CallByPath(path, wanted)
    \/ \E h \in Handle :
           \/ Close(h)
           \/ \E wanted \in {"ro", "rw"} : CallOnDevice(h, wanted)
           \/ \E path \in DOMAIN files, writable \in BOOLEAN : FileOpen(h, path, writable)

(***************************************************************************)
(* Properties                                                              *)
(***************************************************************************)
StandsOn(r, h) == node[r].alive /\ node[r].under = h

One(condition) == IF condition THEN 1 ELSE 0

(* A box exists exactly while its caller owns it, so nothing is freed      *)
(* twice; a device counts exactly what keeps it open: its box, the call    *)
(* that consumed the box, the reader that stands on it.                    *)
HandlesCounted ==
    \A h \in Handle :
        /\ node[h].boxes = One(h \in owned)
        /\ node[h].refs = One(h \in owned) + One(below = h) + One(\E r \in Handle : StandsOn(r, h))
        /\ node[h].refs > 0 => node[h].alive
        /\ \A q, r \in Handle : StandsOn(q, h) /\ StandsOn(r, h) => q = r

(* The ownership rule of the C ABI (capi.rs): `qcow2_open_on_device` takes *)
(* its input over whether or not it succeeds.  Boxes and counts are exact  *)
(* after every call, so everything a live handle stands on is open, and    *)
(* once the caller has closed what it owns no device is left.              *)
HandlesBalance ==
    /\ HandlesCounted
    /\ Ready /\ owned = {} => \A h \in Handle : ~node[h].alive
=============================================================================
