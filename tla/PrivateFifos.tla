---------------------------- MODULE PrivateFifos ----------------------------
(***************************************************************************)
(* What a SharedBuffer promises its owner: a queue of fragments of its own. *)
(* Nothing the other instances do may be seen in it (SharedBuffer.h:      *)
(* 126-141).                                                              *)
(***************************************************************************)
EXTENDS Sequences

CONSTANTS
    Buffers,    \* the instances
    Fragments   \* what one fragment may hold

VARIABLES
    queue,      \* per instance, the fragments written and not released
    newest      \* per instance, the last one written if it is still there

vars == <<queue, newest>>

Init ==
    /\ queue = [b \in Buffers |-> <<>>]
    /\ newest = [b \in Buffers |-> <<>>]

\* A write appends one fragment, or nothing when there is no room.
Write(b) ==
    \E f \in Fragments :
        /\ queue' = [queue EXCEPT ![b] = Append(@, f)]
        /\ newest' = [newest EXCEPT ![b] = <<f>>]

\* A release drops the oldest fragment and no other.
Release(b) ==
    /\ queue[b] # <<>>
    /\ queue' = [queue EXCEPT ![b] = Tail(@)]
    /\ newest' = IF Len(queue[b]) = 1 THEN [newest EXCEPT ![b] = <<>>] ELSE newest

\* A flush, or the destructor, drops them all.
Flush(b) ==
    /\ queue' = [queue EXCEPT ![b] = <<>>]
    /\ newest' = [newest EXCEPT ![b] = <<>>]

Next == \E b \in Buffers : Write(b) \/ Release(b) \/ Flush(b)

Spec == Init /\ [][Next]_vars
=============================================================================
