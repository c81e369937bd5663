----------------------------- MODULE PacketQueue -----------------------------
(***************************************************************************)
(* What the ENC28J60 and its driver promise of received frames, before any *)
(* ring of memory, pointer or register: they are handled in the order they *)
(* came, each once and whole, or as much of it as the buffer takes. When   *)
(* there is no room a frame is lost before it is queued.                   *)
(***************************************************************************)
EXTENDS Integers, Sequences

CONSTANTS
    Frame,          \* frames that may arrive: [data |-> <<...>>, ok |-> BOOLEAN]
    SampleSize,     \* what is loaded of a frame to see whom it is for
    BufferSize      \* what is loaded of a frame at most

VARIABLES
    queue,      \* frames received and not yet looked at
    packet,     \* what is loaded of the frame in hand
    rest        \* what may yet be loaded of it

vars == <<queue, packet, rest>>

FirstOf(data, n) == SubSeq(data, 1, IF Len(data) < n THEN Len(data) ELSE n)

Init == queue = <<>> /\ packet = <<>> /\ rest = <<>>

Arrive(f) == queue' = Append(queue, f) /\ UNCHANGED <<packet, rest>>

\* The next frame is looked at, or skipped if it was not received well.
Take ==
    /\ queue # <<>>
    /\ packet = <<>>
    /\ queue' = Tail(queue)
    /\ IF Head(queue).ok
       THEN LET loaded == FirstOf(Head(queue).data, BufferSize)
            IN  /\ packet' = FirstOf(loaded, SampleSize)
                /\ rest' = SubSeq(loaded, SampleSize + 1, Len(loaded))
       ELSE UNCHANGED <<packet, rest>>

LoadAll == packet' = packet \o rest /\ rest' = <<>> /\ UNCHANGED queue

\* Nobody wants the rest.
Ignore == rest' = <<>> /\ UNCHANGED <<queue, packet>>

Done == packet' = <<>> /\ rest' = <<>> /\ UNCHANGED queue

Restart == queue' = <<>> /\ packet' = <<>> /\ rest' = <<>>

Next == (\E f \in Frame : Arrive(f)) \/ Take \/ LoadAll \/ Ignore \/ Done \/ Restart

Spec == Init /\ [][Next]_vars
=============================================================================
