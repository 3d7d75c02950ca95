------------------------------- MODULE BytePipe -------------------------------
(***************************************************************************)
(* One direction of a serial line: a bounded queue of bytes.  The sender's *)
(* bytes are numbered, so that one lost, repeated or out of place is seen. *)
(* Only the line going down, or coming up again, drops bytes.              *)
(***************************************************************************)
EXTENDS Integers, Sequences

CONSTANTS
    Mod,       \* bound: bytes are numbered modulo Mod
    Capacity

VARIABLES
    queue,   \* bytes under way
    next,    \* number of the sender's next byte
    out,     \* what the receiver took last
    up       \* the line is up

vars == <<queue, next, out, up>>

Numbers(first, n) == [i \in 1 .. n |-> (first + i - 1) % Mod]

Init == queue = <<>> /\ next = 0 /\ out = <<>> /\ up \in BOOLEAN

Put ==
    /\ \E n \in 1 .. Capacity - Len(queue) :
        /\ queue' = queue \o Numbers(next, n)
        /\ next' = (next + n) % Mod
    /\ UNCHANGED <<out, up>>

Take ==
    /\ \E n \in 1 .. Len(queue) :
        /\ out' = SubSeq(queue, 1, n)
        /\ queue' = SubSeq(queue, n + 1, Len(queue))
    /\ UNCHANGED <<next, up>>

(* The line goes down or up.  Of the bytes under way any number is lost at *)
(* either end; what is left, and what comes after, is in order.            *)
Break ==
    /\ up' = ~up
    /\ \E i \in 1 .. Len(queue) + 1, j \in 0 .. Len(queue) : queue' = SubSeq(queue, i, j)
    /\ UNCHANGED <<next, out>>

Next == Put \/ Take \/ Break

Spec == Init /\ [][Next]_vars

(* The receiver gets what is sent, as long as the line is up. *)
FairSpec == Spec /\ WF_vars(up /\ Take)
=============================================================================
