----------------------------- MODULE Acquisition -----------------------------
(***************************************************************************)
(* What a logic analyzer application promises, whatever the interrupts do: *)
(* an acquisition completes at one moment, with the capture hardware       *)
(* silent from that moment on, and what is then delivered is a run of      *)
(* consecutive samples, in order, that starts at the sample it was         *)
(* triggered by.  Nothing is delivered otherwise, and an acquisition is    *)
(* given up only while the hardware is silent.                             *)
(***************************************************************************)
EXTENDS Integers, Sequences

CONSTANTS SeqMod,    \* samples are numbered modulo SeqMod
          Counts     \* how many samples may be asked for

VARIABLES
    st,      \* "idle", "running", "acquired", "delivered"
    writing, \* the capture hardware may write samples
    from,    \* the sample that triggered the acquisition, once it is complete
    shown    \* what is being delivered, oldest sample first

vars == <<st, writing, from, shown>>

NoSample == -1

Init == st = "idle" /\ writing = FALSE /\ from = NoSample /\ shown = <<>>

Begin ==
    /\ st = "idle"
    /\ st' = "running"
    /\ UNCHANGED <<writing, from, shown>>

Capture ==
    /\ st = "running"
    /\ writing' \in BOOLEAN
    /\ UNCHANGED <<st, from, shown>>

Complete ==
    /\ st = "running"
    /\ st' = "acquired"
    /\ writing' = FALSE
    /\ from' \in (0 .. SeqMod - 1) \cup {NoSample}
    /\ UNCHANGED shown

Deliver ==
    /\ st = "acquired"
    /\ st' = "delivered"
    /\ \E n \in Counts : shown' = [i \in 1 .. n |-> (from + i - 1) % SeqMod]
    /\ UNCHANGED <<writing, from>>

Finish ==
    /\ st = "delivered"
    /\ st' = "idle" /\ from' = NoSample /\ shown' = <<>>
    /\ UNCHANGED writing

Abandon ==
    /\ st \in {"running", "acquired"} /\ ~writing
    /\ st' = "idle" /\ from' = NoSample
    /\ UNCHANGED <<writing, shown>>

Next == Begin \/ Capture \/ Complete \/ Deliver \/ Finish \/ Abandon

Spec == Init /\ [][Next]_vars
=============================================================================
