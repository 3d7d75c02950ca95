------------------------------ MODULE IoCapture ------------------------------
(***************************************************************************)
(* io_capture.c: the driver that samples the eight probe pins into memory. *)
(* The samples are moved by the PDC, the DMA controller of the SAM4S: a    *)
(* current buffer (RPR, RCR) and a next buffer (RNPR, RNCR) that becomes   *)
(* the current one when the current one is full.  PIOA_Handler, the        *)
(* interrupt handler, keeps the next buffer supplied from a ring of        *)
(* buffers the client hands to ioc_start.                                  *)
(*                                                                         *)
(* The processor has one core: the main program runs only while no         *)
(* interrupt is being served or pending (MainMayRun).  The PDC runs on its *)
(* own and interleaves with both.                                          *)
(*                                                                         *)
(* This module holds the state of the driver and of the PDC, and one       *)
(* operator per piece of the driver that runs without the PDC being able   *)
(* to tell the difference.  The client (LogicAnalyzer) composes them.      *)
(***************************************************************************)
EXTENDS Integers

CONSTANTS
    BufferSize,   \* bytes of the shared sample buffer (LA_BUFFER_SIZE)
    BuffersCnt,   \* buffers in the ring (LA_IOC_BUFFERS_CNT)
    SeqMod,       \* bound: samples are numbered modulo SeqMod
    Env           \* what the surroundings may do, a subset of Behaviours

(* "overrun":     the PDC may fill a buffer before PIOA_Handler is done with *)
(*                the one before (it searches up to 16 KiB for the trigger,  *)
(*                and at 50 MHz the PDC fills 16 KiB in 0.3 ms);             *)
(* "exit_busy":   the user leaves the application during an acquisition, and *)
(*                enters the logic analyzer again when the capture is over;  *)
(* "late_config": the host changes settings during an acquisition.           *)
Behaviours == {"overrun", "exit_busy", "late_config"}

ASSUME ConstAssumption ==
    /\ BufferSize \in Nat \ {0}
    /\ BuffersCnt \in Nat \ {0, 1}
    /\ SeqMod \in Nat \ {0}
    /\ Env \subseteq Behaviours

VARIABLES
    mem,                 \* the shared buffer: address -> sample
    seq,                 \* number of the next sample on the probes
    rp, rc, rnp, rnc,    \* PDC: RPR, RCR, RNPR, RNCR
    endrx,               \* PDC: ENDRX flag
    rxten, clk, irq,     \* PDC transfer enabled, PCK0 running, PIOA irq unmasked
    busy,                \* `busy`
    ioc_buffers,         \* `ioc_buffers`, the client's ring
    ioc_buffer_idx,      \* `ioc_buffer_idx`
    ioc_buffer_current,  \* `ioc_buffer_current`
    ioc_stop_acq,        \* `ioc_stop_acq`
    isr, cur_buf, finished,  \* PIOA_Handler: where it is, and its locals
    gap                  \* history: the PDC ran dry and was supplied again

pdcVars  == <<rp, rc, rnp, rnc, endrx>>
enVars   == <<rxten, clk, irq>>
ringVars == <<ioc_buffers, ioc_buffer_idx, ioc_buffer_current>>
isrVars  == <<isr, cur_buf, finished>>
iocVars  == <<mem, seq, pdcVars, enVars, busy, ringVars, ioc_stop_acq, isrVars, gap>>

Addresses == 0 .. BufferSize - 1
BufferIds == 0 .. BuffersCnt - 1

(* A sample in memory: its number on the probes (Stale: written by an      *)
(* earlier acquisition or by another application), and whether its         *)
(* channels are in the order of the probe header (la_fix_channels).        *)
Stale  == -1
Sample == [n : (0 .. SeqMod - 1) \cup {Stale}, fixed : BOOLEAN]

IocBuffer == [addr : 0 .. BufferSize, size : 0 .. BufferSize, last : BOOLEAN]

IocInit ==
    /\ mem = [a \in Addresses |-> [n |-> Stale, fixed |-> FALSE]]
    /\ seq = 0
    /\ rp = 0 /\ rc = 0 /\ rnp = 0 /\ rnc = 0 /\ endrx = FALSE
    /\ rxten = FALSE /\ clk = FALSE /\ irq = FALSE
    /\ busy = FALSE
    /\ ioc_buffers = [i \in BufferIds |-> [addr |-> 0, size |-> 0, last |-> FALSE]]
    /\ ioc_buffer_idx = 0 /\ ioc_buffer_current = 0
    /\ ioc_stop_acq = FALSE
    /\ isr = "off" /\ cur_buf = 0 /\ finished = FALSE
    /\ gap = FALSE

-----------------------------------------------------------------------------
(* The PDC and the interrupt line (hardware). *)

RxBuff     == rc = 0 /\ rnc = 0
IrqPending == irq /\ (endrx \/ RxBuff)
MainMayRun == isr = "off" /\ ~IrqPending

(* The PDC stores one sample.  When the current buffer is full it moves to *)
(* the next one, if there is one, and raises ENDRX.                        *)
(* Unless the surroundings may overrun the handler, a buffer is full only  *)
(* when the handler is done with the one before, or has no more to supply. *)
PdcStore ==
    /\ rxten /\ clk /\ rc > 0
    /\ rc = 1 => \/ "overrun" \in Env
                 \/ MainMayRun /\ rnc > 0
                 \/ ioc_buffers[ioc_buffer_idx].last
    /\ mem' = [mem EXCEPT ![rp] = [n |-> seq, fixed |-> FALSE]]
    /\ seq' = (seq + 1) % SeqMod
    /\ IF rc = 1
         THEN /\ endrx' = TRUE
              /\ rnc' = 0
              /\ rc' = rnc
              /\ rp' = IF rnc > 0 THEN rnp ELSE rp + 1
         ELSE /\ rc' = rc - 1
              /\ rp' = rp + 1
              /\ UNCHANGED <<rnc, endrx>>
    /\ UNCHANGED <<rnp, enVars, busy, ringVars, ioc_stop_acq, isrVars, gap>>

(* Writing RNPR and RNCR: an idle PDC takes the buffer at once; ENDRX is    *)
(* cleared by a count that is not zero.  The two stores are one step: the   *)
(* PDC does not look at RNPR while RNCR is 0, as it is whenever the driver  *)
(* writes here (an ENDRX or RXBUFF interrupt, or a capture that starts).    *)
WriteNext(buf) ==
    IF rc = 0 /\ buf.size > 0
      THEN /\ rp' = buf.addr /\ rc' = buf.size /\ rnp' = buf.addr /\ rnc' = 0
           /\ endrx' = FALSE
           /\ gap' = (gap \/ rxten)
      ELSE /\ rnp' = buf.addr /\ rnc' = buf.size
           /\ endrx' = (endrx /\ buf.size = 0)
           /\ UNCHANGED <<rp, rc, gap>>

-----------------------------------------------------------------------------
(* ioc_set_next_buffer *)
SetNextBuffer ==
    LET nxt == (ioc_buffer_idx + 1) % BuffersCnt
    IN  /\ ioc_buffer_current' = ioc_buffer_idx
        /\ IF ioc_buffers[ioc_buffer_idx].last
             THEN UNCHANGED <<ioc_buffer_idx, pdcVars, gap>>
             ELSE /\ ioc_buffer_idx' = nxt
                  /\ WriteNext(ioc_buffers[nxt])

(* ioc_start, in pieces an interrupt or the PDC can come between: the      *)
(* bookkeeping, the two registers of the current buffer, the next buffer,  *)
(* and the three enables                                                   *)
StartBookkeeping ==
    /\ busy' = TRUE
    /\ ioc_buffer_idx' = 0
    /\ UNCHANGED <<mem, seq, pdcVars, enVars, ioc_buffers, ioc_buffer_current,
                   ioc_stop_acq, isrVars, gap>>

StartPointer ==
    /\ rp' = ioc_buffers[0].addr
    /\ UNCHANGED <<mem, seq, rc, rnp, rnc, endrx, enVars, busy, ringVars, ioc_stop_acq, isrVars, gap>>

StartCount ==
    /\ rc' = ioc_buffers[0].size
    /\ endrx' = (endrx /\ ioc_buffers[0].size = 0)
    /\ UNCHANGED <<mem, seq, rp, rnp, rnc, enVars, busy, ringVars, ioc_stop_acq, isrVars, gap>>

StartNext ==
    /\ SetNextBuffer
    /\ UNCHANGED <<mem, seq, enVars, busy, ioc_buffers, ioc_stop_acq, isrVars>>

Enable(dev) ==
    /\ irq'   = (irq   \/ dev = "irq")
    /\ rxten' = (rxten \/ dev = "rxten")
    /\ clk'   = (clk   \/ dev = "clk")
    /\ UNCHANGED <<mem, seq, pdcVars, busy, ringVars, ioc_stop_acq, isrVars, gap>>

(* ioc_stop's assignment; its test of `busy` is a separate step of the client *)
SetStop ==
    /\ ioc_stop_acq' = TRUE
    /\ UNCHANGED <<mem, seq, pdcVars, enVars, busy, ringVars, isrVars, gap>>

(* ioc_set_clock stops the sampling clock; only ioc_start starts it again *)
SetClock ==
    /\ clk' = FALSE
    /\ UNCHANGED <<mem, seq, pdcVars, rxten, irq, busy, ringVars, ioc_stop_acq, isrVars, gap>>

-----------------------------------------------------------------------------
(* Operators named Op_Bug are Op with a slip in it; the properties are     *)
(* checked to notice.                                                      *)
IsrEnter_ReadsLate ==
    /\ isr = "off" /\ IrqPending /\ ~ioc_stop_acq
    /\ isr' = "handler" /\ finished' = FALSE
    /\ SetNextBuffer
    /\ cur_buf' = ioc_buffer_idx
    /\ UNCHANGED <<mem, seq, enVars, busy, ioc_buffers, ioc_stop_acq>>

IsrExit_AtOnce ==
    /\ isr = "status"
    /\ isr' = "off" /\ finished' = FALSE /\ cur_buf' = 0
    /\ IF finished
         THEN busy' = FALSE /\ clk' = FALSE /\ rxten' = FALSE /\ irq' = FALSE
         ELSE UNCHANGED <<busy, enVars>>
    /\ UNCHANGED <<mem, seq, pdcVars, ringVars, ioc_stop_acq, gap>>

(* PIOA_Handler.  The call of the client's finish handler comes between    *)
(* IsrEnter and IsrExit (isr = "handler") and sets `finished`.             *)
IsrEnter ==
    /\ isr = "off" /\ IrqPending
    /\ cur_buf' = ioc_buffer_current
    /\ IF ioc_stop_acq
         THEN /\ isr' = "status" /\ finished' = TRUE
              /\ ioc_stop_acq' = FALSE
              /\ UNCHANGED <<ioc_buffer_idx, ioc_buffer_current, pdcVars, gap>>
         ELSE /\ isr' = "handler" /\ finished' = FALSE
              /\ SetNextBuffer
              /\ UNCHANGED ioc_stop_acq
    /\ UNCHANGED <<mem, seq, enVars, busy, ioc_buffers>>

IsrExit ==
    /\ isr = "status"
    /\ isr' = "off" /\ finished' = FALSE /\ cur_buf' = 0
    /\ IF finished /\ RxBuff
         THEN busy' = FALSE /\ clk' = FALSE /\ rxten' = FALSE /\ irq' = FALSE
         ELSE UNCHANGED <<busy, enVars>>
    /\ UNCHANGED <<mem, seq, pdcVars, ringVars, ioc_stop_acq, gap>>

=============================================================================
