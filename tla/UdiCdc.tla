-------------------------------- MODULE UdiCdc --------------------------------
(***************************************************************************)
(* udi_cdc.c with one port: the serial line over USB, between the host and *)
(* the applications of the badge.  Each direction has two buffers of the   *)
(* size of a packet: the application fills or empties one while the USB    *)
(* controller sends or receives the other.                                 *)
(*                                                                         *)
(* The USB interrupt (one action per callback) comes between any two steps *)
(* of the main program; a step of the main program is what runs under      *)
(* cpu_irq_save, or a piece between two of these.                          *)
(***************************************************************************)
EXTENDS Integers, Sequences, SequencesExt

CONSTANTS
    UDI_CDC_BUFFERS,  \* bytes of a buffer, and of a packet (UDI_CDC_TX_BUFFERS, _RX_BUFFERS)
    ZlpAfter,         \* frames without data after which an empty packet is sent
    MaxWrite,         \* bound: bytes of one udi_cdc_write_buf
    Mod,              \* bound: bytes are numbered modulo Mod
    Env               \* what the surroundings may do, a subset of CdcBehaviours

(* "midway": the line goes down or up while the main program is between    *)
(*           udi_cdc_is_rx_ready and the end of udi_cdc_getc;              *)
(* "duplex": bytes go both ways in one behaviour.  The directions share    *)
(*           the main program and `running`, so that without it no case of *)
(*           either is lost.                                               *)
CdcBehaviours == {"midway", "duplex"}

ASSUME CdcAssumption ==
    /\ UDI_CDC_BUFFERS \in Nat \ {0}
    /\ ZlpAfter \in Nat \ {0} /\ MaxWrite \in Nat \ {0}
    /\ Mod \in Nat \ {0}
    /\ Env \subseteq CdcBehaviours

VARIABLES
    running,   \* `udi_cdc_data_running`
    tx,        \* the transmit side, see TxState
    rx,        \* the receive side, see RxState
    in_ep,     \* bulk IN endpoint: no job, packet waits, packet taken by the host
    out_ep,    \* bulk OUT endpoint: no job, waits for a packet, packet received
    bank,      \* the packet the OUT endpoint received
    pc, todo,  \* main program: where it is, bytes it has left to write
    pos, sel,  \* `pos`, `buf_sel` of udi_cdc_multi_getc
    wnext, hnext,  \* history: numbers of the next bytes of badge and host
    hgot, mgot,    \* history: what host and badge took last
    traffic        \* directions used in this behaviour

usbVars  == <<tx, rx, in_ep, out_ep, bank, running>>
mainVars == <<pc, todo, pos, sel>>
history  == <<wnext, hnext, hgot, mgot, traffic>>
vars     == <<usbVars, mainVars, history>>

N == UDI_CDC_BUFFERS
Byte == 0 .. Mod - 1
Buffers == {0, 1}
Packet == SeqOf(Byte, N)
Numbers(first, n) == [i \in 1 .. n |-> (first + i - 1) % Mod]

(* udi_cdc_tx_*: buf holds the bytes of each buffer, so udi_cdc_tx_buf_nb  *)
(* is their number.  gate: udi_cdc_tx_sof_num is the frame now; the next   *)
(* packet has to wait for the next frame.  (The code compares numbers of   *)
(* frames, which come back every 2048: one frame in 2048 it may wait for   *)
(* no reason.  That is not followed.)                                      *)
TxState == [buf : [Buffers -> Packet], sel : Buffers, both : BOOLEAN,
            ongoing : BOOLEAN, gate : BOOLEAN, zlp : 0 .. ZlpAfter - 1]

(* udi_cdc_rx_*, likewise.  The count of a buffer being received into is   *)
(* that of its last contents in the code, here 0: nobody looks at it.      *)
RxState == [buf : [Buffers -> Packet], sel : Buffers, pos : 0 .. N, ongoing : BOOLEAN]

Empty == [b \in Buffers |-> <<>>]

Init ==
    /\ running = FALSE
    /\ tx = [buf |-> Empty, sel |-> 0, both |-> FALSE, ongoing |-> FALSE,
             gate |-> FALSE, zlp |-> 0]
    /\ rx = [buf |-> Empty, sel |-> 0, pos |-> 0, ongoing |-> FALSE]
    /\ in_ep = "idle" /\ out_ep = "idle" /\ bank = <<>>
    /\ pc = "idle" /\ todo = 0 /\ pos = 0 /\ sel = 0
    /\ wnext = 0 /\ hnext = 0 /\ hgot = <<>> /\ mgot = <<>>
    /\ traffic \in IF "duplex" \in Env THEN {{"in", "out"}} ELSE {{"in"}, {"out"}}

-----------------------------------------------------------------------------
(* Sending. *)

(* udi_cdc_tx_send: the state it leaves.  It starts no transfer during one *)
(* or in the frame of the last short packet, or when it has nothing to     *)
(* send and has not been called often enough.                              *)
TxHolds(t) ==
    \/ t.ongoing \/ t.gate
    \/ t.buf[t.sel] = <<>> /\ t.zlp + 1 < ZlpAfter

(* Switches buffers whatever has been filled meanwhile. *)
TxSend_Switches(t) ==
    IF t.ongoing \/ t.gate THEN t
    ELSE IF TxHolds(t) THEN [t EXCEPT !.zlp = @ + 1]
    ELSE [t EXCEPT !.sel = 1 - t.sel, !.ongoing = TRUE, !.zlp = 0,
                   !.gate = Len(t.buf[t.sel]) # N]

TxSend(t) ==
    IF t.ongoing \/ t.gate THEN t
    ELSE IF TxHolds(t) THEN [t EXCEPT !.zlp = @ + 1]
    ELSE LET s == IF t.both THEN t.sel ELSE 1 - t.sel
         IN  [t EXCEPT !.sel = s, !.ongoing = TRUE, !.zlp = 0,
                       !.gate = Len(t.buf[1 - s]) # N]

(* The buffer in transfer is the one that is not being filled. *)
Sends(t) ==
    /\ tx' = TxSend(t)
    /\ in_ep' = IF TxHolds(t) THEN in_ep ELSE "queued"

(* udi_cdc_data_sent, the end of a transfer. *)
(* Does not clear udi_cdc_tx_trans_ongoing after a full packet. *)
DataSent_Stuck ==
    /\ in_ep = "taken"
    /\ LET t == [tx EXCEPT !.buf[1 - tx.sel] = <<>>, !.both = FALSE,
                           !.ongoing = Len(tx.buf[1 - tx.sel]) = N]
       IN  /\ tx' = TxSend(t)
           /\ in_ep' = IF TxHolds(t) THEN "idle" ELSE "queued"
    /\ UNCHANGED <<rx, out_ep, bank, running, mainVars, history>>

DataSent ==
    /\ in_ep = "taken"
    /\ LET t == [tx EXCEPT !.buf[1 - tx.sel] = <<>>, !.both = FALSE, !.ongoing = FALSE]
       IN  /\ tx' = TxSend(t)
           /\ in_ep' = IF TxHolds(t) THEN "idle" ELSE "queued"
    /\ UNCHANGED <<rx, out_ep, bank, running, mainVars, history>>

(* udi_cdc_data_sof_notify, at each frame of a configured device. *)
Sof ==
    /\ running
    /\ Sends([tx EXCEPT !.gate = FALSE])
    /\ UNCHANGED <<rx, out_ep, bank, running, mainVars, history>>

(* udi_cdc_multi_get_free_tx_buffer: when the buffer is full and nothing   *)
(* is being sent, it goes on with the other one, which is empty.           *)
MovesOn_Again(t) == Len(t.buf[t.sel]) = N /\ ~t.ongoing
MovesOn(t) == Len(t.buf[t.sel]) = N /\ ~t.ongoing /\ ~t.both
GetFree(t) == IF MovesOn(t) THEN [t EXCEPT !.both = TRUE, !.sel = 1 - @] ELSE t
Free(t)    == IF MovesOn(t) THEN N ELSE N - Len(t.buf[t.sel])

(* udi_cdc_write_buf, and udi_cdc_putc, which is one byte of it: wait for  *)
(* room, then copy what fits.  Without a connection it gives up instead.   *)
WriteBuf ==
    /\ pc = "idle" /\ "out" \in traffic
    /\ \E n \in 1 .. MaxWrite : todo' = n
    /\ pc' = "wait_tx"
    /\ UNCHANGED <<usbVars, pos, sel, history>>

WriteReady ==
    /\ pc = "wait_tx"
    /\ tx' = GetFree(tx)
    /\ \/ Free(tx) > 0 /\ pc' = "copy" /\ UNCHANGED todo
       \/ Free(tx) = 0 /\ ~running /\ pc' = "idle" /\ todo' = 0
    /\ UNCHANGED <<rx, in_ep, out_ep, bank, running, pos, sel, history>>

Smaller(a, b) == IF a < b THEN a ELSE b

(* Copies all at once. *)
WriteCopy_All ==
    /\ pc = "copy"
    /\ tx' = [tx EXCEPT !.buf[tx.sel] = @ \o Numbers(wnext, todo)]
    /\ wnext' = (wnext + todo) % Mod
    /\ todo' = 0
    /\ pc' = "idle"
    /\ UNCHANGED <<rx, in_ep, out_ep, bank, running, pos, sel, hnext, hgot, mgot, traffic>>

WriteCopy ==
    /\ pc = "copy"
    /\ LET n == Smaller(todo, N - Len(tx.buf[tx.sel]))
       IN  /\ tx' = [tx EXCEPT !.buf[tx.sel] = @ \o Numbers(wnext, n)]
           /\ wnext' = (wnext + n) % Mod
           /\ todo' = todo - n
           /\ pc' = IF todo = n THEN "idle" ELSE "wait_tx"
    /\ UNCHANGED <<rx, in_ep, out_ep, bank, running, pos, sel, hnext, hgot, mgot, traffic>>

-----------------------------------------------------------------------------
(* Receiving. *)

(* udi_cdc_rx_start, the part under the lock: nothing while a transfer is  *)
(* under way or the buffer in use has bytes left; otherwise the other      *)
(* buffer comes into use and this one is to be received into.              *)
RxHolds_Not(r) == r.ongoing
RxHolds(r) == r.ongoing \/ r.pos < Len(r.buf[r.sel])
(* Leaves the position. *)
RxStart_KeepsPos(r) ==
    IF RxHolds(r) THEN r
    ELSE [r EXCEPT !.buf[r.sel] = <<>>, !.sel = 1 - @, !.ongoing = TRUE]

RxStart(r) ==
    IF RxHolds(r) THEN r
    ELSE [r EXCEPT !.buf[r.sel] = <<>>, !.pos = 0, !.sel = 1 - @, !.ongoing = TRUE]

(* udi_cdc_data_received, the end of a transfer. An empty packet counts    *)
(* for nothing and the transfer is started again.                          *)
DataReceived ==
    /\ out_ep = "received"
    /\ LET other == 1 - rx.sel
           r == [rx EXCEPT !.buf[other] = bank, !.ongoing = FALSE]
       IN  IF bank = <<>>
           THEN out_ep' = "armed" /\ UNCHANGED rx
           ELSE /\ rx' = RxStart(r)
                /\ out_ep' = IF RxHolds(r) THEN "idle" ELSE "armed"
    /\ bank' = <<>>
    /\ UNCHANGED <<tx, in_ep, running, mainVars, history>>

(* udi_cdc_is_rx_ready is a difference of unsigned numbers: a position     *)
(* beyond the count makes it true.                                         *)
IsRxReady == Len(rx.buf[rx.sel]) # rx.pos

(* The applications' loop: if udi_cdc_is_rx_ready, then udi_cdc_getc.      *)
Poll ==
    /\ pc = "idle"
    /\ IsRxReady
    /\ pc' = "getc"
    /\ UNCHANGED <<usbVars, todo, pos, sel, history>>

(* udi_cdc_getc waits while there is no byte and the line is up. *)
HasByte == rx.pos < Len(rx.buf[rx.sel])

GetcLock ==
    /\ pc = "getc"
    /\ \/ HasByte /\ pc' = "take" /\ pos' = rx.pos /\ sel' = rx.sel /\ UNCHANGED mgot
       \/ ~HasByte /\ ~running /\ pc' = "idle" /\ mgot' = <<0>> /\ UNCHANGED <<pos, sel>>
    /\ UNCHANGED <<usbVars, todo, wnext, hnext, hgot, traffic>>

(* Without the lock.  A buffer emptied meanwhile still holds some byte.    *)
GetcTake ==
    /\ pc = "take"
    /\ mgot' = <<IF pos < Len(rx.buf[sel]) THEN rx.buf[sel][pos + 1] ELSE 0>>
    /\ rx' = [rx EXCEPT !.pos = pos + 1]
    /\ pos' = 0 /\ sel' = 0
    /\ pc' = "rx_start"
    /\ UNCHANGED <<tx, in_ep, out_ep, bank, running, todo, wnext, hnext, hgot, traffic>>

GetcRxStart ==
    /\ pc = "rx_start"
    /\ rx' = RxStart(rx)
    /\ pc' = IF RxHolds(rx) THEN "idle" ELSE "ep_run"
    /\ UNCHANGED <<tx, in_ep, out_ep, bank, running, todo, pos, sel, history>>

(* udd_ep_run refuses if the endpoint is disabled or has a job. *)
GetcEpRun ==
    /\ pc = "ep_run"
    /\ out_ep' = IF running /\ out_ep = "idle" THEN "armed" ELSE out_ep
    /\ pc' = "idle"
    /\ UNCHANGED <<tx, rx, in_ep, bank, running, todo, pos, sel, history>>

-----------------------------------------------------------------------------
(* The line goes up (udi_cdc_data_enable, when the host configures the     *)
(* device) and down (udi_cdc_data_disable and the abort of both jobs).     *)

MayChange == "midway" \in Env \/ pc \notin {"getc", "take", "rx_start", "ep_run"}

DataEnable ==
    /\ ~running /\ MayChange
    /\ running' = TRUE
    /\ LET t == [tx EXCEPT !.buf = Empty, !.sel = 0, !.both = FALSE,
                           !.ongoing = FALSE, !.gate = FALSE]
       IN  tx' = TxSend(t) /\ in_ep' = IF TxHolds(t) THEN "idle" ELSE "queued"
    /\ rx' = RxStart([rx EXCEPT !.buf = Empty, !.sel = 0, !.pos = 0, !.ongoing = FALSE])
    /\ out_ep' = "armed" /\ bank' = <<>>
    /\ UNCHANGED <<mainVars, history>>

DataDisable ==
    /\ running /\ MayChange
    /\ running' = FALSE
    /\ in_ep' = "idle" /\ out_ep' = "idle" /\ bank' = <<>>
    /\ UNCHANGED <<tx, rx, mainVars, history>>

-----------------------------------------------------------------------------
(* The host takes a packet, which may be empty, or sends one. *)
InTransfer == tx.buf[1 - tx.sel]

HostIn ==
    /\ in_ep = "queued"
    /\ in_ep' = "taken"
    /\ hgot' = IF InTransfer = <<>> THEN hgot ELSE InTransfer
    /\ UNCHANGED <<tx, rx, out_ep, bank, running, mainVars, wnext, hnext, mgot, traffic>>

HostOut ==
    /\ out_ep = "armed" /\ "in" \in traffic
    /\ \E n \in 0 .. N :
        /\ bank' = Numbers(hnext, n)
        /\ hnext' = (hnext + n) % Mod
    /\ out_ep' = "received"
    /\ UNCHANGED <<tx, rx, in_ep, running, mainVars, wnext, hgot, mgot, traffic>>

Interrupt == DataSent \/ Sof \/ DataReceived
Line      == DataEnable \/ DataDisable
MainOwn   == WriteReady \/ WriteCopy \/ GetcLock \/ GetcTake \/ GetcRxStart \/ GetcEpRun
Main      == WriteBuf \/ Poll \/ MainOwn

Next == Interrupt \/ Line \/ Main \/ HostIn \/ HostOut

Spec == Init /\ [][Next]_vars

(* Interrupts are served, frames come while the device is configured, the  *)
(* main program does not stop in the middle of a call; and the host reads. *)
FairSpec ==
    /\ Spec
    /\ WF_vars(DataSent) /\ WF_vars(Sof) /\ WF_vars(DataReceived)
    /\ WF_vars(MainOwn) /\ WF_vars(HostIn)
-----------------------------------------------------------------------------
(* Properties. *)

(* Counts stay within the buffers, and every variable within its type. *)
TypeOK ==
    /\ running \in BOOLEAN
    /\ tx \in TxState
    /\ rx \in RxState
    /\ in_ep \in {"idle", "queued", "taken"}
    /\ out_ep \in {"idle", "armed", "received"}
    /\ bank \in Packet
    /\ pc \in {"idle", "wait_tx", "copy", "getc", "take", "rx_start", "ep_run"}
    /\ todo \in 0 .. MaxWrite /\ pos \in 0 .. N - 1 /\ sel \in Buffers
    /\ wnext \in Byte /\ hnext \in Byte

(* udi_cdc_write_buf looks for room under one lock and copies under        *)
(* another: interrupts in between may switch buffers, and there is still   *)
(* room in the one it then finds.                                          *)
RoomKept == pc = "copy" => Len(tx.buf[tx.sel]) < N

(* The applications ask udi_cdc_is_rx_ready so that udi_cdc_getc does not  *)
(* keep them: the byte they were promised is there when they come for it,  *)
(* and still the same when they take it.                                   *)
ByteKept ==
    /\ pc = "getc" => HasByte
    /\ pc = "take" => rx.sel = sel /\ rx.pos = pos /\ pos < Len(rx.buf[sel])

(* The two directions are pipes: bytes arrive once and in order, and what  *)
(* the badge writes does arrive, be it one byte in a buffer.               *)
TxBytes ==
    (IF IF tx.ongoing THEN in_ep = "queued" ELSE tx.both THEN InTransfer ELSE <<>>)
    \o tx.buf[tx.sel]
RxBytes ==
    SubSeq(rx.buf[rx.sel], rx.pos + 1, Len(rx.buf[rx.sel]))
    \o (IF rx.ongoing THEN bank ELSE rx.buf[1 - rx.sel])

ToHost   == INSTANCE BytePipe WITH queue <- TxBytes, next <- wnext, out <- hgot,
                                   up <- running, Capacity <- 2 * N
FromHost == INSTANCE BytePipe WITH queue <- RxBytes, next <- hnext, out <- mgot,
                                   up <- running, Capacity <- 2 * N
ToHostPipe   == ToHost!FairSpec
FromHostPipe == FromHost!Spec

(* A writer gets done, if the host reads or the line goes down. *)
WriteEnds == pc = "wait_tx" ~> pc = "idle"
=============================================================================
