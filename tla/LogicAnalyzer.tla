---------------------------- MODULE LogicAnalyzer ----------------------------
(***************************************************************************)
(* logic_analyzer.c: the two logic analyzer applications (samples to the   *)
(* USB host, samples to the display) over the capture driver of IoCapture. *)
(* The main program runs one application at a time; the finish handler     *)
(* la_acq_finished runs inside PIOA_Handler and shares la_state, the       *)
(* trigger offset and the ring of buffers with it.                         *)
(*                                                                         *)
(* What a sample holds is abstracted to its number.  A trigger is either   *)
(* configured or not (la_trigger_mask), and a search of a buffer may find  *)
(* a match at any of its samples or none: every input is allowed.          *)
(***************************************************************************)
EXTENDS IoCapture, Sequences

CONSTANTS
    ReadCounts,   \* values the host sets la_read_cnt to
    LcdWidth      \* LCD_WIDTH, the samples the display application asks for

ASSUME LaAssumption ==
    /\ ReadCounts \subseteq 0 .. BufferSize
    /\ LcdWidth \in 1 .. BufferSize

VARIABLES
    la_trigger_mask,  \* la_trigger_mask # 0
    la_read_cnt,      \* `la_read_cnt`
    la_trig_offset,   \* `la_trig_offset`
    la_state,         \* `la_state`
    app,              \* the application the main program is in
    pc, ret,          \* where the main program is; where la_start_acq returns to
    out,              \* samples sent or drawn, in that order, while they are
    trigSample        \* history: number of the sample the trigger was found at

laVars   == <<la_trigger_mask, la_read_cnt, la_trig_offset, la_state>>
mainVars == <<app, pc, ret>>
vars     == <<iocVars, laVars, mainVars, out, trigSample>>

UINT_MAX == -1     \* (uint32_t) -1: no trigger found

MemTypeOK ==
    /\ mem \in [Addresses -> Sample]
    /\ seq \in 0 .. SeqMod - 1
    /\ trigSample \in (0 .. SeqMod - 1) \cup {Stale}
    /\ out \in Seq(Sample)

PdcTypeOK ==
    /\ rp \in 0 .. BufferSize /\ rc \in 0 .. BufferSize
    /\ rnp \in 0 .. BufferSize /\ rnc \in 0 .. BufferSize

RingTypeOK ==
    /\ ioc_buffers \in [BufferIds -> IocBuffer]
    /\ ioc_buffer_idx \in BufferIds /\ ioc_buffer_current \in BufferIds
    /\ isr \in {"off", "handler", "status"} /\ cur_buf \in BufferIds

LaTypeOK ==
    /\ la_read_cnt \in 0 .. BufferSize
    /\ la_trig_offset \in Addresses \cup {UINT_MAX}
    /\ la_state \in {"IDLE", "RUNNING", "ACQUIRED"}

FlagTypeOK ==
    /\ endrx \in BOOLEAN /\ rxten \in BOOLEAN /\ clk \in BOOLEAN /\ irq \in BOOLEAN
    /\ busy \in BOOLEAN /\ ioc_stop_acq \in BOOLEAN /\ gap \in BOOLEAN
    /\ finished \in BOOLEAN /\ la_trigger_mask \in BOOLEAN

MainTypeOK ==
    /\ app \in {"none", "usb", "lcd"}
    /\ pc \in {"menu", "loop", "acq", "start", "run", "current", "count", "next",
               "irq", "rxten", "clk", "stop", "set_stop", "wait", "strange",
               "fix", "deliver", "delivered"}
    /\ ret \in {"loop", "acq"}

TypeOK ==
    MemTypeOK /\ PdcTypeOK /\ RingTypeOK /\ LaTypeOK /\ FlagTypeOK /\ MainTypeOK

Init ==
    /\ IocInit
    /\ la_trigger_mask = FALSE /\ la_read_cnt = 0
    /\ la_trig_offset = UINT_MAX /\ la_state = "IDLE"
    /\ app = "none" /\ pc = "menu" /\ ret = "loop"
    /\ out = <<>> /\ trigSample = Stale

-----------------------------------------------------------------------------
(* la_acq_finished, called from PIOA_Handler for the buffer cur_buf *)

(* la_find_trigger_unfixed: where the search may end *)
FindTrigger(size) ==
    IF la_trigger_mask THEN (0 .. size - 1) \cup {UINT_MAX} ELSE {0}

(* Operators named Op_Bug are Op with a slip in it, as in IoCapture *)
TriggerFound_WholeBuffer(off) ==
    /\ IF off # UINT_MAX /\ la_trigger_mask
         THEN /\ ioc_buffers' = [ioc_buffers EXCEPT ![cur_buf].last = TRUE]
              /\ la_trig_offset' = ioc_buffers[cur_buf].addr + off
         ELSE la_trig_offset' = off /\ UNCHANGED ioc_buffers
    /\ trigSample' = IF off = UINT_MAX THEN trigSample ELSE mem[la_trig_offset'].n

TriggerFound_NotLast(off) ==
    /\ la_trig_offset' = IF off # UINT_MAX /\ la_trigger_mask
                           THEN ioc_buffers[cur_buf].addr + off ELSE off
    /\ trigSample' = IF off = UINT_MAX THEN trigSample ELSE mem[la_trig_offset'].n
    /\ UNCHANGED ioc_buffers

TriggerFound(off) ==
    /\ IF off # UINT_MAX /\ la_trigger_mask
         THEN /\ ioc_buffers' = [ioc_buffers EXCEPT
                     ![cur_buf].size = off, ![cur_buf].last = TRUE]
              /\ la_trig_offset' = ioc_buffers[cur_buf].addr + off
         ELSE /\ la_trig_offset' = off
              /\ UNCHANGED ioc_buffers
    /\ trigSample' = IF off = UINT_MAX THEN trigSample ELSE mem[la_trig_offset'].n

la_acq_finished_NeverDone ==
    /\ la_trig_offset = UINT_MAX
         => \E off \in FindTrigger(ioc_buffers[cur_buf].size) : TriggerFound(off)
    /\ la_trig_offset # UINT_MAX => UNCHANGED <<ioc_buffers, la_trig_offset, trigSample>>
    /\ finished' = FALSE
    /\ UNCHANGED la_state

la_acq_finished ==
    \/ /\ la_trig_offset = UINT_MAX
       /\ \E off \in FindTrigger(ioc_buffers[cur_buf].size) : TriggerFound(off)
       /\ finished' = FALSE
       /\ UNCHANGED la_state
    \/ /\ la_trig_offset # UINT_MAX
       /\ finished' = ioc_buffers[cur_buf].last
       /\ la_state' = IF finished' THEN "ACQUIRED" ELSE la_state
       /\ UNCHANGED <<ioc_buffers, la_trig_offset, trigSample>>

IsrHandler ==
    /\ isr = "handler"
    /\ la_acq_finished
    /\ isr' = "status"
    /\ UNCHANGED <<mem, seq, pdcVars, enVars, busy, ioc_buffer_idx, ioc_buffer_current,
                   ioc_stop_acq, cur_buf, gap, la_trigger_mask, la_read_cnt, mainVars, out>>

Isr ==
    \/ (IsrEnter \/ IsrExit) /\ UNCHANGED <<laVars, mainVars, out, trigSample>>
    \/ IsrHandler

Pdc == PdcStore /\ UNCHANGED <<laVars, mainVars, out, trigSample>>

-----------------------------------------------------------------------------
(* The main program *)

Goto(from, to) ==
    /\ MainMayRun /\ pc = from
    /\ pc' = to

(* la_start_acq: the settings of the ring.  The step also renumbers the    *)
(* samples (history only): what memory holds now belongs to no acquisition *)
(* started from here on.                                                   *)
ChunkSize_NotSplit ==
    LET wanted == la_read_cnt * BuffersCnt
    IN  IF wanted <= BufferSize THEN wanted ELSE BufferSize

ChunkSize ==
    LET wanted == la_read_cnt * BuffersCnt
        most   == BufferSize \div BuffersCnt
    IN  IF wanted <= most THEN wanted ELSE most

StartRing ==
    [i \in BufferIds |->
        [addr |-> i * ChunkSize, size |-> ChunkSize,
         last |-> ~la_trigger_mask /\ i = BuffersCnt - 1]]

la_start_acq ==
    \/ /\ la_state # "IDLE"
       /\ Goto("start", ret)
       /\ UNCHANGED <<iocVars, laVars, app, ret, out, trigSample>>
    \/ /\ la_state = "IDLE"
       /\ Goto("start", "run")
       /\ la_trig_offset' = UINT_MAX
       /\ ioc_buffers' = StartRing
       /\ mem' = [a \in Addresses |-> [n |-> Stale, fixed |-> FALSE]]
       /\ seq' = 0 /\ gap' = FALSE /\ trigSample' = Stale
       /\ UNCHANGED <<pdcVars, enVars, busy, ioc_buffer_idx, ioc_buffer_current, ioc_stop_acq,
                      isrVars, la_trigger_mask, la_read_cnt, la_state, app, ret, out>>

(* la_start_acq's last two lines, with ioc_start *)
StartRun ==
    /\ Goto("run", "current")
    /\ la_state' = "RUNNING"
    /\ StartBookkeeping
    /\ UNCHANGED <<la_trigger_mask, la_read_cnt, la_trig_offset, app, ret, out, trigSample>>

ioc_start ==
    /\ \/ Goto("current", "count") /\ StartPointer
       \/ Goto("count", "next")   /\ StartCount
       \/ Goto("next", "irq")     /\ StartNext
       \/ Goto("irq", "rxten")    /\ Enable("irq")
       \/ Goto("rxten", "clk")    /\ Enable("rxten")
       \/ Goto("clk", ret)        /\ Enable("clk")
    /\ UNCHANGED <<laVars, app, ret, out, trigSample>>

Start == la_start_acq \/ StartRun \/ ioc_start

(* RESET: ioc_stop, then wait until the capture is not busy *)
ioc_stop ==
    /\ \/ Goto("stop", IF busy THEN "set_stop" ELSE "wait") /\ UNCHANGED iocVars
       \/ Goto("set_stop", "wait") /\ SetStop
    /\ UNCHANGED <<laVars, app, ret, out, trigSample>>

ResetWait_NoWait ==
    /\ Goto("wait", "acq")
    /\ la_trig_offset' = UINT_MAX
    /\ la_state' = "IDLE"
    /\ UNCHANGED <<iocVars, la_trigger_mask, la_read_cnt, app, ret, out, trigSample>>

ResetWait ==
    /\ ~busy
    /\ Goto("wait", "acq")
    /\ la_trig_offset' = UINT_MAX
    /\ la_state' = "IDLE"
    /\ UNCHANGED <<iocVars, la_trigger_mask, la_read_cnt, app, ret, out, trigSample>>

(* cmd_sump: one command of the host, taken at the top of the USB loop *)
cmd_sump ==
    /\ app = "usb"
    /\ \/ /\ Goto("loop", "start") /\ ret' = "acq"             \* RUN
          /\ UNCHANGED <<iocVars, laVars>>
       \/ /\ Goto("loop", "stop")                              \* RESET
          /\ UNCHANGED <<iocVars, laVars, ret>>
       \/ /\ Goto("loop", "acq")
          /\ la_state = "IDLE" \/ "late_config" \in Env
          /\ \/ /\ la_trigger_mask' \in BOOLEAN                \* SET_TRG_MASK
                /\ UNCHANGED <<iocVars, la_read_cnt>>
             \/ /\ la_read_cnt' \in ReadCounts                 \* SET_READ_COUNT
                /\ UNCHANGED <<iocVars, la_trigger_mask>>
             \/ /\ SetClock                                    \* SET_DIV
                /\ UNCHANGED <<la_trigger_mask, la_read_cnt>>
          /\ UNCHANGED <<la_trig_offset, la_state, ret>>
    /\ UNCHANGED <<app, out, trigSample>>

(* la_fix_channels: put the channels of the window's samples in order *)
Fixed(s) == [s EXCEPT !.fixed = ~ @]
InWindow(a) == (a - la_trig_offset) % BufferSize < la_read_cnt

la_fix_channels ==
    /\ Goto("fix", "deliver")
    /\ mem' = [a \in Addresses |-> IF InWindow(a) THEN Fixed(mem[a]) ELSE mem[a]]
    /\ UNCHANGED <<seq, pdcVars, enVars, busy, ringVars, ioc_stop_acq, isrVars, gap,
                   laVars, app, ret, out, trigSample>>

(* cdc_write_buf_reverted, la_usb_send: the last sample first; a window    *)
(* that runs over the end of memory is sent in two parts                   *)
Reverted(addr, size) == [i \in 1 .. size |-> mem[addr + size - i]]

la_usb_send(offset, size) ==
    IF offset + size <= BufferSize
      THEN Reverted(offset, size)
      ELSE Reverted(0, size - (BufferSize - offset)) \o Reverted(offset, BufferSize - offset)

(* la_display_acq: LCD_WIDTH columns from left to right *)
la_display_acq(offset) == [x \in 1 .. LcdWidth |-> mem[(offset + x - 1) % BufferSize]]

Deliver ==
    /\ Goto("deliver", "delivered")
    /\ out' = IF app = "usb" THEN la_usb_send(la_trig_offset, la_read_cnt)
                             ELSE la_display_acq(la_trig_offset)
    /\ UNCHANGED <<iocVars, laVars, app, ret, trigSample>>

Delivered ==
    /\ Goto("delivered", IF app = "usb" THEN "loop" ELSE "start")
    /\ ret' = "loop"
    /\ la_state' = "IDLE"
    /\ out' = <<>>
    /\ UNCHANGED <<iocVars, la_trigger_mask, la_read_cnt, la_trig_offset, app, trigSample>>

(* The loops.  The USB application polls for a command and then for a      *)
(* finished acquisition.  The LCD application reads la_state and, in a     *)
(* later step, whether the capture is busy.                                *)
Poll ==
    /\ \/ Goto("loop", IF app = "lcd" /\ la_state = "RUNNING" THEN "strange" ELSE "acq")
       \/ Goto("acq", IF la_state = "ACQUIRED" THEN "fix" ELSE "loop")
       \/ busy /\ Goto("strange", "acq")
    /\ UNCHANGED <<iocVars, laVars, app, ret, out, trigSample>>

Strange ==
    /\ ~busy
    /\ Goto("strange", "start")
    /\ ret' = "acq"
    /\ la_state' = "IDLE"
    /\ UNCHANGED <<iocVars, la_trigger_mask, la_read_cnt, la_trig_offset, app, out, trigSample>>

(* app_la_usb_func and app_la_lcd_func are entered from the menu and left  *)
(* with a button, at the top of their loop.  Leaving does not stop a       *)
(* capture; the user is one who enters again when it is over (see Env).    *)
EnterUsb ==
    /\ ~busy
    /\ Goto("menu", "loop")
    /\ app' = "usb"
    /\ la_trigger_mask' = FALSE /\ la_read_cnt' = 0
    /\ la_trig_offset' = UINT_MAX /\ la_state' = "IDLE"
    /\ UNCHANGED <<iocVars, ret, out, trigSample>>

EnterLcd ==
    /\ ~busy
    /\ Goto("menu", "start")
    /\ app' = "lcd" /\ ret' = "loop"
    /\ SetClock
    /\ la_trigger_mask' \in BOOLEAN /\ la_read_cnt' = LcdWidth
    /\ la_state' = "IDLE"
    /\ UNCHANGED <<la_trig_offset, out, trigSample>>

Exit ==
    /\ ~busy \/ "exit_busy" \in Env
    /\ Goto("loop", "menu")
    /\ app' = "none"
    /\ UNCHANGED <<iocVars, laVars, ret, out, trigSample>>

(* What the main program does by itself, and what the host and the user do *)
Main == Start \/ ioc_stop \/ ResetWait \/ la_fix_channels \/ Deliver \/ Delivered
           \/ Poll \/ Strange
User == cmd_sump \/ EnterUsb \/ EnterLcd \/ Exit

Next == Pdc \/ Isr \/ Main \/ User

Spec == Init /\ [][Next]_vars

(* The clock makes samples, a pending interrupt is served, and the main    *)
(* program goes on: nothing here waits for a scheduler.                    *)
Fairness == WF_vars(Pdc) /\ WF_vars(Isr) /\ WF_vars(Main)
FairSpec == Spec /\ Fairness

-----------------------------------------------------------------------------
(* Properties *)

(* Every address the PDC can still write, now or after it takes the next   *)
(* buffer, is in the sample buffer: no sequence of acquisitions, truncated *)
(* trigger buffers, late settings or applications left too early (and      *)
(* entered again when the capture is over, see Env) makes the DMA of       *)
(* ioc_start and ioc_set_next_buffer leave it.                             *)
DmaInBounds == rp + rc <= BufferSize /\ rnp + rnc <= BufferSize

(* When the main program sees la_state = ACQUIRED, and until it has        *)
(* delivered the samples, the capture is over and the PDC has nothing left *)
(* to write.  la_acq_finished sets ACQUIRED before the last buffer is      *)
(* full; only the interrupt that stays pending until PIOA_Handler stops    *)
(* the capture keeps the main program from seeing it early.                *)
WindowStable ==
    pc \in {"fix", "deliver", "delivered"} \/ (la_state = "ACQUIRED" /\ MainMayRun)
        => ~busy /\ RxBuff

(* While la_acq_finished searches a buffer for the trigger, that buffer is *)
(* neither the one the PDC fills nor the one it fills next: the search     *)
(* never races the DMA.                                                    *)
HandlerOwnsBuffer ==
    isr = "handler" /\ la_trig_offset = UINT_MAX =>
        LET b == ioc_buffers[cur_buf]
            In(a) == a >= b.addr /\ a < b.addr + b.size
        IN  (rc > 0 => ~In(rp)) /\ (rnc > 0 => ~In(rnp))

(* The samples la_start_acq was asked for, oldest first *)
Window == [i \in 1 .. la_read_cnt |-> [n |-> (trigSample + i - 1) % SeqMod, fixed |-> TRUE]]

(* What is being delivered, oldest first: la_usb_send sends it backwards *)
InOrder == IF app = "usb" THEN [i \in DOMAIN out |-> out[Len(out) + 1 - i]] ELSE out

(* The part of memory the ring of buffers covers *)
RingSize == BuffersCnt * ChunkSize

(* What is sent or drawn is the samples from the trigger on, without a     *)
(* gap, each with its channels put in order once.                          *)
DeliversWindow == pc = "delivered" => InOrder = Window

(* It is so whenever the PDC was never short of a buffer and the window    *)
(* does not run over the end of the ring, or the ring ends where memory    *)
(* ends, which is where la_fix_channels, la_usb_send and la_display_acq    *)
(* wrap.                                                                   *)
WindowExact ==
    /\ ~gap
    /\ RingSize = BufferSize \/ la_trig_offset + la_read_cnt <= RingSize
    => DeliversWindow

(* The main loops never find an acquisition RUNNING that nothing drives    *)
(* any more (the case app_la_lcd_func calls strange), even when a stop     *)
(* requested too late is left over in ioc_stop_acq.                        *)
NeverStranded ==
    la_state = "RUNNING" /\ la_read_cnt > 0 /\ pc \in {"loop", "acq"} /\ MainMayRun => busy

(* Once the trigger is found, or when none is configured, an acquisition   *)
(* ends, whatever RESET commands come in between.                          *)
Completes ==
    (la_state = "RUNNING" /\ la_read_cnt > 0 /\ (~la_trigger_mask \/ la_trig_offset # UINT_MAX))
        ~> la_state # "RUNNING"

(* PIOA_Handler, entered again and again while the last buffer fills (its  *)
(* interrupt is only cleared by supplying a buffer), lets go of the        *)
(* processor in the end.                                                   *)
StormEnds == la_read_cnt > 0 ~> MainMayRun

(* io_capture.h of ioc_stop: "Unconditionally stops the acquisition."      *)
StopStops == busy /\ ioc_stop_acq ~> ~busy

(* The applications implement Acquisition: completion is the moment the    *)
(* main program can see it.                                                *)
Promise == INSTANCE Acquisition WITH
    Counts  <- 0 .. BufferSize,
    st      <- IF pc = "delivered" THEN "delivered"
               ELSE IF la_state = "IDLE" THEN "idle"
               ELSE IF la_state = "ACQUIRED" /\ MainMayRun THEN "acquired"
               ELSE "running",
    writing <- rxten /\ clk /\ rc > 0,
    from    <- IF la_state = "ACQUIRED" /\ MainMayRun THEN trigSample ELSE Stale,
    shown   <- [i \in DOMAIN out |-> IF InOrder[i].fixed THEN InOrder[i].n ELSE Stale]

Implements == Promise!Spec
=============================================================================
