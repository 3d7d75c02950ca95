# Specifications of the KiCon 2019 badge firmware

TLA+ models of the firmware of the badge (SAM4S microcontroller, C) and of the
Python client that commands it, with TLC configurations and TLAPS proofs. The
models are translated from the source, and `PROJECT.json` names for each
definition the lines it stands for.

Contents: [the system](#the-system) - [modules](#modules) -
[runs](#runs) - [what the runs found](#what-the-runs-found) -
[proofs](#proofs) - [not modelled](#what-is-not-modelled) - [plan](#plan).

## The system

One Cortex-M4 core runs a main program, which shows a menu and calls one
application at a time, and a few interrupt handlers. Nothing is scheduled: a
pending interrupt preempts the main program, handlers do not nest as far as the
firmware's own ones go, and the DMA channels (PDC) of the peripherals run on
their own beside both. The hard part of the firmware is at those borders.

| Component | State | Operations | Interacts with | Correct when |
|---|---|---|---|---|
| I/O capture driver (`io_capture.c`) | ring of buffers and its two indexes, `busy`, `ioc_stop_acq`; the PDC's registers | `ioc_init`, `ioc_set_clock`, `ioc_start`, `ioc_stop`, `ioc_busy`, `PIOA_Handler` | writes the shared sample buffer by DMA; calls the client's finish handler from the interrupt | the PDC always has a buffer of its own to write, and is silent when the driver says it is |
| Logic analyzer (`logic_analyzer.c`) | trigger settings, read count, trigger offset, `la_state` | two applications: SUMP commands and samples over USB, samples on the display; `la_acq_finished` in the interrupt | capture driver, USB, display, buttons | what is sent or drawn are the samples from the trigger on; an acquisition whose trigger came ends |
| Command interface (`commands.c`) | command buffer and index, mode | `cmd_new_data`, `cmd_try_execute`, the handlers of UART, I2C, SPI, LED, LCD, buttons | USB serial line, peripherals | each command gets one answer, its own; a reset brings the buffer to a known state |
| Python client (`python/kicon_badge.py`) | none but the open port | `init`, one method per command | USB serial line | a call returns its own command's answer or raises |
| Display driver (`lcd.c`) | display buffer, DMA page, busy flag | drawing, `SSD1306_drawBufferDMA`, `TWI0_Handler` | the I2C bus, which it shares with `cmd_i2c` | pages go out in order, drawing does not race the DMA, the bus has one user and that one's clock |
| Pin and clock multiplexing (`io_conf.c`, `i2c.c`) | current pin configuration, the user's I2C clock | `io_configure` | display, I2C, SPI, capture | the user's clock comes back after display transfers |
| Oscilloscope (`scope.c`) | `us_value` (two ADC buffers), ready flags, trigger and scale settings | `app_scope_func`, `scope_draw`, `ADC_Handler` | shares the sample buffer with the logic analyzer | a buffer is not written while it is drawn; nothing writes it after the application is left |
| Menu (`menu.c`) | current menu, stack, selection, offset | `menu_enter`, `menu_leave`, buttons | starts the applications | the selection is an entry, is visible, and comes back when a submenu is left |
| LEDs (`led.c`) | state, period and counter of each LED | `led_set`, `led_blink`, `TC0_Handler` | command interface | an LED shows what was last asked of it |
| USB CDC FIFO (`udi_cdc.c`, `usb_handlers.c`) | two receive and two transmit buffers, their switches | `udi_cdc_getc`, `udi_cdc_write_buf`, the transfer callbacks | every application that talks to the host | bytes are neither lost nor reordered, and a writer is not kept waiting by a host that went away |
| UART bridge, buttons, SPI, start-up | little or none | polled copies, reads of pins, register setup | the display, the pins | they wait for the display before they draw |

Behaviours that are hard to test, and for which `PROJECT.json` lists each place
under "hazards": an interrupt or a DMA step between two statements of the main
program; the last interrupt of an acquisition meeting a stop request; a level
interrupt that stays pending; a DMA faster than its handler; buffer ends and
one-byte lengths; a client that is killed in the middle of a command, or times
out just before the answer; settings that change during an acquisition.

## Modules

### IoCapture: the capture driver

The PDC is an actor: `PdcStore` stores one sample, moves to the next buffer when
the current one is full, and raises ENDRX; RXBUFF is "no current and no next
buffer". `IrqPending` is the interrupt line, and `MainMayRun` says when the main
program takes steps: when no handler runs and none is pending. Interrupts
therefore come between any two of its steps, and never after a step that should
have been preempted.

`ioc_start` is cut wherever the PDC or the handler can tell the difference: the
bookkeeping, the two registers of the current buffer (`StartPointer`, `StartCount`),
the next buffer (`SetNextBuffer`), and the three enables (interrupt, receiver,
clock), each a step. The two registers of the next buffer are one step: the PDC does
not look at the address while the count is 0, as it is whenever they are written. `ioc_stop` is two steps, its
test of `busy` and its assignment, because the last interrupt of an acquisition
fits between them. `PIOA_Handler` is `IsrEnter` (read the current buffer, consume
a stop request or supply the next buffer), the client's finish handler, and
`IsrExit` (stop the hardware if finished and RXBUFF); PDC steps come between.

`WriteNext` models what the code relies on of the PDC and the code does not say:
a PDC that has run dry takes a next buffer at once, and a nonzero count clears
ENDRX.

### LogicAnalyzer: both applications

`la_acq_finished` (trigger search, the cut of the buffer the trigger is in,
completion) runs inside `PIOA_Handler`. The main program's loops are steps named
by `pc`: the SUMP commands, `la_start_acq`, the RESET sequence, fixing the
channels, sending or drawing, and back. A sample is its number on the probes and
whether its channels are in order: enough to tell a sample from its neighbour,
from one of an earlier acquisition (`Stale`), and from one fixed twice. Any
sample may match the trigger. `Env` says what the surroundings may do:

- `overrun`: the PDC may outrun the handler (at 50 MHz it fills 16 KiB in 0.3 ms,
  less than a trigger search of as much takes);
- `exit_busy`: the user leaves the application during an acquisition, and enters the
  logic analyzer again when the capture is over;
- `late_config`: the host changes settings during an acquisition.

### Acquisition: what an application promises

Four states and the moves between them: an acquisition completes at one moment,
the hardware is silent from then on, and what is delivered is a run of
consecutive samples starting at the trigger. `LogicAnalyzer!Promise` is the
refinement mapping. Completion is not the assignment of ACQUIRED in the
interrupt, which comes while the last buffer is still filling, but the moment the
main program can see it: that is what makes the two agree.

### Commands: the badge's end of the command protocol

The multiprotocol mode of `commands.c`. One turn of the loop that finds a byte is
one action, `Take`: append to `cmd_buf`, and if `Answers` is not empty, answer and
reset. Bytes are numbers below `ByteMod`, 256 in the code. Everything the code
keeps in a `uint8_t` wraps there: the response's length field and the number of
bytes sent. A handler is modelled by the answers it may give; one that reads past
its payload (the code does not check) reads any byte.

### CommandLink: the client and the line

`kicon_badge.py` as a client process: `init` with its discarded read and its
loop of reset and read, a call, the two reads of `_get_resp`, and `Kill`, at any
point of a call or of `init`, or in the middle of a write. A read returns early
only when nothing more is on its way, unless `Env` has "slow" and the command
uses the I2C bus. Opening the port drops what the badge has sent. `log` is a
history variable: the commands handled since the client's last call.

### Lcd: the display driver and its bus

`lcd.c`, `io_conf.c` and the clock of `i2c.c`. `DrawBuffer_Begin` and
`DrawBuffer_FirstPage` are `SSD1306_drawBufferDMA` cut where it first touches the
bus; `TWI0_Enter`, `TWI0_NextPage` and `TWI0_Done` are `TWI0_Handler` with its wait
for TXCOMP. The PDC (`PdcFetch`) and the TWI with the display's controller behind
it (`TwiShift`) are actors. ENDTX means that the last piece has left memory, and the
TWI still holds up to two: that is the difference the handler's wait is about. A
page is read in pieces, so that drawing in the middle of its transfer shows. What a
row shows is a record: whose screen, which entry, selected or not.

`io_configure` is its state: the configuration, the saved user clock and the clock
of the TWI. Which pins it switches is left out.

### Menu

`menu.c` over any tree of menus; `MenuAssumption` says what a tree is (the deepest
menu leaves a place of the stack free; `menu_struct.c` is two levels below the main
menu, the stack is deeper). One operator per button, each with the scrolling at the
end of `menu()`; `Press` takes the buttons that are down together and does what the
chain of tests in `menu()` does.

### Panel: the main program over the display

Composes Lcd and Menu. `pc` is where the main program is, `ret` where it goes on
after a refresh; each application is reduced to when it draws, waits for the
display, and uses the bus. `asked` is a history variable: the clock the host asked
for last. `Env` says what the surroundings may do:

- `eager`: the host draws before the refresh it asked for has ended;
- `quick`: a button is pressed and released within a refresh (about 25 ms).

The runs exclude both, and each theorem the one it needs to; see
[what the runs found](#what-the-runs-found).

### Screen: what the display promises

A canvas and what is shown of it. `Panel!WholePictures` is the refinement: while a
refresh is under way what is shown is not determined, when it ends it is the
canvas as it was when the refresh began.

### UdiCdc: the serial line over USB

`udi_cdc.c` with one port. `tx` and `rx` hold the two buffers of each direction
with their switches; `TxSend` and `RxStart` are `udi_cdc_tx_send` and
`udi_cdc_rx_start` as functions of that state, because they are called from the
interrupt (`DataSent`, `Sof`, `DataReceived`, `DataEnable`) and from the main program.
The main program's calls are cut between their locked sections: `WriteReady` and
`WriteCopy`; `GetcLock`, `GetcTake`, `GetcRxStart`, `GetcEpRun`. The host takes and
sends packets, connects and disconnects at any time. Bytes are numbered modulo `Mod`.

### BytePipe: what a serial line promises

A bounded queue of numbered bytes: what is put comes out once and in order. Only
`Break` drops bytes, and it is the line going down or coming up again: with the line
as it was, every step puts, takes, or leaves the queue alone. `UdiCdc!ToHost` and `UdiCdc!FromHost` are the
refinements: what is in the buffers and in the endpoint, in the order it will be
taken, is the queue. Towards the host the refinement includes liveness: what is
written does arrive.

### Scope: the oscilloscope and the buffer it shares

The ADC converts on its own (`Convert`) once it is configured, and its PDC stores
conversions with the channel's tag. `ADC_Handler` is one step: while it runs both
counters of the PDC are zero. It sorts a transfer into a buffer per channel
(`Demultiplexed`), looks for the threshold, and starts the next transfer;
`scope_draw` is `DrawBegin`, `DrawPixel`, `DrawRefresh`, `DrawEnd`. `Due` is the
reference definition of a trace: what should be drawn of a transfer, stated without
the handler's loop. `owner` is a history variable, who wrote each part of the large
buffer last; the logic analyzer appears as `LaAcquire` and `LaShow`.

### Proof and instance modules

The theorems are in modules of their own, each about the module named here:

| Module | About | Theorems |
|---|---|---|
| `LogicAnalyzerProofs` | LogicAnalyzer | types and DMA bounds; silence when complete |
| `RingProofs` | LogicAnalyzer | the ring of buffers, what is delivered, the refinement of Acquisition |
| `PanelProofs` | Panel | the bus and its clock, the menu |
| `DisplayProofs` | Panel | types, what the display shows, the refinement of Screen |
| `UdiCdcProofs` | UdiCdc | counts, room, bytes; the two refinements of BytePipe |
| `ScopeProofs` | Scope | who has the buffers, their bounds, what is drawn |
| `CommandProofs` | CommandLink | types, and the matching of calls and answers |
| `LoopLemmas` | numbers | induction and functions defined by it, for loops |

`MCLogicAnalyzer`, `MCCommandLink`, `MCPanel` and `MCScope` hold the constants of the runs that
need definitions.

## Runs

Every run is `tlc -config <run>.cfg <module>`. Deadlock is not checked: the
models have states in which the system rightly waits (for the host, for a button,
for a trigger, or, with a client that has been killed, for ever), and what must
not wait is stated as a liveness property.

| Run | Module | Expected | Question |
|---|---|---|---|
| `la_live` | MCLogicAnalyzer | pass | With a user who leaves early: do acquisitions end (`Completes`), do interrupt storms end (`StormEnds`), is no acquisition left without a driver (`NeverStranded`), and do the applications implement `Acquisition` (`Implements`)? |
| `la_ring` | MCLogicAnalyzer | pass | With overruns and a user who leaves early: types, whose each buffer is (`HandlerOwnsBuffer`), silence when complete (`WindowStable`), and exactly which samples are delivered (`WindowExact`) |
| `la_any` | MCLogicAnalyzer | pass | With overruns, exits and late settings together: does the DMA stay in the buffer (`DmaInBounds`)? |
| `la_stop` | MCLogicAnalyzer | violation | Does `ioc_stop` stop the acquisition (`StopStops`)? |
| `la_wrap` | MCLogicAnalyzer | violation | Are the samples delivered those acquired (`DeliversWindow`), where the ring is shorter than memory? |
| `cmd_link` | MCCommandLink | pass | Does each call get its own answer (`CallAnswered`), leave the line clean (`LineClean`), raise only for a listed reason (`RaisesForAReason`) and end (`CallEnds`)? Does `init` succeed after a client was killed (`Resyncs`)? |
| `cmd_init` | MCCommandLink | violation | Does `init` always leave the line clean (`InitCleans`)? |
| `lcd` | MCPanel | pass | Types; has the bus one user at a time (`BusExclusive`), at that one's clock (`BusClock`); does the display show what the menu waits on (`ScreenShowsMenu`), is the menu's state sound (`MenuSound`), and are pictures whole (`WholePictures`, the refinement of Screen)? |
| `cdc` | UdiCdc | pass | Types; is the room a writer was promised there (`RoomKept`), and the byte a reader was (`ByteKept`); is each direction a pipe (`ToHostPipe`, `FromHostPipe`); does a writer get done (`WriteEnds`)? |
| `scope` | MCScope | pass | Types; is what is drawn a whole trace of one transfer, from the threshold on (`TraceDue`); are the channel buffers left alone meanwhile (`FrameHeld`); does it go on drawing (`KeepsDrawing`)? |
| `scope_la` | MCScope | violation | Are the samples the logic analyzer shows its own (`SamplesAreItsOwn`)? |
| `cmd_slow` | MCCommandLink | violation | Is what a call returns an answer to that call (`NoStaleAnswer`), when I2C is slower than the client's timeout? |

Each property of a passing run has a mutant in `PROJECT.json`: a version of one
definition with a plausible slip (`IsrExit_AtOnce` stops without waiting for
RXBUFF, `IsrEnter_ReadsLate` reads the buffer index after moving it,
`Collect_OneMore` is one conversion off, `TWI0_Done_AtOnce` does not wait for TXCOMP,
`MovesOn_Again` forgets that both buffers are in use, ...) for which TLC finds the property violated.

### Bounds, and why they are enough

- Four buffers, the code's number (`LA_IOC_BUFFERS_CNT`), in every run. The
  handler, the current and the next buffer use three; the fourth makes the ring
  wrap differently from memory.
- `la_live`: memory of 8, read counts of 1 (a window of one sample) and 8 (the
  window is all of memory), 2 on the display. The ring covers memory in each. Buffers of two samples let a trigger
  fall on the first sample of a buffer, which leaves it with size zero, and on
  another.
- `la_ring`: memory of 20, read counts of 1 and 5: four buffers of five samples,
  which cover memory, or of four, which do not. A trigger can fall on the first,
  the last and inner samples, and the ring turns more than twice.
- `la_any`: memory of 4 and buffers of one sample, which is where counts reach
  zero most often; the proof of the same property covers every size.
- `la_wrap`: memory of 36, read count 2: the ring takes 32 and leaves four bytes
  behind it. The code's display application has the same shape with 128 and
  64 KiB.
- `SeqMod` (samples are numbered modulo 17, 48, 80) is more than twice memory in
  the runs that compare sample numbers, so that no two samples in memory share a
  number. In `la_any` no property looks at them.
- `cmd_link`: bytes of three bits (`ByteMod` = 8). All the boundaries of the
  code's 256 exist at 8: a payload that fills the length byte, a buffer one
  longer than that, responses whose byte count wraps. Calls are one command of
  every type, I2C reads of every length the client allows but zero, and the
  longest payload; the UART has up to two bytes for a command. `Leftovers` are all the beginnings of commands whose answers
  carry no data; `cmd_init` shows what the others do.
- `lcd`: three pages of two pieces, so that there is a first, an inner and a last
  page, and a piece in the TWI when the PDC is done; a tree with every kind of entry
  and application, three levels, and a menu of settings one longer than the display,
  so that it scrolls at both ends; the host's clocks include one that is refused.
- `cdc`: buffers of two bytes, writes of up to three, so that a write fills a buffer
  and goes on in the other; two frames before an empty packet (100 in the code).
  Bytes are numbered modulo 5, more than the four that can be under way. One
  direction carries bytes in each behaviour: the directions share the main program
  and the state of the line, but no buffer.
- `scope`: a display two columns wide with two pages of two rows, transfers of four
  and eight conversions, a signal of period three with its rising edge at every
  place or none, so that the threshold is found at the first, at a later, and at no
  conversion of a transfer (`MCScope!Steps`; the theorems take any). Settings are one channel and two; the oscilloscope is
  started twice, with the logic analyzer and a change of setting between, and not
  left the second time.

### Fairness

`FairSpec` of LogicAnalyzer: weak fairness of the PDC (its clock runs while
enabled: an action `PdcStore` that is not enabled when the clock is off), of the
interrupt (the hardware takes a pending one) and of the main program's own steps
(a loop that does not wait for anybody). None for the host and the user. Note
that weak fairness of the main program gives nothing while an interrupt stays
pending: `StormEnds` is where that matters. `FairSpec` of CommandLink: weak
fairness of the badge's loop while it is in the command interface, and of the
client's code. `FairSpec` of Panel: the hardware, the
interrupt, and the main program's own steps, those that wait for nobody; pressing a
button, sending a command and leaving an application are not fair. `FairSpec` of
UdiCdc: the interrupts, frames while the device is configured, the main program
within a call, and a host that polls the IN endpoint: without the last `WriteEnds`
fails, and is meant to (see below). `FairSpec` of Scope: the ADC, the handler, the
end of a refresh, and strong fairness of the main program's own steps, because
passes of the handler disable them again and again: each pass starts a whole
transfer, and between its start and its end the main program does get its turn.

`Env` of `la_live` has no overrun: with it, a PDC that is always
faster than the handler makes no promise of completion possible.

## What the runs found

1. `la_stop`: io_capture.h:63 says `ioc_stop` stops the acquisition
   "Unconditionally". It raises a flag that the next interrupt consumes, and that
   interrupt stops the hardware only if the PDC has no next buffer. While the
   trigger has not come there always is one: the request is forgotten, and RESET
   waits on `ioc_busy` until the trigger comes.
2. `la_wrap`: the ring wraps at its own end, the readers of the samples at the end
   of memory. For a small read count the ring is shorter, and a trigger near its
   end makes the application draw or send bytes no sample was written to.
   `WindowExact` states the condition under which delivery is right.
3. `cmd_init`: `init` compares three bytes at a time. If its zeros complete the
   command of a killed client and the answer carries data, it can take the end of
   one reset response and the beginning of the next for one, and return with bytes
   unread, so that later calls read somebody else's answer.
4. `cmd_slow`: the answer to an I2C command that outlasts the half-second timeout
   stays on the line, and the next call returns it as its own.
5. `scope_la`: buffer.h:25-26 says that applications share the large buffer "not at
   the same time obviously!". Leaving the oscilloscope stops nothing: the ADC
   converts on, its interrupt stays enabled, and `ADC_Handler` starts transfer
   after transfer into `us_value`. From the first use of the oscilloscope on, 1 KiB of
   the logic analyzer's samples is overwritten with conversions.

Observed while modelling, and stated in the models or as hazards:

- Leaving the logic analyzer does not stop a capture either (logic_analyzer.c:445):
  while a trigger is waited for, the ring turns on in the buffer the oscilloscope
  uses, if that is started next. With `exit_busy` the capture goes on in the model;
  the oscilloscope is not in it.
- The logic analyzer left during an acquisition and entered again before the capture
  has ended starts one under a running PDC. `ioc_start` stores the address of the
  first buffer (io_capture.c:152) and then its count (line 153); the PDC moves on in
  between, and a full count then goes with an address in mid-buffer or of another
  buffer, so that the transfer can pass the end of memory. The models do not follow
  this: with `exit_busy` the user enters again when the capture is over.
- lcd.h:136-137 says of the display buffer: "One should not modify the buffer
  contents during the data transfer." `cmd_lcd` clears and draws without a look at
  the busy flag (lcd.c:491, 501, 505), and answers REFRESH when the transfer starts:
  with `eager` in `Env`, `WholePictures` fails. So it does with `quick`, where the test
  picture of menu.c:199 or the announcement of logic_analyzer.c:465 is drawn into the
  menu's refresh, and then `BusExclusive` fails too, for a second refresh starts in
  the first. Only the time a press takes prevents that.
- With `midway` in `Env`, the line going down or up inside `udi_cdc_getc`, `ByteKept` and
  `FromHostPipe` fail: the call then waits for the host though a byte was promised,
  or, with the line down, returns 0, a byte nobody sent; and a position beyond the
  count makes `udi_cdc_is_rx_ready`, a difference of unsigned numbers, true.
- A writer waits for ever while the host is connected and does not read: a host
  that stops in the middle of a logic analyzer transfer keeps the badge from its
  buttons.
- The oscilloscope enables its interrupt (scope.c:164) before the first transfer
  exists, so that the first frame is made of what `us_value` held. After power-on with
  one channel that is zeros, whose tag matches the second entry of `adc_channels`,
  never configured: the pass stores through its NULL `buffer`.
- The oscilloscope's threshold is row 32 whatever the rows of a channel are: with
  two channels the first, drawn in rows 32 to 63, always meets it, and the second,
  in rows 0 to 31, never does.
- A stop request that meets the last interrupt stays behind in `ioc_stop_acq` and
  is consumed by the next acquisition's first interrupt, which then supplies no
  buffer. `NeverStranded` and `Completes` show that acquisition still ends: the
  interrupt is entered again at once. Not so if the PDC outruns the handler just
  then: with `overrun` `NeverStranded` fails, for a PDC that runs dry before the first
  interrupt is over is stopped, and the acquisition stays RUNNING until a RESET (the
  display application restarts it).
- While the last buffer fills, ENDRX stays raised and the handler is entered again
  and again; the main program does not run. This is also what keeps it from seeing
  ACQUIRED too early: `WindowStable` depends on the storm.
- With an overrun, samples are lost without notice (`gap`).
- SET_DIV during an acquisition stops the sampling clock, which only `ioc_start`
  starts again.
- A payload of 255 bytes, legal by commands.h:24, is answered with an overflow; an
  answer of 254 payload bytes is not sent, one of 255 is cut to one byte. These are
  the exceptions `RaisesForAReason` names.
- `init` makes one trial too few for a badge that waits for 255 payload bytes.

## Proofs

TLAPS checks the theorems for every value of the constants, from the named
assumptions on them (`ConstAssumption`, `LaAssumption`, `LcdAssumption`,
`MenuAssumption`, `PanelAssumption`, `CdcAssumption`, `ScopeAssumption`,
`CommandsAssumption`, `LinkAssumption`; TLC evaluates each) and the hypotheses each
theorem states. A hypothesis on `Env` says what the surroundings do not do; where
one is needed, [what the runs found](#what-the-runs-found) says what happens
without it.

There is one lemma per action or group of actions, with a step for each action and
under it the conjuncts it can disturb. Inductive invariants are first checked by TLC
on the constants of the runs, then proved.

### Logic analyzer

- `LogicAnalyzerProofs!TypeCorrect`, `DmaStaysInBuffer`: `[]TypeOK` and
  `[]DmaInBounds`, for every memory, number of buffers above one and set of read
  counts up to the size of memory. `DmaInBounds` is not inductive: the PDC's
  registers come from the ring, so every buffer of the ring must lie in memory
  (`RingInBounds`), and the trigger offset is used as an address, so it must be
  known where it is (`TriggerKnown`). `TInv` is the conjunction with `TypeOK`. It is inductive
  together with `WInv` (below), whose `Idle` says that the PDC has nothing left to write
  when an acquisition starts: otherwise the two stores of `ioc_start` would be torn.
  No hypothesis on `Env`: late handlers, late settings and users who leave early are
  all included, restarts under a running capture are not (see `exit_busy`). The one step that
  takes arithmetic is `la_start_acq`: buffers of `min(count * n, size / n)` one
  behind the other end inside memory (`StartRingInBounds`); `la_acq_finished` only
  shortens buffers.
- `LogicAnalyzerProofs!CompleteMeansSilent`: `[]WindowStable`. When the main program sees an acquisition complete the PDC has nothing
  left to write. `WInv` adds to `TInv`, besides `Idle`: the indexes of the ring are two different
  buffers unless the last one has been supplied (`Chained`); the handler's
  `finished` means that it has been supplied (`Reported`); ACQUIRED means so too,
  with an interrupt pending until the handler has stopped the capture (`Acquired`);
  and where the main program can be in each of these states (`Phases`). The
  argument: once the last buffer is supplied no next one is, so ENDRX stays raised
  until RXBUFF, so the interrupt stays pending, so the main program does not run.
- `RingProofs!HandlerIsAlone`: `[]HandlerOwnsBuffer`, for three or more buffers
  (`LA_IOC_BUFFERS_CNT` is 4) and `Settled`: the handler may be late by any amount,
  and the user leave during an acquisition, but settings stay. `RInv` adds to
  `WInv`: buffers lie one behind the other (`RingOrdered`), the ring is as
  `la_start_acq` made it until the trigger is found (`Untouched`), a start gives the
  PDC the first buffer while it has no next one (`Starting`), and while the trigger is looked for the buffer
  the handler searches, the one being filled and the one to be filled next are
  three in a row (`Before`). With two buffers the first would be the third.
- `RingProofs!NoneIsStranded`: `[]NeverStranded`, if `Env` is empty, for three buffers
  or more with room for a sample each. `NInv` adds to `RInv` that the buffers of a
  ring just made have room for samples (`Sized`) and what a stop request left over can
  do: the interrupt that consumes it comes before the PDC has reached the last
  buffer, so it stops nothing (`StopHarmless`). That is why overruns are excluded.
- `RingProofs!WindowIsExact`: `[]WindowExact`, under the hypotheses of
  `HandlerIsAlone`. `DInv` adds to `RInv`: buffers are laid around the ring (`Laid`);
  what the PDC has been given ends where `ioc_buffer_idx` ends (`Planned`); the ring
  holds consecutive samples, the latest just behind the PDC (`Recorded`); the buffers
  behind the one being filled have been written (`Behind`); once the trigger is found
  the last buffer ends in front of it, so that no transfer overwrites it
  (`Triggered`). When the PDC is dry in the last buffer it stands at the trigger,
  and what is behind it, all around the ring, is the samples from the trigger
  on (`RecordedWindow`, an induction over the window; `Handed` carries it through
  fixing and sending).
- `RingProofs!PromiseIsKept`: under the same hypotheses every step is a step of
  `Acquisition` or leaves its variables alone, except the delivery of a window that
  runs over the end of a ring shorter than memory (`Deliver /\ ~Fits`, which `la_wrap`
  shows). `ApplicationsImplementAcquisition`: `Implements`, where no ring is shorter
  than memory (`Covering`). With the code's 64 KiB in four buffers that is so of
  hosts that read at least 4096 samples. It is not so of the display application's
  128, about which only the first of the two theorems speaks.

### Display and menu

All for every size of the display, tree of menus and set of clocks. `Slow` (`quick` is
not in `Env`) is a hypothesis of all but `MenuStaysSound`; `eager` may be in `Env`
except where `Patient` is named.

- `PanelProofs!BusHasOneUser`: `[]BusExclusive`. `BusInv`: while the display is not
  busy, nothing is in the PDC or the TWI and the handler is not running; and the
  places in the program from which the bus is used (`FreePlaces`) are reached only
  when it is not busy.
- `PanelProofs!ClockIsItsUsers`: `[]BusClock`. `ClockInv` says which clock is in force
  in each configuration and when the other one is saved; the part that is not
  obvious is that a refresh goes on at its own clock while the pins of the UART or
  the ADC are configured, which forgets neither clock.
- `PanelProofs!MenuStaysSound`: `[]MenuSound`, for every tree of menus that
  `MenuAssumption` allows. `MenuInv` adds the depth: the stack has as many places as
  the current menu is deep, so that it is never full when a submenu is entered and
  nothing pushed is lost. `EnterStep` and `LeaveStep` are where the path changes.
- `DisplayProofs!DisplayIsTyped`: `[]TypeOK`. `TypedInv` joins `BusInv`, `MenuInv` and that
  the end interrupt is enabled only while pages are left, so that their count is
  never decremented below zero. `PanelAssumption` says that an entry of type APP
  names an application, as those of `menu_struct.c` do.
- `DisplayProofs!MenuIsShown`: `[]ScreenShowsMenu`. `ShowInv`: pages go out in order, and
  what the panel does not have of one is in the PDC or the TWI (`SendInv`); what has
  left the display buffer is still what is in it (`PictureInv`); from where the menu is
  drawn until a button is pressed the buffer holds it, and after the refresh the
  panel does (`MenuDrawnInv`); with `Patient`, rows are of one piece between refreshes
  (`WholeInv`).
- `DisplayProofs!DriverImplementsScreen`: the safety part of `WholePictures`, with
  `Patient` as well: every step of Panel is a step of Screen or changes nothing of it.

### Serial line

For buffers, writes and counts of every size, if `midway` is not in `Env` (`Steady`).

- `UdiCdcProofs!CountsWithinBuffers`, `RoomIsKept`, `ByteIsKept`: `[]TypeOK`, `[]RoomKept`
  and `[]ByteKept`. `CdcInv` adds that the transmit buffer not being filled is
  empty unless it is being sent or waits to be (`TxIdle`), which is why an interrupt
  that switches buffers leaves room, and that the read position does not pass the
  count (`RxWithin`), which is why a difference means a byte.
- `UdiCdcProofs!FromHostIsPipe` and `ToHostIsPipe`: `FromHostPipe`, and the safety part of
  `ToHostPipe`. `LinkInv` says when the endpoints hold something and which buffer it
  is of; each step is then shown to put, to take, to leave the queue as it is, or, if
  it is the line going down or up, to leave a part of it, which is a matter of cutting and joining sequences.

### Oscilloscope

For every display, ADC, set of periodic signals (any values over a period of any
length) and number of starts, with no hypothesis.

- `ScopeProofs!FrameIsHeld`: `FrameHeld`; `adc_buffers_rdy` is set all the while `scope_draw` draws.
- `ScopeProofs!BuffersHold`: `[]TypeOK`, which says that the PDC stays in `us_value`, that a
  pass of the handler stores no more for a channel than a channel buffer holds, and
  that `scope_draw` draws from inside that. It bounds lengths. It does not say that
  there is a buffer: the first pass after power-on with one channel stores through
  the NULL of the second entry (see above), within the same bound. `STypes` bounds the PDC's
  counters by the transfer; that of the loop is by induction over its turns.
- `ScopeProofs!TraceIsDue`: `[]TraceDue`. `DInv` adds to `STypes`: a transfer under way
  holds consecutive conversions, its tags in the order they were configured
  (`InTransfer`, `Configured`); what is ready to be drawn is what is due
  (`FrameReady`), and so is what has been drawn of it (`CanvasGood`). The lemmas about
  the loop say what it has made of the first n conversions of a transfer: where each
  channel's conversions went, and that the threshold it stops at is the first.

The provers cannot instantiate an induction rule that takes a predicate. `LoopLemmas`
states induction over sets (`SetInduction`: a set with zero and the successors of
its members has every number), and that a function given by its value at zero and
by a step exists (`Recursion`). A loop is such a function, and what holds of each of
its turns is proved by putting the turns it holds of in a set.

### Command protocol

For bytes of every width of three bits and more, and every set of calls and of killed
clients' leftovers.

- `CommandProofs!LineIsTyped`: `[]TypeOK`, whatever `Env` is: `cmd_buf` never reaches
  its size between steps. `Started` adds the bound on `init`'s trials.
- `CommandProofs!CallsAreAnswered`, `LineIsClean`, `RaisesWithReason`: `[]CallAnswered`,
  `[]LineClean`, `[]RaisesForAReason`, if `Env` is empty, what killed clients leave is
  the beginning of a command whose answer carries no data (`Mild`), and the length
  byte of each answer is the length of its data (`Fitting`: so of all but an SPI
  transfer of 255 bytes, whose last byte overwrites the length; `spi_transfer`
  cannot ask for one, because the command would be longer than 255 bytes
  itself). `LinkInv`: `cmd_buf` and what is on its way to it make up
  one call as it was written, a leftover completed by the zeros of `init`, one
  reset, or nothing (`NewInv`, `InitInv`, `CallInv`), and nothing while the client
  rests (`RestInv`). The badge answers when the last byte of a command is taken, and
  by then the client has asked for nothing else. `Mild` is needed: `cmd_init` is what
  happens otherwise.

### Model-checked only

Liveness is out of reach of these proofs: `Completes`, `StormEnds`, `CallEnds`,
`Resyncs`, `WriteEnds`, `KeepsDrawing`, and the liveness parts of `WholePictures` and
`ToHostPipe`. `MenuIsShown` and `TraceIsDue` say what is shown when something is, not
that it comes. Every safety property of the passing runs is also a theorem, under the
hypotheses above.

## What is not modelled

- The status screen of the logic analyzer in detail, the replies to ID and
  METADATA, `la_delay_cnt` (written, never read) and the tables of `la_get_clock` and
  `ioc_set_clock`.
- Read counts larger than memory: the host is told the size (SUMP metadata), and
  the code does not check.
- What the command handlers do to the hardware beyond the display's bus, and
  parameter checks of the client.
- Drawing: lines, text and bitmaps are one step that changes the display buffer;
  `SSD1306_drawBuffer` is never called. The bitmaps are data.
- The oscilloscope's sampling rate, and what its first frame after a start shows.
- LEDs: two blink counters and two pins. `led_set` of the second LED drives the pin of
  the first (led.c:102-104), which is seen by reading and needs no states.
- USB below `udi_cdc.c` (control requests, the controller's driver), 9 data bits, and
  frame numbers that come back (see TxState). The command protocol's model takes the
  line as BytePipe promises it.
- The boot-loader tool (its protocol is not in the repository).
- The vendored drivers: Atmel's framework and CMSIS, by far the largest part of the
  repository, most of it for other chips and not linked. What the firmware uses of
  them is modelled where it has state of its own (`udi_cdc.c`) and otherwise as the
  firmware relies on it.

## Plan

Done: IoCapture, LogicAnalyzer, Acquisition; Commands, CommandLink; Lcd, Menu,
Screen, Panel; UdiCdc, BytePipe; Scope; the theorems above.

Left, by importance:

1. `SampleClock`: `la_get_clock` and the tables of `ioc_set_clock` against "the closest
   available frequency" over bounded dividers.
2. `Led`: the blink counters with `TC0_Handler`, and which pin each LED drives.
