-------------------------------- MODULE Scope --------------------------------
(***************************************************************************)
(* scope.c: the ADC converts the channels in turn for as long as it is     *)
(* powered; its PDC stores conversions in us_value; ADC_Handler, when a    *)
(* transfer ends, sorts them into a buffer per channel and looks for the   *)
(* threshold; scope_draw draws.  adc_buffers_rdy hands the channel buffers *)
(* from the handler to scope_draw and back.  All these buffers are parts   *)
(* of the one large buffer (buffer.h) that the logic analyzer uses too.    *)
(*                                                                         *)
(* While the handler runs the counters of the PDC are zero, so that it is  *)
(* one step; it comes before any step of the main program.                 *)
(***************************************************************************)
EXTENDS Integers, Sequences, FiniteSetsExt

CONSTANTS
    LCD_WIDTH, LCD_PAGES, LCD_PAGE_SIZE,
    MAX_DIGITAL,   \* the highest conversion
    Period,        \* bound: the signal repeats after so many conversions
    Signals,       \* bound: the signals that may be put in
    ChannelSettings, \* values of menu_scope_channels, a subset of 0 .. 2
    MaxStarts      \* bound: starts of the oscilloscope; the last is not left

ASSUME ScopeAssumption ==
    /\ LCD_WIDTH \in Nat \ {0} /\ Period \in Nat \ {0}
    /\ LCD_PAGES \in Nat \ {0} /\ LCD_PAGE_SIZE \in Nat \ {0}
    /\ ChannelSettings \subseteq 0 .. 2 /\ MaxStarts \in Nat
    /\ MAX_DIGITAL \in Nat \ {0}
    /\ Signals \subseteq [0 .. Period - 1 -> 0 .. MAX_DIGITAL]

VARIABLES
    signal,           \* the input voltage over a period
    time,             \* conversions so far, modulo Period
    chans,            \* channels configured, in the order they are converted
    turn,             \* index of the one converted next
    irq_on,           \* ADC_IMR; the ADC converts from then on
    us_value,         \* where the PDC stores
    stored, rcr, rncr,\* conversions of this transfer, left in it, next transfer
    adc_channels,     \* `channel`, and draw_buffer as an offset into `buffer`
    area,             \* what the `buffer` of each of adc_channels holds
    adc_buffers_rdy,
    lcd_busy,         \* a refresh is under way
    pc, canvas,       \* main program; the traces drawn so far
    frame, first,     \* history: traces due; none drawn since the configuration
    starts,           \* history: how often the oscilloscope was started
    owner             \* history: who wrote a part of the large buffer last

adcVars  == <<signal, time, chans, turn, irq_on>>
pdcVars  == <<us_value, stored, rcr, rncr>>
chanVars == <<adc_channels, area, adc_buffers_rdy>>
mainVars == <<lcd_busy, pc, canvas>>
vars == <<adcVars, pdcVars, chanVars, mainVars, frame, first, starts, owner>>

W == LCD_WIDTH
Channels(val) == CASE val = 0 -> <<3>> [] val = 1 -> <<9>> [] val = 2 -> <<3, 9>>
Indices  == {0, 1}                     \* of adc_channels
Parts    == {"ch0", "ch1", "us_value"} \* of the large buffer

Zero    == [tag |-> 0, n |-> 0]      \* what .bss holds
LaWord  == [tag |-> -1, n |-> 0]     \* a sample of the logic analyzer
Unknown == [y |-> -1, n |-> 0]       \* a pixel of neither

(* adc_buffer_size: twice what is shown of each channel. *)
Size == 2 * W * Len(chans)

RXBUFF     == rcr = 0 /\ rncr = 0
IrqPending == irq_on /\ RXBUFF
MainMayRun == ~IrqPending

(* After boot adc_channels is zero: the `buffer` of the second entry stays *)
(* NULL until two channels are configured.  area[1] is then not memory of  *)
(* the program's but what a pass stores from address 0 on.                 *)
Init ==
    /\ signal \in Signals
    /\ time = 0 /\ turn = 1 /\ irq_on = FALSE
    /\ chans = <<3>>
    /\ us_value = [i \in 1 .. 4 * W |-> Zero]
    /\ stored = 0 /\ rcr = 0 /\ rncr = 0
    /\ adc_channels = [c \in Indices |-> [channel |-> 0, draw |-> 0]]
    /\ area = [c \in Indices |-> <<>>]
    /\ adc_buffers_rdy = FALSE
    /\ lcd_busy = FALSE /\ pc = "menu" /\ canvas = <<>>
    /\ frame = <<>> /\ first = TRUE
    /\ starts = 0
    /\ owner = [p \in Parts |-> "nobody"]

-----------------------------------------------------------------------------
(* adc_read_buffer: the first bank of the PDC if both are free, else the   *)
(* second if that is.                                                      *)
adc_read_buffer ==
    IF RXBUFF THEN rcr' = Size /\ stored' = 0 /\ UNCHANGED rncr
    ELSE /\ rncr' = IF rncr = 0 THEN Size ELSE rncr
         /\ UNCHANGED <<rcr, stored>>

(* The ADC and its PDC: a conversion, stored if there is a transfer; after *)
(* the last of a bank the next bank begins, in us_value again.             *)
Convert ==
    /\ irq_on
    /\ time' = (time + 1) % Period
    /\ turn' = (turn % Len(chans)) + 1
    /\ \/ /\ rcr = 0
          /\ UNCHANGED <<pdcVars, owner>>
       \/ /\ rcr > 0
          /\ us_value' = [us_value EXCEPT ![stored + 1] = [tag |-> chans[turn], n |-> time]]
          /\ owner' = [owner EXCEPT !["us_value"] = "scope"]
          /\ stored' = IF rcr = 1 THEN 0 ELSE stored + 1
          /\ rcr' = IF rcr = 1 THEN rncr ELSE rcr - 1
          /\ rncr' = IF rcr = 1 THEN 0 ELSE rncr
    /\ UNCHANGED <<signal, chans, irq_on, chanVars, mainVars, frame, first, starts>>

-----------------------------------------------------------------------------
(* With two channels the first is drawn in the lower half of the display.  *)
PagesPerChannel == LCD_PAGES \div Len(chans)
OffsetPixels(c) == IF Len(chans) = 2 /\ c = 0 THEN PagesPerChannel * LCD_PAGE_SIZE ELSE 0

(* `threshold`: 32 of the 64 rows, whatever the channel's rows are.        *)
Threshold == (LCD_PAGES * LCD_PAGE_SIZE) \div 2

(* The row a conversion is drawn in, and its number. *)
Pixel(sample, c) ==
    [y |-> (signal[sample.n] * (PagesPerChannel * LCD_PAGE_SIZE - 1)) \div MAX_DIGITAL
               + OffsetPixels(c),
     n |-> sample.n]

(* One turn of the handler's loop, for the channel of the conversion; its  *)
(* adcX_counter is the length of s.px.                                     *)
Collected(s, pixel) ==
    LET here == ~s.thr_found /\ pixel.y >= Threshold
    IN  [px |-> Append(s.px, pixel), thr_found |-> s.thr_found \/ here,
         thr_index |-> IF here THEN Len(s.px) ELSE s.thr_index]

(* One conversion too many. *)
Collect_OneMore(s, pixel) ==
    IF Len(s.px) - s.thr_index > W THEN s ELSE Collected(s, pixel)

(* The width of the display, wherever the threshold is. *)
Collect_FromStart(s, pixel) ==
    IF Len(s.px) >= W THEN s ELSE Collected(s, pixel)

Collect(s, pixel) ==
    IF Len(s.px) - s.thr_index >= W THEN s ELSE Collected(s, pixel)

(* The conversions the loop gives to channel c: a tag of neither entry of  *)
(* adc_channels ends the loop, and the first entry is looked at first.     *)
Tag(c) == adc_channels[c].channel
Mine(c, sample) == sample.tag = Tag(c) /\ (c = 1 => sample.tag # Tag(0))

Looked ==
    LET strange == {i \in 1 .. Size : us_value[i].tag \notin {Tag(0), Tag(1)}}
    IN  IF strange = {} THEN Size ELSE Min(strange) - 1

Of(c) ==
    LET of[i \in 0 .. Looked] ==
            IF i = 0 THEN <<>>
            ELSE IF Mine(c, us_value[i]) THEN Append(of[i - 1], us_value[i]) ELSE of[i - 1]
    IN  of[Looked]

Pixels(c) ==
    LET of == Of(c) IN [i \in 1 .. Len(of) |-> Pixel(of[i], c)]

(* The state of the loop after all of them. *)
Demultiplexed(pixels) ==
    LET after[i \in 0 .. Len(pixels)] ==
            IF i = 0 THEN [px |-> <<>>, thr_found |-> FALSE, thr_index |-> 0]
            ELSE Collect(after[i - 1], pixels[i])
    IN  after[Len(pixels)]

(* What this is for: a trace begins with the first conversion at or above  *)
(* the threshold if it is one of the first W, or else with the first one.  *)
Due(pixels) ==
    LET high == {i \in 1 .. W : i <= Len(pixels) /\ pixels[i].y >= Threshold}
        from == IF high = {} THEN 1 ELSE Min(high)
    IN  SubSeq(pixels, from, Min({from + W - 1, Len(pixels)}))

(* ADC_Handler: the whole pass, and the next transfer.  A pass that finds  *)
(* the last frame not drawn yet is thrown away.  area is what the pass put *)
(* into the buffers; what is behind that is Unknown.                       *)
Wrote(part, done) == IF done.px = <<>> THEN owner[part] ELSE "scope"

HandlerPass ==
    \E read \in {<<Pixels(0), Pixels(1)>>} :
    \E done \in {<<Demultiplexed(read[1]), Demultiplexed(read[2])>>} :
        /\ adc_channels' = [c \in Indices |->
               [adc_channels[c] EXCEPT !.draw = done[c + 1].thr_index]]
        /\ area' = [c \in Indices |-> done[c + 1].px]
        /\ owner' = [owner EXCEPT !["ch0"] = Wrote("ch0", done[1]),
                                  !["ch1"] = Wrote("ch1", done[2])]
        /\ frame' = [c \in 1 .. Len(chans) |-> Due(read[c])]
        /\ adc_buffers_rdy' = TRUE

(* Starts no transfer when it throws a pass away. *)
ADC_Handler_NoRearm ==
    /\ IrqPending
    /\ \/ adc_buffers_rdy /\ UNCHANGED <<chanVars, frame, owner, rcr, rncr, stored>>
       \/ ~adc_buffers_rdy /\ HandlerPass /\ adc_read_buffer
    /\ UNCHANGED <<adcVars, us_value, mainVars, first, starts>>

ADC_Handler ==
    /\ IrqPending
    /\ \/ adc_buffers_rdy /\ UNCHANGED <<chanVars, frame, owner>>
       \/ ~adc_buffers_rdy /\ HandlerPass
    /\ adc_read_buffer
    /\ UNCHANGED <<adcVars, us_value, mainVars, first, starts>>

-----------------------------------------------------------------------------
(* app_scope_func.  scope_configure up to adc_enable_interrupt, with no    *)
(* interrupt of the ADC in it: the PDC is reset, adc_buffers_rdy is not.   *)
(* The interrupt comes at once, for there is no transfer, and finds in     *)
(* us_value what was there.  That is not followed, as its pass makes the   *)
(* first frame, of which nothing is said: us_value is zero, as at boot.    *)
Configure ==
    /\ pc = "menu" /\ starts < MaxStarts /\ starts' = starts + 1
    /\ \E val \in ChannelSettings : LET setting == Channels(val) IN
        /\ chans' = setting
        /\ adc_channels' = [c \in Indices |->
              IF c < Len(setting) THEN [channel |-> setting[c + 1], draw |-> 0]
              ELSE adc_channels[c]]
    /\ turn' = 1 /\ irq_on' = TRUE
    /\ stored' = 0 /\ rcr' = 0 /\ rncr' = 0
    /\ us_value' = [i \in DOMAIN us_value |-> Zero]
    /\ owner' = [p \in Parts |-> "nobody"]
    /\ first' = TRUE /\ frame' = <<>>
    /\ pc' = "read_buffer"
    /\ UNCHANGED <<signal, time, area, adc_buffers_rdy, lcd_busy, canvas>>

ReadBuffer ==
    /\ pc = "read_buffer"
    /\ adc_read_buffer
    /\ pc' = "loop"
    /\ UNCHANGED <<adcVars, us_value, chanVars, lcd_busy, canvas, frame, first, starts, owner>>

(* scope_draw.  Gives the channel buffers back before it draws. *)
DrawBegin_Releases ==
    /\ pc = "loop" /\ adc_buffers_rdy /\ ~lcd_busy
    /\ canvas' = [c \in 1 .. Len(chans) |-> <<>>]
    /\ adc_buffers_rdy' = FALSE
    /\ pc' = "draw"
    /\ UNCHANGED <<adcVars, pdcVars, adc_channels, area, lcd_busy, frame, first, starts, owner>>

DrawBegin ==
    /\ pc = "loop" /\ adc_buffers_rdy /\ ~lcd_busy
    /\ canvas' = [c \in 1 .. Len(chans) |-> <<>>]
    /\ pc' = "draw"
    /\ UNCHANGED <<adcVars, pdcVars, chanVars, lcd_busy, frame, first, starts, owner>>

Undrawn == {c \in DOMAIN canvas : Len(canvas[c]) < W}

DrawPixel ==
    /\ pc = "draw" /\ Undrawn # {}
    /\ LET c == Min(Undrawn)
           i == adc_channels[c - 1].draw + Len(canvas[c]) + 1
       IN  canvas' = [canvas EXCEPT ![c] =
               Append(@, IF i <= Len(area[c - 1]) THEN area[c - 1][i] ELSE Unknown)]
    /\ UNCHANGED <<adcVars, pdcVars, chanVars, lcd_busy, pc, frame, first, starts, owner>>

DrawRefresh ==
    /\ pc = "draw" /\ Undrawn = {}
    /\ lcd_busy' = TRUE
    /\ pc' = "drawn"
    /\ UNCHANGED <<adcVars, pdcVars, chanVars, canvas, frame, first, starts, owner>>

DrawEnd ==
    /\ pc = "drawn"
    /\ adc_buffers_rdy' = FALSE
    /\ canvas' = <<>> /\ first' = FALSE
    /\ pc' = "loop"
    /\ UNCHANGED <<adcVars, pdcVars, adc_channels, area, lcd_busy, frame, starts, owner>>

(* The LEFT button: nothing stops the ADC, its PDC or its interrupt. *)
Leave ==
    /\ pc = "loop" /\ starts < MaxStarts
    /\ pc' = "menu"
    /\ UNCHANGED <<adcVars, pdcVars, chanVars, lcd_busy, canvas, frame, first, starts, owner>>

LcdDone ==
    /\ lcd_busy
    /\ lcd_busy' = FALSE
    /\ UNCHANGED <<adcVars, pdcVars, chanVars, pc, canvas, frame, first, starts, owner>>

(* The logic analyzer: at the end of an acquisition the samples in the     *)
(* large buffer are its own; then it shows them.                           *)
LaAcquire ==
    /\ pc = "menu"
    /\ pc' = "la"
    /\ us_value' = [i \in DOMAIN us_value |-> LaWord]
    /\ area' = [c \in Indices |-> <<>>]
    /\ owner' = [p \in Parts |-> "la"]
    /\ UNCHANGED <<adcVars, stored, rcr, rncr, adc_channels, adc_buffers_rdy,
                   lcd_busy, canvas, frame, first, starts>>

LaShow ==
    /\ pc = "la"
    /\ pc' = "menu"
    /\ UNCHANGED <<adcVars, pdcVars, chanVars, lcd_busy, canvas, frame, first, starts, owner>>

Drawing == DrawBegin \/ DrawPixel \/ DrawRefresh \/ DrawEnd
MainOwn == ReadBuffer \/ Drawing
User    == Configure \/ Leave \/ LaAcquire \/ LaShow

Next ==
    \/ Convert \/ ADC_Handler \/ LcdDone
    \/ MainMayRun /\ (MainOwn \/ User)

Spec == Init /\ [][Next]_vars

(* The ADC converts, interrupts are served, refreshes end (FairSpec of     *)
(* Panel), and the main program runs when no interrupt is pending: each    *)
(* pass of the handler starts a whole transfer, and until that has ended   *)
(* there is time for the main program.                                     *)
FairSpec ==
    /\ Spec
    /\ WF_vars(Convert) /\ WF_vars(ADC_Handler) /\ WF_vars(LcdDone)
    /\ SF_vars(MainMayRun /\ MainOwn)

-----------------------------------------------------------------------------
(* Properties. *)

(* Every variable within its type: the PDC stays in us_value, a pass       *)
(* stores no more for a channel than a channel buffer holds, and what is   *)
(* drawn, from draw_buffer on, is inside it.  Lengths only: that the       *)
(* second entry has no buffer after power-on (see Init) is not seen here.  *)
TypeOK ==
    /\ time \in 0 .. Period - 1 /\ chans \in {<<3>>, <<9>>, <<3, 9>>} /\ turn \in 1 .. Len(chans)
    /\ \A i \in 1 .. 4 * W : us_value[i].tag \in {-1, 0, 3, 9}
    /\ rcr \in 0 .. Size /\ rncr \in {0, Size} /\ stored + rcr \in {0, Size}
    /\ \A c \in Indices :
        /\ adc_channels[c].channel \in {0, 3, 9}
        /\ adc_channels[c].draw \in 0 .. W - 1
        /\ Len(area[c]) <= 2 * W
    /\ irq_on \in BOOLEAN /\ adc_buffers_rdy \in BOOLEAN /\ lcd_busy \in BOOLEAN
    /\ pc \in {"menu", "read_buffer", "loop", "draw", "drawn", "la"}

(* What is drawn are whole traces: W conversions of a channel one after    *)
(* the other, of one transfer, beginning where Due says.  The first frame  *)
(* after a start is not: the handler makes it of what it found in          *)
(* us_value, or it is what was left when the oscilloscope was left.        *)
InOrder(trace) ==
    \A i \in 1 .. Len(trace) - 1 : trace[i + 1].n = (trace[i].n + Len(chans)) % Period
TraceDue ==
    pc = "drawn" /\ ~first =>
        /\ canvas = frame
        /\ \A c \in DOMAIN canvas : Len(canvas[c]) = W /\ InOrder(canvas[c])

(* The handler leaves the channel buffers alone while scope_draw draws.    *)
FrameHeld == [][pc = "draw" => UNCHANGED <<adc_channels, area>>]_vars

(* The oscilloscope goes on drawing until it is left. *)
KeepsDrawing == pc = "loop" ~> pc \in {"drawn", "menu"}

(* buffer.h: "Large buffer that might be shared between different          *)
(* applications (not at the same time obviously!)": what the logic         *)
(* analyzer shows are its own samples.                                     *)
SamplesAreItsOwn == pc = "la" => \A p \in Parts : owner[p] = "la"
=============================================================================
