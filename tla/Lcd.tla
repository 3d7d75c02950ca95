--------------------------------- MODULE Lcd ---------------------------------
(***************************************************************************)
(* lcd.c, with io_conf.c and the clock of i2c.c: the display driver and    *)
(* the I2C bus (TWI0) it shares with the host's I2C commands.              *)
(*                                                                         *)
(* SSD1306_drawBufferDMA starts the transfer of the display buffer: for    *)
(* each page a few commands are sent byte by byte, and the contents by the *)
(* PDC, whose end interrupt (TWI0_Handler) starts the next page.  The main *)
(* program goes on meanwhile, and SSD1306_isBusy tells it when not to draw.*)
(*                                                                         *)
(* A page is one row of the display; the PDC reads it in LCD_WIDTH pieces, *)
(* so that a page drawn in the middle of its own transfer is seen.  A      *)
(* piece of a page is the row it was read from.  ENDTX, as on this chip,   *)
(* means that the last piece has left memory, not that it has left the     *)
(* TWI, which holds up to two (`wire`).                                    *)
(***************************************************************************)
EXTENDS Integers, Sequences

CONSTANTS
    LCD_PAGES,   \* rows of the display
    LCD_WIDTH    \* pieces of a row

ASSUME LcdAssumption ==
    /\ LCD_PAGES \in Nat \ {0}
    /\ LCD_WIDTH \in Nat \ {0}

VARIABLES
    displayBuffer,   \* `displayBuffer`: page -> row
    busy,            \* `busy`
    dma_transfers,   \* `dma_transfers`
    txten, tpr, tcr, \* PDC of TWI0: enabled, the page it reads, pieces left
    endtx,           \* TWI0: ENDTX interrupt enabled
    wire,            \* TWI0: pieces in its holding and its shift register
    cursor,          \* the panel: where the next piece goes
    screen,          \* the panel: page -> piece -> row
    isr,             \* TWI0_Handler: not running, or waiting for the TWI
    current_conf,    \* `current_conf`
    user_i2c_clk,    \* `user_i2c_clk`, kHz
    twi_speed        \* `twi_opt.speed`, kHz

pdcVars  == <<txten, tpr, tcr>>
twiVars  == <<endtx, wire>>
confVars == <<current_conf, user_i2c_clk, twi_speed>>
lcdVars  == <<displayBuffer, busy, dma_transfers, pdcVars, twiVars, cursor, screen, isr>>

Pages   == 0 .. LCD_PAGES - 1
Columns == 0 .. LCD_WIDTH - 1

(* What a row of the display shows: an entry of something, or Blank. *)
Text(of, i) == [of |-> of, entry |-> i, selected |-> FALSE, marked |-> FALSE]
Blank == Text("blank", 0)

IoConfigs == {"IO_UNINITIALIZED", "IO_SPI", "IO_I2C_CMD", "IO_I2C_LCD", "IO_UART", "IO_ADC"}

LCD_I2C_CLOCK == 400
MaxI2cClock   == 400

LcdInit ==
    /\ displayBuffer = [p \in Pages |-> Blank]
    /\ busy = FALSE
    /\ dma_transfers = 0
    /\ txten = FALSE /\ tpr = 0 /\ tcr = 0
    /\ endtx = FALSE
    /\ wire = <<>>
    /\ cursor = [page |-> 0, col |-> 0]
    /\ screen = [p \in Pages |-> [c \in Columns |-> Blank]]
    /\ isr = "none"
    /\ current_conf = "IO_I2C_LCD"
    /\ user_i2c_clk = 100
    /\ twi_speed = LCD_I2C_CLOCK

-----------------------------------------------------------------------------
(* The hardware. *)

TwiReady == Len(wire) < 2     \* TXRDY
TwiDone  == wire = <<>>       \* TXCOMP, once STOP has been asked for

PdcFetch ==
    /\ txten /\ tcr > 0 /\ TwiReady
    /\ wire' = Append(wire, displayBuffer[tpr])
    /\ tcr' = tcr - 1
    /\ UNCHANGED <<displayBuffer, busy, dma_transfers, txten, tpr, endtx, cursor, screen, isr, confVars>>

(* The panel addresses one page at a time and moves to its next column. *)
TwiShift ==
    /\ wire # <<>>
    /\ screen' = [screen EXCEPT ![cursor.page][cursor.col] = Head(wire)]
    /\ cursor' = [cursor EXCEPT !.col = (@ + 1) % LCD_WIDTH]
    /\ wire' = Tail(wire)
    /\ UNCHANGED <<displayBuffer, busy, dma_transfers, pdcVars, endtx, isr, confVars>>

IrqPending == endtx /\ tcr = 0
MainMayRun == isr = "none" /\ ~IrqPending

(* Nothing of a transfer is left in the PDC or in the TWI. *)
Quiet == ~txten /\ ~endtx /\ wire = <<>>

-----------------------------------------------------------------------------
(* io_configure: the TWI has one clock register, and is reset to set it.   *)
(* The other configurations are about other pins.                          *)

IsI2c(conf) == conf \in {"IO_I2C_CMD", "IO_I2C_LCD"}

ResetsTwi(conf) == current_conf # conf /\ IsI2c(conf)

(* Saves whatever clock is set, the display's included. *)
io_configure_SavesAny(conf) ==
    /\ current_conf' = conf
    /\ user_i2c_clk' = IF conf # current_conf THEN twi_speed ELSE user_i2c_clk
    /\ twi_speed' = IF ~ResetsTwi(conf) THEN twi_speed
                    ELSE IF conf = "IO_I2C_LCD" THEN LCD_I2C_CLOCK ELSE user_i2c_clk

io_configure(conf) ==
    /\ current_conf' = conf
    /\ user_i2c_clk' = IF current_conf = "IO_I2C_CMD" /\ conf # "IO_I2C_CMD"
                       THEN twi_speed ELSE user_i2c_clk
    /\ twi_speed' = IF ~ResetsTwi(conf) THEN twi_speed
                    ELSE IF conf = "IO_I2C_LCD" THEN LCD_I2C_CLOCK ELSE user_i2c_clk

TwiReset(conf) ==
    /\ endtx' = (endtx /\ ~ResetsTwi(conf))
    /\ wire' = IF ResetsTwi(conf) THEN <<>> ELSE wire

(* SSD1306_drawPageDMA: the commands that set the page, then the PDC.      *)
(* left: what the TWI still holds when the commands are sent.              *)
SSD1306_drawPageDMA(page, left) ==
    /\ busy' = TRUE
    /\ cursor' = [page |-> page, col |-> 0]
    /\ txten' = TRUE /\ tpr' = page /\ tcr' = LCD_WIDTH
    /\ endtx' = TRUE
    /\ wire' = left

DrawBuffer_Begin_OneMore ==
    /\ busy' = TRUE
    /\ dma_transfers' = LCD_PAGES + 1
    /\ UNCHANGED <<displayBuffer, pdcVars, twiVars, cursor, screen, isr, confVars>>

(* SSD1306_drawBufferDMA, up to and from where it touches the bus. *)
DrawBuffer_Begin ==
    /\ busy' = TRUE
    /\ dma_transfers' = LCD_PAGES
    /\ UNCHANGED <<displayBuffer, pdcVars, twiVars, cursor, screen, isr, confVars>>

DrawBuffer_FirstPage ==
    /\ io_configure("IO_I2C_LCD")
    /\ SSD1306_drawPageDMA(0, IF ResetsTwi("IO_I2C_LCD") THEN <<>> ELSE wire)
    /\ UNCHANGED <<displayBuffer, dma_transfers, screen, isr>>

(* SSD1306_drawPage: one page, from another buffer, without the PDC. *)
SSD1306_drawPage(page, row) ==
    /\ io_configure("IO_I2C_LCD")
    /\ screen' = [screen EXCEPT ![page] = [c \in Columns |-> row]]
    /\ cursor' = [page |-> page, col |-> 0]
    /\ TwiReset("IO_I2C_LCD")
    /\ UNCHANGED <<displayBuffer, busy, dma_transfers, pdcVars, isr>>

Draw(picture) ==
    /\ displayBuffer' = picture
    /\ UNCHANGED <<busy, dma_transfers, pdcVars, twiVars, cursor, screen, isr, confVars>>

-----------------------------------------------------------------------------
(* TWI0_Handler: stop the PDC, wait until the TWI has sent all it holds,   *)
(* then the next page.  Nothing else runs while it waits but the hardware. *)

TWI0_Enter ==
    /\ isr = "none" /\ IrqPending
    /\ isr' = "wait"
    /\ endtx' = FALSE
    /\ dma_transfers' = dma_transfers - 1
    /\ txten' = FALSE
    /\ UNCHANGED <<displayBuffer, busy, tpr, tcr, wire, cursor, screen, confVars>>

TWI0_NextPage ==
    /\ isr = "wait" /\ TwiDone
    /\ dma_transfers > 0
    /\ isr' = "none"
    /\ SSD1306_drawPageDMA(LCD_PAGES - dma_transfers, wire)
    /\ UNCHANGED <<displayBuffer, dma_transfers, screen, confVars>>

(* Does not wait for TXCOMP. *)
TWI0_Done_AtOnce ==
    /\ isr = "wait"
    /\ dma_transfers <= 0
    /\ isr' = "none"
    /\ busy' = FALSE
    /\ dma_transfers' = 0
    /\ UNCHANGED <<displayBuffer, pdcVars, twiVars, cursor, screen, confVars>>

TWI0_Done ==
    /\ isr = "wait" /\ TwiDone
    /\ dma_transfers <= 0
    /\ isr' = "none"
    /\ busy' = FALSE
    /\ dma_transfers' = 0
    /\ UNCHANGED <<displayBuffer, pdcVars, twiVars, cursor, screen, confVars>>

Hardware == PdcFetch \/ TwiShift
TWI0_Handler == TWI0_Enter \/ TWI0_NextPage \/ TWI0_Done
=============================================================================
