---------------------------- MODULE DisplayProofs ----------------------------
(***************************************************************************)
(* Theorems about Panel, for every size of the display, tree of menus and  *)
(* set of clocks: what its variables hold, what the panel shows, and that  *)
(* the driver implements Screen.  They rest on the bus having one user and *)
(* on the menu being sound.                                                *)
(***************************************************************************)
EXTENDS PanelProofs

(* The host does not draw while the refresh it asked for goes on *)
Patient == "eager" \notin Env

-----------------------------------------------------------------------------
(* What the variables hold *)

(* The count of pages left is not decremented below 0, because the end     *)
(* interrupt is enabled only while there are some                          *)
TypeInv ==
    /\ TypeOK
    /\ endtx => dma_transfers > 0
    /\ pc = "frame" => dma_transfers = LCD_PAGES
    /\ pc = "enter" => ret \in Apps

TypedInv == BusInv /\ MenuInv /\ TypeInv

LEMMA Numbers ==
    /\ LCD_PAGES \in Nat /\ LCD_PAGES > 0 /\ 0 \in Pages
    /\ LCD_WIDTH \in Nat /\ LCD_WIDTH > 0 /\ 0 \in Columns
BY LcdAssumption DEF Pages, Columns

LEMMA BlankIsRow == Blank \in Row
BY DEF Blank, Text, Row, Pictures

LEMMA TypeInit == Init => TypeInv
<1> SUFFICES ASSUME Init PROVE TypeInv  OBVIOUS
<1>1. LcdTypeOK
  BY Numbers, BlankIsRow DEF Init, LcdInit, LcdTypeOK, IoConfigs, LCD_I2C_CLOCK
<1> QED BY <1>1 DEF Init, LcdInit, TypeInv, TypeOK, Points, Loops

(* What menu_draw puts on a row is a row *)
LEMMA MenuRowIsRow == ASSUME MenuInv, NEW p \in Pages PROVE MenuRow(p) \in Row
<1>1. p \in Nat /\ offset \in Nat  BY InvNumbers DEF Pages
<1>2. menu_current \in MenuNames  BY DEF MenuInv
<1>3. CASE p + offset < Size(menu_current)
  <2> DEFINE selected == p + offset = selection
             marked == Entry(menu_current, p + offset).type = "SETTING"
                       /\ p + offset = val[menu_current]
  <2>1. MenuRow(p) = [of |-> menu_current, entry |-> p + offset,
                      selected |-> selected, marked |-> marked]
    BY <1>3 DEF MenuRow
  <2>2. selected \in BOOLEAN /\ marked \in BOOLEAN  OBVIOUS
  <2> HIDE DEF selected, marked
  <2> QED BY <1>1, <1>2, <2>1, <2>2 DEF Row
<1>4. CASE ~(p + offset < Size(menu_current))
  BY <1>4 DEF MenuRow, Row, Pictures
<1> QED BY <1>3, <1>4

LEMMA PicturesAreRows ==
    ASSUME MenuInv
    PROVE  /\ MenuPicture \in [Pages -> Row]
           /\ \A of \in Pictures : Picture(of) \in [Pages -> Row]
BY MenuRowIsRow DEF MenuPicture, Picture, Text, Row

(* The hardware: the PDC stays within its page, the TWI within its two     *)
(* registers, and the panel within its columns                             *)
LEMMA WiresKeepType == ASSUME TypedInv, Wires PROVE TypeInv'
<1> USE DEF TypedInv, TypeInv, TypeOK
<1>1. UNCHANGED <<pc, ret, asked, endtx, dma_transfers, displayBuffer, busy, txten, tpr, isr, confVars>>
  BY DEF Wires, Hardware, PdcFetch, TwiShift, panelVars, pdcVars, confVars
<1>2. CASE PdcFetch
  <2>1. displayBuffer[tpr] \in Row  BY DEF LcdTypeOK
  <2>2. wire' \in Seq(Row) /\ Len(wire') <= 2
    BY <1>2, <2>1 DEF LcdTypeOK, PdcFetch, TwiReady
  <2>3. tcr' \in 0 .. LCD_WIDTH /\ UNCHANGED <<cursor, screen>>
    BY <1>2, Numbers DEF LcdTypeOK, PdcFetch
  <2>4. LcdTypeOK'  BY <1>1, <2>2, <2>3 DEF LcdTypeOK, confVars, Pages, Columns
  <2> QED BY <1>1, <2>4 DEF confVars
<1>3. CASE TwiShift
  <2>1. wire \in Seq(Row) /\ wire # <<>>  BY <1>3 DEF LcdTypeOK, TwiShift
  <2>2. Head(wire) \in Row /\ wire' \in Seq(Row) /\ Len(wire') <= 2
    BY <1>3, <2>1 DEF LcdTypeOK, TwiShift
  <2>3. cursor.page \in Pages /\ cursor.col \in Columns  BY DEF LcdTypeOK
  <2>4. (cursor.col + 1) % LCD_WIDTH \in Columns  BY <2>3, Numbers DEF Columns
  <2>5. cursor' \in [page : Pages, col : Columns]
    BY <1>3, <2>3, <2>4 DEF LcdTypeOK, TwiShift
  <2>6. screen' \in [Pages -> [Columns -> Row]]
    BY <1>3, <2>2, <2>3 DEF LcdTypeOK, TwiShift
  <2>7. tcr' = tcr  BY <1>3 DEF TwiShift, pdcVars
  <2>8. LcdTypeOK'  BY <1>1, <2>2, <2>5, <2>6, <2>7 DEF LcdTypeOK, confVars, Pages, Columns
  <2> QED BY <1>1, <2>8 DEF confVars
<1> QED BY <1>2, <1>3 DEF Wires, Hardware

(* The interrupt: pages left and the page it starts stay in the display    *)
LEMMA HandlerKeepsType == ASSUME TypedInv, Handler PROVE TypeInv'
<1> USE Numbers DEF TypedInv, TypeInv, TypeOK
<1>1. UNCHANGED <<pc, ret, asked, displayBuffer, screen, confVars>>
  BY DEF Handler, TWI0_Handler, TWI0_Enter, TWI0_NextPage, TWI0_Done, panelVars
<1>2. CASE TWI0_Enter
  <2>1. dma_transfers' \in 0 .. LCD_PAGES
    BY <1>2 DEF TWI0_Enter, IrqPending, LcdTypeOK
  <2>2. isr' = "wait" /\ endtx' = FALSE /\ txten' = FALSE /\ UNCHANGED <<busy, tpr, tcr, wire, cursor>>
    BY <1>2 DEF TWI0_Enter
  <2>3. pc # "frame"  BY <1>2 DEF TWI0_Enter, IrqPending, BusInv, Quiet
  <2> QED BY <1>1, <2>1, <2>2, <2>3 DEF LcdTypeOK, confVars
<1>3. CASE TWI0_NextPage
  <2> DEFINE page == LCD_PAGES - dma_transfers
  <2>1. page \in Pages  BY <1>3 DEF TWI0_NextPage, LcdTypeOK, Pages
  <2>2. /\ dma_transfers' = dma_transfers /\ dma_transfers > 0 /\ isr' = "none"
        /\ SSD1306_drawPageDMA(page, wire)
    BY <1>3 DEF TWI0_NextPage
  <2>3. /\ busy' = TRUE /\ txten' = TRUE /\ tpr' = page /\ tcr' = LCD_WIDTH /\ endtx' = TRUE
        /\ wire' = wire /\ cursor' = [page |-> page, col |-> 0]
    BY <2>2 DEF SSD1306_drawPageDMA
  <2> HIDE DEF page
  <2>4. cursor' \in [page : Pages, col : Columns]  BY <2>1, <2>3
  <2>5. LcdTypeOK'  BY <1>1, <2>1, <2>2, <2>3, <2>4 DEF LcdTypeOK, confVars
  <2>6. pc # "frame"  BY <1>3 DEF TWI0_NextPage, BusInv
  <2> QED BY <1>1, <2>2, <2>5, <2>6
<1>4. CASE TWI0_Done
  <2>1. dma_transfers' = 0 /\ busy' = FALSE /\ isr' = "none" /\ UNCHANGED <<txten, tpr, tcr, endtx, wire, cursor>>
    BY <1>4 DEF TWI0_Done, pdcVars, twiVars
  <2>2. ~endtx /\ pc # "frame"  BY <1>4 DEF TWI0_Done, BusInv
  <2>3. dma_transfers' \in 0 .. LCD_PAGES  BY <2>1
  <2>4. busy' \in BOOLEAN  BY <2>1, Zenon
  <2>5. LcdTypeOK'  BY <1>1, <2>1, <2>3, <2>4 DEF LcdTypeOK, confVars
  <2> QED BY <1>1, <2>1, <2>2, <2>5
<1> QED BY <1>2, <1>3, <1>4 DEF Handler, TWI0_Handler

(* Any configuration of the pins *)
LEMMA ConfigureType ==
    ASSUME LcdTypeOK, NEW conf \in IoConfigs, io_configure(conf)
    PROVE  current_conf' \in IoConfigs /\ user_i2c_clk' \in Nat /\ twi_speed' \in Nat
BY DEF LcdTypeOK, io_configure, LCD_I2C_CLOCK

(* A drawing, and a step of the main program that is only about its place  *)
LEMMA DrawType ==
    ASSUME TypedInv, NEW picture \in [Pages -> Row], Draw(picture)
    PROVE  LcdTypeOK' /\ UNCHANGED <<endtx, dma_transfers>>
BY DEF TypedInv, TypeInv, TypeOK, LcdTypeOK, Draw, pdcVars, twiVars, confVars

LEMMA DrawThenType ==
    ASSUME TypedInv, NEW picture \in [Pages -> Row], NEW next \in Loops, DrawThen(picture, next)
    PROVE  TypeInv'
<1>1. Draw(picture) /\ pc' = "begin" /\ ret' = next /\ asked' = asked  BY DEF DrawThen
<1>2. LcdTypeOK' /\ UNCHANGED <<endtx, dma_transfers>>  BY <1>1, DrawType
<1> QED BY <1>1, <1>2 DEF TypedInv, TypeInv, TypeOK, Points

LEMMA LcdSameType ==
    ASSUME TypedInv, UNCHANGED <<lcdVars, confVars>>,
           pc' \in Points \ {"frame"}, ret' \in Loops \cup {"splash"}, asked' \in Nat,
           pc' = "enter" => ret' \in Apps
    PROVE  TypeInv'
BY DEF TypedInv, TypeInv, TypeOK, LcdTypeOK, lcdVars, confVars, pdcVars, twiVars

(* Every step of the main program *)
LEMMA MainKeepsType == ASSUME TypedInv, Slow, Main PROVE TypeInv'
<1> USE Numbers
<1>0. TypeOK /\ LcdTypeOK /\ pc \in Points /\ ret \in Loops \cup {"splash"} /\ asked \in Nat
  BY DEF TypedInv, TypeInv, TypeOK
<1>1. CASE Begin
  <2>1. dma_transfers' = LCD_PAGES /\ busy' = TRUE /\ pc' = "frame" /\ UNCHANGED <<ret, asked>>
    BY <1>1 DEF Begin, DrawBuffer_Begin
  <2>2. LcdTypeOK'
    BY <1>0, <1>1, <2>1 DEF Begin, DrawBuffer_Begin, LcdTypeOK, pdcVars, twiVars, confVars
  <2> QED BY <1>0, <2>1, <2>2 DEF TypeInv, TypeOK, Points, BusSteps
<1>2. CASE FirstPage
  <2> DEFINE left == IF ResetsTwi("IO_I2C_LCD") THEN <<>> ELSE wire
  <2>1. /\ io_configure("IO_I2C_LCD") /\ SSD1306_drawPageDMA(0, left)
        /\ pc' = ret /\ UNCHANGED <<displayBuffer, dma_transfers, screen, isr, ret, asked>>
        /\ pc = "frame"
    BY <1>2 DEF FirstPage, DrawBuffer_FirstPage
  <2>2. wire = <<>> /\ dma_transfers = LCD_PAGES /\ ret \in Loops
    BY <2>1 DEF TypedInv, BusInv, TypeInv, Quiet
  <2>3. left = <<>>  BY <2>2
  <2> HIDE DEF left
  <2>4. /\ busy' = TRUE /\ txten' = TRUE /\ tpr' = 0 /\ tcr' = LCD_WIDTH /\ endtx' = TRUE
        /\ wire' = wire /\ cursor' = [page |-> 0, col |-> 0]
    BY <2>1, <2>2, <2>3 DEF SSD1306_drawPageDMA
  <2>5. cursor' \in [page : Pages, col : Columns]  BY <2>4
  <2>6. /\ current_conf' \in IoConfigs /\ user_i2c_clk' \in Nat /\ twi_speed' \in Nat
    BY <1>0, <2>1, ConfigureType DEF IoConfigs
  <2>7. LcdTypeOK'  BY <1>0, <2>1, <2>4, <2>5, <2>6 DEF LcdTypeOK
  <2>8. pc' \in Loops /\ pc' \notin {"frame", "enter"}
    BY <2>1, <2>2, LoopsAreBusy DEF FreePlaces
  <2> QED BY <1>0, <2>1, <2>2, <2>7, <2>8 DEF TypeInv, TypeOK, Points
<1>3. CASE Splash
  <2>1. "menu_draw" \in Loops /\ "kicon_logo" \in Pictures  BY DEF Loops, Pictures
  <2> QED BY <1>3, <2>1, PicturesAreRows, DrawThenType DEF Splash, TypedInv
<1>4. CASE MenuDraw
  <2>1. "menu_wait" \in Loops  BY DEF Loops
  <2> QED BY <1>4, <2>1, PicturesAreRows, DrawThenType DEF MenuDraw, TypedInv
<1>5. CASE MenuTest
  <2>1. "test_wait" \in Loops /\ "gfx_test" \in Pictures  BY DEF Loops, Pictures
  <2> QED BY <1>5, <2>1, PicturesAreRows, DrawThenType DEF MenuTest, TypedInv
<1>6. CASE AppEnter
  <2> DEFINE next == IF ret = "app_uart" THEN "uart_pins" ELSE ret
  <2>1. next \in Loops /\ ret \in Pictures  BY <1>6 DEF AppEnter, Loops, Apps, Pictures
  <2> QED BY <1>6, <2>1, PicturesAreRows, DrawThenType DEF AppEnter, TypedInv
<1>7. CASE AppRedraw
  <2>1. pc \in Loops /\ pc \in Pictures  BY <1>7 DEF AppRedraw, Loops, Apps, Pictures
  <2> QED BY <1>7, <2>1, PicturesAreRows, DrawThenType DEF AppRedraw, TypedInv
<1>8. CASE LaLcdEnter
  <2>1. "app_la_lcd" \in Loops /\ "app_la_lcd" \in Pictures
    BY DEF Loops, Apps, Pictures
  <2>2. CASE DrawThen(Picture("app_la_lcd"), "app_la_lcd")
    BY <2>1, <2>2, PicturesAreRows, DrawThenType DEF TypedInv
  <2>3. CASE pc' = "app_la_lcd" /\ UNCHANGED <<lcdVars, confVars, menuVars, ret, asked>>
    BY <1>0, <2>1, <2>3, LcdSameType DEF Points
  <2> QED BY <1>8, <2>2, <2>3 DEF LaLcdEnter
<1>9. CASE LaLcdPage
  <2>1. PICK p \in Pages : SSD1306_drawPage(p, Text("channel", p))
    BY <1>9 DEF LaLcdPage
  <2>2. Text("channel", p) \in Row  BY DEF Text, Row, Pictures, Pages
  <2>3. screen' \in [Pages -> [Columns -> Row]] /\ cursor' \in [page : Pages, col : Columns]
    BY <1>0, <2>1, <2>2 DEF SSD1306_drawPage, LcdTypeOK
  <2>4. wire' \in Seq(Row) /\ Len(wire') <= 2 /\ endtx' \in BOOLEAN /\ (endtx' => endtx)
    BY <1>0, <2>1 DEF SSD1306_drawPage, TwiReset, LcdTypeOK
  <2>5. current_conf' \in IoConfigs /\ user_i2c_clk' \in Nat /\ twi_speed' \in Nat
    BY <1>0, <2>1, ConfigureType DEF SSD1306_drawPage, IoConfigs
  <2>6. UNCHANGED <<displayBuffer, busy, dma_transfers, pdcVars, isr>>
    BY <2>1 DEF SSD1306_drawPage
  <2>7. LcdTypeOK'  BY <1>0, <2>3, <2>4, <2>5, <2>6 DEF LcdTypeOK, pdcVars
  <2>8. pc' = "app_la_lcd" /\ UNCHANGED <<ret, asked>>  BY <1>9 DEF LaLcdPage
  <2> QED BY <1>0, <2>4, <2>6, <2>7, <2>8 DEF TypedInv, TypeInv, TypeOK, Points, Loops, Apps
<1>10. CASE CmdI2cTake
  <2>1. wire' \in Seq(Row) /\ Len(wire') <= 2 /\ endtx' \in BOOLEAN /\ (endtx' => endtx)
    BY <1>0, <1>10 DEF CmdI2cTake, TwiReset, LcdTypeOK
  <2>2. current_conf' \in IoConfigs /\ user_i2c_clk' \in Nat /\ twi_speed' \in Nat
    BY <1>0, <1>10, ConfigureType DEF CmdI2cTake, IoConfigs
  <2>3. UNCHANGED <<displayBuffer, busy, dma_transfers, pdcVars, cursor, screen, isr, ret, asked>>
        /\ pc' = "i2c_bus"
    BY <1>10 DEF CmdI2cTake
  <2>4. LcdTypeOK'  BY <1>0, <2>1, <2>2, <2>3 DEF LcdTypeOK, pdcVars
  <2> QED BY <1>0, <2>1, <2>3, <2>4 DEF TypedInv, TypeInv, TypeOK, Points, BusSteps
<1>11. CASE UartPins \/ ScopeEnter \/ CmdSpi
  <2>1. PICK conf \in {"IO_UART", "IO_ADC", "IO_SPI"} : SetPins(conf)
    BY <1>11 DEF UartPins, ScopeEnter, CmdSpi
  <2>2. current_conf' \in IoConfigs /\ user_i2c_clk' \in Nat /\ twi_speed' \in Nat
    BY <1>0, <2>1, ConfigureType DEF SetPins, IoConfigs
  <2>3. pc' \in {"app_uart", "app_scope", "app_command"}
    BY <1>11 DEF UartPins, ScopeEnter, CmdSpi
  <2>4. LcdTypeOK' /\ UNCHANGED <<endtx, dma_transfers, ret, asked>>
    BY <1>0, <2>1, <2>2 DEF SetPins, LcdTypeOK, lcdVars, pdcVars, twiVars
  <2> QED BY <1>0, <2>3, <2>4
      DEF TypedInv, TypeInv, TypeOK, Points, Loops, Apps, WaitingApps, Redrawing
<1>12. CASE \E buttons \in (SUBSET Buttons) \ {{}} : MenuPress(buttons)
  <2>1. PICK buttons \in (SUBSET Buttons) \ {{}} : MenuPress(buttons)  BY <1>12
  <2>2. StartsApp(buttons) => Selected.to \in Apps
    <3>1. menu_current \in MenuNames /\ selection \in 0 .. Size(menu_current) - 1
      BY InvNumbers DEF TypedInv, MenuInv
    <3> QED BY <3>1, PanelAssumption DEF StartsApp, Selected
  <2>3. /\ pc' \in {"test", "enter", "menu_draw"}
        /\ pc' = "enter" => StartsApp(buttons)
        /\ ret' = IF StartsApp(buttons) THEN Selected.to ELSE ret
        /\ UNCHANGED <<lcdVars, confVars, asked>>
    BY <2>1 DEF MenuPress
  <2>4. Apps \subseteq Loops  BY DEF Loops
  <2>5. pc' \in Points \ {"frame"}  BY <2>3 DEF Points, Loops
  <2> QED BY <1>0, <2>2, <2>3, <2>4, <2>5, LcdSameType
<1>13. CASE MenuTestEnds \/ AppLeave \/ LaLcdShow \/ CmdI2c \/ CmdI2cTransfer
  <2>1. UNCHANGED <<lcdVars, confVars, ret, asked>> /\ pc' \in {"menu_draw", "page", "i2c", "app_command"}
    BY <1>13 DEF MenuTestEnds, AppLeave, LaLcdShow, CmdI2c, CmdI2cTransfer
  <2>2. pc' \in Points \ {"frame"} /\ pc' # "enter"
    BY <2>1 DEF Points, Loops, BusSteps, Apps, WaitingApps
  <2> QED BY <1>0, <2>1, <2>2, LcdSameType
<1>14. CASE CmdLcdDraw
  <2>1. PICK picture : Draw(picture) /\ picture \in [Pages -> Row]
    <3>1. Text("host", 0) \in Row  BY DEF Text, Row, Pictures
    <3>2. CASE Draw([p \in Pages |-> Blank])
      <4>1. [p \in Pages |-> Blank] \in [Pages -> Row]  BY BlankIsRow
      <4> QED BY <3>2, <4>1
    <3>3. ASSUME NEW p \in Pages, Draw([displayBuffer EXCEPT ![p] = Text("host", 0)])
          PROVE  \E picture : Draw(picture) /\ picture \in [Pages -> Row]
      <4>1. [displayBuffer EXCEPT ![p] = Text("host", 0)] \in [Pages -> Row]
        BY <1>0, <3>1 DEF LcdTypeOK
      <4> QED BY <3>3, <4>1
    <3> QED BY <1>14, <3>2, <3>3 DEF CmdLcdDraw
  <2>2. LcdTypeOK' /\ UNCHANGED <<endtx, dma_transfers>>  BY <2>1, DrawType
  <2>3. UNCHANGED <<pc, ret, asked>>  BY <1>14 DEF CmdLcdDraw, panelVars
  <2> QED BY <1>0, <2>2, <2>3 DEF TypedInv, TypeInv, TypeOK
<1>15. CASE CmdLcdRefresh
  <2>1. UNCHANGED <<lcdVars, confVars, asked>> /\ pc' = "begin" /\ ret' = "app_command"
    BY <1>15 DEF CmdLcdRefresh
  <2>2. "app_command" \in Loops /\ "begin" \in Points
    BY DEF Points, Loops, Apps, WaitingApps
  <2> QED BY <1>0, <2>1, <2>2, LcdSameType
<1>16. CASE CmdI2cClock
  <2>1. PICK clock \in HostClocks :
            /\ twi_speed' = IF clock <= MaxI2cClock THEN clock ELSE twi_speed
            /\ asked' = IF clock <= MaxI2cClock THEN clock ELSE asked
    BY <1>16 DEF CmdI2cClock
  <2>2. clock \in Nat  BY PanelAssumption
  <2>3. twi_speed' \in Nat /\ asked' \in Nat  BY <1>0, <2>1, <2>2 DEF LcdTypeOK
  <2>4. UNCHANGED <<lcdVars, current_conf, user_i2c_clk, ret>> /\ pc' = "app_command"
    BY <1>16 DEF CmdI2cClock
  <2>5. LcdTypeOK' /\ UNCHANGED <<endtx, dma_transfers>>
    BY <1>0, <2>3, <2>4 DEF LcdTypeOK, lcdVars, pdcVars, twiVars
  <2> QED BY <1>0, <2>3, <2>4, <2>5 DEF TypedInv, TypeInv, TypeOK, Points, Loops, Apps, WaitingApps
<1> QED
  BY <1>1, <1>2, <1>3, <1>4, <1>5, <1>6, <1>7, <1>8, <1>9, <1>10, <1>11, <1>12, <1>13,
     <1>14, <1>15, <1>16
  DEF Main, MainOwn, MainAsked

LEMMA TypedStep == ASSUME TypedInv, Slow, [Next]_vars PROVE TypedInv'
<1>1. BusInv' /\ MenuInv'  BY BusStep, MenuStep DEF TypedInv
<1>2. ASSUME UNCHANGED vars PROVE TypeInv'
  BY <1>2 DEF vars, lcdVars, confVars, pdcVars, twiVars, panelVars, TypedInv, TypeInv, TypeOK, LcdTypeOK
<1>3. TypeInv'  BY <1>2, WiresKeepType, HandlerKeepsType, MainKeepsType DEF Next
<1> QED BY <1>1, <1>3 DEF TypedInv

LEMMA TypedInvariant == ASSUME Slow PROVE Spec => []TypedInv
<1>1. Slow  OBVIOUS
<1>2. TypedInv /\ [Next]_vars => TypedInv'  BY <1>1, TypedStep
<1>3. Init => TypedInv  BY BusInit, MenuInitInv, TypeInit DEF TypedInv
<1> QED BY <1>2, <1>3, PTL DEF Spec

(* What the PDC reads stays in the display buffer, what it has left to     *)
(* read in its page, and the count of pages left, which the interrupt      *)
(* decrements unchecked, from 0 to the number of pages; every application  *)
(* the menu starts is one.                                                 *)
THEOREM DisplayIsTyped == Slow => (Spec => []TypeOK)
<1> SUFFICES ASSUME Slow PROVE Spec => []TypeOK  OBVIOUS
<1>1. TypedInv => TypeOK  BY DEF TypedInv, TypeInv
<1>2. Spec => []TypedInv  BY TypedInvariant
<1> QED BY <1>1, <1>2, PTL

-----------------------------------------------------------------------------
(* What the panel shows *)

(* A refresh is under way: pieces of the page that the panel has got, and  *)
(* rows that show what the display buffer holds                            *)
Sending == busy /\ pc # "frame"
Sent    == LCD_WIDTH - tcr - Len(wire)
OnPanel(p) == \A c \in Columns : screen[p][c] = displayBuffer[p]

(* The pages go out in order: the one the PDC reads is the one the panel   *)
(* is at, and what the panel has not got of it is in the PDC or the TWI    *)
SendInv ==
    Sending =>
        /\ tpr = LCD_PAGES - dma_transfers - (IF isr = "wait" THEN 1 ELSE 0)
        /\ Sent \in 0 .. LCD_WIDTH
        /\ cursor.page = tpr
        /\ Sent < LCD_WIDTH => cursor.col = Sent
        /\ isr = "wait" => tcr = 0

(* Whatever has left the display buffer is still what is in it, unless the *)
(* host draws meanwhile                                                    *)
Undisturbed == Patient \/ pc # "app_command"

PictureInv ==
    Sending /\ Undisturbed =>
        /\ \A i \in 1 .. Len(wire) : wire[i] = displayBuffer[tpr]
        /\ \A p \in 0 .. tpr - 1 : OnPanel(p)
        /\ \A c \in 0 .. Sent - 1 : screen[tpr][c] = displayBuffer[tpr]

(* From where it is drawn until a button is pressed, the menu is what the  *)
(* display buffer holds, and after the refresh what the panel shows        *)
MenuDrawnInv ==
    /\ pc \in {"begin", "frame"} /\ ret = "menu_wait" => displayBuffer = MenuPicture
    /\ pc = "menu_wait" => displayBuffer = MenuPicture
    /\ pc = "menu_wait" /\ ~busy => \A p \in Pages : OnPanel(p)

(* Between refreshes every row is of one piece *)
WholeInv ==
    Patient /\ ~busy => \A p \in Pages, c \in Columns : screen[p][c] = screen[p][0]

ShowInv == SendInv /\ PictureInv /\ MenuDrawnInv /\ WholeInv

LEMMA ShowInit == Init => ShowInv
BY Numbers DEF Init, LcdInit, ShowInv, SendInv, PictureInv, MenuDrawnInv, WholeInv, Sending

(* A picture drawn is on the panel once the last page has left the TWI *)
LEMMA DoneShows ==
    ASSUME TypedInv, SendInv, PictureInv, TWI0_Done, Undisturbed
    PROVE  \A p \in Pages : OnPanel(p)
<1> USE Numbers
<1>1. busy /\ pc # "frame"  BY DEF TypedInv, BusInv, TWI0_Done
<1>2. dma_transfers = 0 /\ tcr \in Nat /\ wire = <<>> /\ isr = "wait"
  BY DEF TypedInv, TypeInv, TypeOK, LcdTypeOK, TWI0_Done, TwiDone
<1>3. tpr = LCD_PAGES - 1 /\ tcr = 0  BY <1>1, <1>2 DEF SendInv, Sending
<1>4. Sent = LCD_WIDTH  BY <1>2, <1>3 DEF Sent
<1>5. OnPanel(tpr)  BY <1>1, <1>4 DEF PictureInv, Sending, OnPanel, Columns
<1>6. \A p \in 0 .. tpr - 1 : OnPanel(p)  BY <1>1 DEF PictureInv, Sending
<1> QED BY <1>3, <1>5, <1>6 DEF Pages

(* At the start of a page the panel has nothing of it *)
LEMMA SentStarts == ASSUME tcr' = LCD_WIDTH, Len(wire') = 0 PROVE Sent' = 0
<1>1. LCD_WIDTH - LCD_WIDTH - 0 = 0  BY Numbers
<1> QED BY <1>1 DEF Sent

(* The hardware moves a piece from the buffer to the TWI, or from there to *)
(* the panel                                                               *)
LEMMA WiresKeepShow == ASSUME TypedInv, ShowInv, Wires PROVE ShowInv'
<1> USE Numbers
<1>0. LcdTypeOK  BY DEF TypedInv, TypeInv, TypeOK
<1>1. /\ UNCHANGED <<pc, ret, menuVars, displayBuffer, busy, dma_transfers, tpr, isr>>
      /\ busy /\ pc # "frame"
  BY DEF Wires, Hardware, PdcFetch, TwiShift, panelVars, pdcVars, TypedInv, BusInv, Quiet
<1>2. MenuDrawnInv' /\ WholeInv'
  BY <1>1 DEF ShowInv, MenuDrawnInv, WholeInv, MenuPicture, MenuRow, Size, Entry, menuVars
<1>3. Sending /\ SendInv /\ PictureInv  BY <1>1 DEF Sending, ShowInv
<1>4. tcr \in Nat /\ wire \in Seq(Row) /\ Len(wire) \in Nat /\ tpr \in Pages
      /\ Sent \in 0 .. LCD_WIDTH
  BY <1>0, <1>3 DEF LcdTypeOK, SendInv
<1>5. CASE PdcFetch
  <2>1. /\ wire' = Append(wire, displayBuffer[tpr]) /\ tcr' = tcr - 1 /\ tcr > 0
        /\ UNCHANGED <<cursor, screen>>
    BY <1>5 DEF PdcFetch
  <2>2. displayBuffer[tpr] \in Row  BY <1>0, <1>4 DEF LcdTypeOK
  <2>3. Len(wire') = Len(wire) + 1 /\ wire'[Len(wire) + 1] = displayBuffer[tpr]
        /\ \A i \in 1 .. Len(wire) : wire'[i] = wire[i]
    BY <1>4, <2>1, <2>2
  <2>4. Sent' = Sent  BY <1>4, <2>1, <2>3 DEF Sent
  <2>5. SendInv'  BY <1>1, <1>3, <2>1, <2>4 DEF SendInv, Sending
  <2>6. PictureInv'
    <3> SUFFICES ASSUME Undisturbed' PROVE PictureInv'  BY DEF PictureInv
    <3>1. Undisturbed  BY <1>1 DEF Undisturbed
    <3>2. \A i \in 1 .. Len(wire') : wire'[i] = displayBuffer[tpr]
      BY <1>3, <1>4, <2>3, <3>1 DEF PictureInv
    <3> QED BY <1>1, <1>3, <2>1, <2>4, <3>1, <3>2 DEF PictureInv, OnPanel
  <2> QED BY <1>2, <2>5, <2>6 DEF ShowInv
<1>6. CASE TwiShift
  <2>1. /\ screen' = [screen EXCEPT ![cursor.page][cursor.col] = Head(wire)]
        /\ cursor' = [cursor EXCEPT !.col = (@ + 1) % LCD_WIDTH]
        /\ wire' = Tail(wire) /\ wire # <<>> /\ UNCHANGED <<tcr>>
    BY <1>6 DEF TwiShift, pdcVars
  <2>2. Len(wire) \in Nat \ {0} /\ Len(wire') = Len(wire) - 1 /\ Head(wire) = wire[1]
        /\ \A i \in 1 .. Len(wire) - 1 : wire'[i] = wire[i + 1]
    BY <1>4, <2>1
  <2>3. Sent' = Sent + 1 /\ Sent < LCD_WIDTH  BY <1>4, <2>1, <2>2 DEF Sent
  <2>4. cursor.page = tpr /\ cursor.col = Sent /\ cursor \in [page : Pages, col : Columns]
    BY <1>0, <1>3, <2>3 DEF SendInv, LcdTypeOK
  <2>5. Sent + 1 < LCD_WIDTH => (Sent + 1) % LCD_WIDTH = Sent + 1  BY <1>4
  <2>6. cursor'.page = cursor.page /\ cursor'.col = (cursor.col + 1) % LCD_WIDTH
    BY <2>1, <2>4
  <2>7. SendInv'  BY <1>1, <1>3, <1>4, <2>1, <2>3, <2>4, <2>5, <2>6 DEF SendInv, Sending
  <2>8. PictureInv'
    <3> SUFFICES ASSUME Undisturbed' PROVE PictureInv'  BY DEF PictureInv
    <3>1. Undisturbed  BY <1>1 DEF Undisturbed
    <3>2. \A i \in 1 .. Len(wire) : wire[i] = displayBuffer[tpr]
      BY <1>3, <3>1 DEF PictureInv
    <3>3. \A i \in 1 .. Len(wire') : wire'[i] = displayBuffer[tpr]
      BY <2>2, <3>2
    <3>4. Sent \in Columns  BY <1>4, <2>3 DEF Columns
    <3>5. /\ screen'[tpr][Sent] = displayBuffer[tpr]
          /\ \A c \in Columns \ {Sent} : screen'[tpr][c] = screen[tpr][c]
          /\ \A p \in Pages \ {tpr} : screen'[p] = screen[p]
      BY <1>0, <1>4, <2>1, <2>2, <2>4, <3>2, <3>4 DEF LcdTypeOK
    <3>6. \A c \in 0 .. Sent - 1 : screen[tpr][c] = displayBuffer[tpr]
      BY <1>3, <3>1 DEF PictureInv
    <3>7. \A c \in 0 .. Sent' - 1 : screen'[tpr][c] = displayBuffer[tpr]
      BY <1>4, <2>3, <3>4, <3>5, <3>6 DEF Columns
    <3>8. \A p \in 0 .. tpr - 1 : OnPanel(p)  BY <1>3, <3>1 DEF PictureInv
    <3>9. \A p \in 0 .. tpr - 1 : p \in Pages \ {tpr}  BY <1>4 DEF Pages
    <3>10. \A p \in 0 .. tpr - 1 : OnPanel(p)'
      BY <1>1, <3>5, <3>8, <3>9 DEF OnPanel
    <3> QED BY <1>1, <3>3, <3>7, <3>10 DEF PictureInv
  <2> QED BY <1>2, <2>7, <2>8 DEF ShowInv
<1> QED BY <1>5, <1>6 DEF Wires, Hardware

(* The interrupt ends a page and starts the next, or ends the refresh *)
LEMMA HandlerKeepsShow == ASSUME TypedInv, ShowInv, Handler PROVE ShowInv'
<1> USE Numbers
<1>0. LcdTypeOK  BY DEF TypedInv, TypeInv, TypeOK
<1>1. UNCHANGED <<pc, ret, menuVars, displayBuffer, screen>>
  BY DEF Handler, TWI0_Handler, TWI0_Enter, TWI0_NextPage, TWI0_Done, panelVars
<1>2. busy /\ pc # "frame"
  BY DEF Handler, TWI0_Handler, TWI0_Enter, TWI0_NextPage, TWI0_Done, IrqPending,
         TypedInv, BusInv, Quiet
<1>3. Sending /\ SendInv /\ PictureInv /\ MenuDrawnInv
  BY <1>2 DEF Sending, ShowInv
<1>4. dma_transfers \in Nat /\ tcr \in Nat /\ tpr \in Pages /\ wire \in Seq(Row)
      /\ Len(wire) \in Nat /\ isr \in {"none", "wait"}
  BY <1>0 DEF LcdTypeOK
<1>5. MenuPicture' = MenuPicture  BY <1>1 DEF MenuPicture, MenuRow, Size, Entry, menuVars
<1>6. Undisturbed' = Undisturbed  BY <1>1 DEF Undisturbed
<1>7. \A p : OnPanel(p)' = OnPanel(p)  BY <1>1 DEF OnPanel
<1>8. CASE TWI0_Enter
  <2>1. /\ isr = "none" /\ tcr = 0 /\ isr' = "wait" /\ dma_transfers' = dma_transfers - 1
        /\ UNCHANGED <<busy, tpr, tcr, wire, cursor>>
    BY <1>8 DEF TWI0_Enter, IrqPending
  <2>2. Sent' = Sent  BY <2>1 DEF Sent
  <2>3. SendInv'  BY <1>1, <1>3, <1>4, <2>1, <2>2 DEF SendInv, Sending
  <2>4. PictureInv'  BY <1>1, <1>3, <1>6, <1>7, <2>1, <2>2 DEF PictureInv, Sending
  <2>5. MenuDrawnInv' /\ WholeInv'
    BY <1>1, <1>2, <1>3, <1>5, <2>1 DEF MenuDrawnInv, WholeInv
  <2> QED BY <2>3, <2>4, <2>5 DEF ShowInv
<1>9. CASE TWI0_NextPage
  <2>1. /\ isr = "wait" /\ wire = <<>> /\ dma_transfers > 0 /\ isr' = "none"
        /\ SSD1306_drawPageDMA(LCD_PAGES - dma_transfers, wire)
        /\ dma_transfers' = dma_transfers
    BY <1>9 DEF TWI0_NextPage, TwiDone
  <2>2. /\ busy' = TRUE /\ tpr' = LCD_PAGES - dma_transfers /\ tcr' = LCD_WIDTH
        /\ wire' = wire /\ cursor' = [page |-> LCD_PAGES - dma_transfers, col |-> 0]
    BY <2>1 DEF SSD1306_drawPageDMA
  <2>3. tpr = LCD_PAGES - dma_transfers - 1 /\ tcr = 0
    BY <1>3, <1>4, <2>1 DEF SendInv
  <2>4. Len(wire) = 0 /\ Sent = LCD_WIDTH /\ Sent' = 0
    <3>1. Len(wire) = 0 /\ Len(wire') = 0  BY <2>1, <2>2
    <3>2. Sent = LCD_WIDTH  BY <2>3, <3>1 DEF Sent
    <3> QED BY <2>2, <3>1, <3>2, SentStarts
  <2>5. SendInv'  BY <1>1, <1>4, <2>1, <2>2, <2>4 DEF SendInv, Sending
  <2>6. PictureInv'
    <3> SUFFICES ASSUME Undisturbed' PROVE PictureInv'  BY DEF PictureInv
    <3>1. Undisturbed  BY <1>6
    <3>2. \A p \in 0 .. tpr - 1 : OnPanel(p)  BY <1>3, <3>1 DEF PictureInv
    <3>3. OnPanel(tpr)  BY <1>3, <2>4, <3>1 DEF PictureInv, OnPanel, Columns
    <3>4. tpr' = tpr + 1 /\ tpr \in Nat  BY <1>4, <2>2, <2>3 DEF Pages
    <3>5. \A p \in 0 .. tpr' - 1 : OnPanel(p)'  BY <1>7, <3>2, <3>3, <3>4
    <3>6. 1 .. Len(wire') = {} /\ 0 .. Sent' - 1 = {}  BY <2>2, <2>4
    <3> QED BY <3>5, <3>6 DEF PictureInv
  <2>7. MenuDrawnInv' /\ WholeInv'
    BY <1>1, <1>3, <1>5, <2>2 DEF MenuDrawnInv, WholeInv
  <2> QED BY <2>5, <2>6, <2>7 DEF ShowInv
<1>10. CASE TWI0_Done
  <2>1. ~busy'  BY <1>10 DEF TWI0_Done
  <2>2. Undisturbed => \A p \in Pages : OnPanel(p)  BY <1>3, <1>10, DoneShows
  <2>3. SendInv' /\ PictureInv'  BY <2>1 DEF SendInv, PictureInv, Sending
  <2>4. MenuDrawnInv'
    <3>1. pc' = "menu_wait" => \A p \in Pages : OnPanel(p)'
      BY <1>1, <1>7, <2>2 DEF Undisturbed
    <3> QED BY <1>1, <1>3, <1>5, <3>1 DEF MenuDrawnInv
  <2>5. WholeInv'
    <3>1. Patient => \A p \in Pages, c \in Columns : screen[p][c] = displayBuffer[p]
      BY <2>2 DEF Undisturbed, OnPanel
    <3> QED BY <1>1, <3>1 DEF WholeInv
  <2> QED BY <2>3, <2>4, <2>5 DEF ShowInv
<1> QED BY <1>8, <1>9, <1>10 DEF Handler, TWI0_Handler

(* All the main program does while the display is busy *)
LEMMA MainWhileBusy ==
    ASSUME TypedInv, Slow, Main, busy
    PROVE  FirstPage \/ UartPins \/ CmdSpi \/ MenuTestEnds \/ CmdLcdDraw
BY DEF Main, MainOwn, MainAsked, TypedInv, BusInv, FreePlaces, Slow, Settled,
       Begin, Splash, MenuDraw, MenuTest, AppEnter, ScopeEnter, LaLcdEnter, LaLcdPage,
       CmdI2cTake, CmdI2cTransfer, MenuPress, AppLeave, AppRedraw, LaLcdShow,
       CmdLcdRefresh, CmdI2c, CmdI2cClock

(* And while it is not: only Begin makes it busy, only LaLcdPage writes on *)
(* the panel                                                               *)
LEMMA MainWhileFree ==
    ASSUME TypedInv, Main, ~busy
    PROVE  /\ Begin \/ ~busy'
           /\ UNCHANGED screen \/ LaLcdPage
<1>1. ~FirstPage  BY DEF FirstPage, TypedInv, BusInv
<1>2. CASE \/ Splash \/ MenuDraw \/ MenuTest \/ AppEnter \/ AppRedraw \/ LaLcdEnter
           \/ CmdLcdDraw
  BY <1>2 DEF Splash, MenuDraw, MenuTest, AppEnter, AppRedraw, LaLcdEnter, CmdLcdDraw,
     DrawThen, Draw, lcdVars
<1>3. CASE \/ ScopeEnter \/ UartPins \/ CmdSpi \/ MenuTestEnds \/ AppLeave \/ LaLcdShow
           \/ CmdLcdRefresh \/ CmdI2c \/ CmdI2cClock \/ CmdI2cTransfer
  BY <1>3 DEF ScopeEnter, UartPins, CmdSpi, SetPins, MenuTestEnds, AppLeave, LaLcdShow,
     CmdLcdRefresh, CmdI2c, CmdI2cClock, CmdI2cTransfer, lcdVars
<1>4. CASE \E buttons \in (SUBSET Buttons) \ {{}} : MenuPress(buttons)
  BY <1>4 DEF MenuPress, lcdVars
<1>5. CASE Begin
  BY <1>5 DEF Begin, DrawBuffer_Begin
<1>6. CASE LaLcdPage \/ CmdI2cTake
  BY <1>6 DEF LaLcdPage, SSD1306_drawPage, CmdI2cTake
<1> QED BY <1>1, <1>2, <1>3, <1>4, <1>5, <1>6 DEF Main, MainOwn, MainAsked

(* The menu is drawn by MenuDraw, and waited in after FirstPage *)
LEMMA MainKeepsMenuDrawn ==
    ASSUME TypedInv, MenuDrawnInv, Main
    PROVE  MenuDrawnInv'
<1> DEFINE drawn == displayBuffer = MenuPicture
<1>0. /\ pc \in {"begin", "frame"} /\ ret = "menu_wait" => drawn
      /\ pc = "menu_wait" => drawn
  BY DEF MenuDrawnInv
<1>1. UNCHANGED menuVars => UNCHANGED MenuPicture
  BY DEF MenuPicture, MenuRow, Size, Entry, menuVars
<1>2. CASE Begin
  <2>1. UNCHANGED <<menuVars, displayBuffer, ret>> /\ pc = "begin" /\ pc' = "frame"
    BY <1>2 DEF Begin, DrawBuffer_Begin
  <2> QED BY <1>0, <1>1, <2>1 DEF MenuDrawnInv
<1>3. CASE FirstPage
  <2>1. UNCHANGED <<menuVars, displayBuffer, ret>> /\ pc = "frame" /\ pc' = ret /\ busy'
    BY <1>3 DEF FirstPage, DrawBuffer_FirstPage, SSD1306_drawPageDMA
  <2>2. ret \in Loops  BY <2>1 DEF TypedInv, BusInv
  <2>3. pc' \notin {"begin", "frame"}  BY <2>1, <2>2, LoopsAreBusy DEF FreePlaces
  <2> QED BY <1>0, <1>1, <2>1, <2>3 DEF MenuDrawnInv
<1>4. CASE MenuDraw
  <2>1. displayBuffer' = MenuPicture /\ UNCHANGED menuVars /\ pc' = "begin"
    BY <1>4 DEF MenuDraw, DrawThen, Draw
  <2> QED BY <1>1, <2>1 DEF MenuDrawnInv
<1>5. ASSUME NEW picture, NEW next, next # "menu_wait", DrawThen(picture, next)
      PROVE  MenuDrawnInv'
  BY <1>5 DEF DrawThen, MenuDrawnInv
<1>6. CASE Splash \/ MenuTest
  BY <1>5, <1>6 DEF Splash, MenuTest
<1>7. CASE AppEnter
  BY <1>5, <1>7 DEF AppEnter, WaitingApps
<1>8. CASE AppRedraw
  BY <1>5, <1>8 DEF AppRedraw, Redrawing
<1>9. CASE LaLcdEnter
  BY <1>5, <1>9 DEF LaLcdEnter, MenuDrawnInv
<1>10. CASE \E buttons \in (SUBSET Buttons) \ {{}} : MenuPress(buttons)
  BY <1>10 DEF MenuPress, MenuDrawnInv
<1>11. CASE CmdLcdDraw \/ CmdSpi \/ CmdLcdRefresh
  BY <1>11 DEF CmdLcdDraw, panelVars, CmdSpi, CmdLcdRefresh, MenuDrawnInv
<1>12. CASE \/ LaLcdPage \/ ScopeEnter \/ UartPins \/ CmdI2cTake \/ CmdI2cTransfer
            \/ MenuTestEnds \/ AppLeave \/ LaLcdShow \/ CmdI2c \/ CmdI2cClock
  BY <1>12 DEF LaLcdPage, ScopeEnter, UartPins, CmdI2cTake, CmdI2cTransfer, MenuTestEnds,
     AppLeave, LaLcdShow, CmdI2c, CmdI2cClock, MenuDrawnInv
<1> QED
  BY <1>2, <1>3, <1>4, <1>6, <1>7, <1>8, <1>9, <1>10, <1>11, <1>12 DEF Main, MainOwn, MainAsked

LEMMA MainKeepsShow == ASSUME TypedInv, ShowInv, Slow, Main PROVE ShowInv'
<1> USE Numbers
<1>0. LcdTypeOK  BY DEF TypedInv, TypeInv, TypeOK
<1>1. MenuDrawnInv'  BY MainKeepsMenuDrawn DEF ShowInv
<1>2. CASE ~busy
  <2>1. ~Sending'
    <3>1. CASE Begin
      BY <3>1 DEF Begin, Sending
    <3> QED BY <1>2, <3>1, MainWhileFree DEF Sending
  <2>2. WholeInv'
    <3> SUFFICES ASSUME Patient PROVE WholeInv'  BY DEF WholeInv
    <3>1. \A p \in Pages, c \in Columns : screen[p][c] = screen[p][0]
      BY <1>2 DEF ShowInv, WholeInv
    <3>2. CASE UNCHANGED screen
      BY <3>1, <3>2 DEF WholeInv
    <3>3. CASE LaLcdPage
      <4>1. PICK q \in Pages : SSD1306_drawPage(q, Text("channel", q))
        BY <3>3 DEF LaLcdPage
      <4>2. screen' = [screen EXCEPT ![q] = [c \in Columns |-> Text("channel", q)]]
        BY <4>1 DEF SSD1306_drawPage
      <4>3. \A p \in Pages, c \in Columns : screen'[p][c] = screen'[p][0]
        BY <1>0, <3>1, <4>2 DEF LcdTypeOK
      <4> QED BY <4>3 DEF WholeInv
    <3> QED BY <1>2, <3>2, <3>3, MainWhileFree
  <2> QED BY <1>1, <2>1, <2>2 DEF ShowInv, SendInv, PictureInv
<1>3. CASE busy
  <2>1. CASE FirstPage
    <3>1. /\ SSD1306_drawPageDMA(0, IF ResetsTwi("IO_I2C_LCD") THEN <<>> ELSE wire)
          /\ UNCHANGED <<displayBuffer, dma_transfers, isr>> /\ pc = "frame"
      BY <2>1 DEF FirstPage, DrawBuffer_FirstPage
    <3>2. wire = <<>> /\ isr = "none" /\ dma_transfers = LCD_PAGES
      BY <3>1 DEF TypedInv, BusInv, TypeInv, Quiet
    <3>3. /\ busy' = TRUE /\ tpr' = 0 /\ tcr' = LCD_WIDTH /\ wire' = <<>>
          /\ cursor' = [page |-> 0, col |-> 0]
      BY <3>1, <3>2 DEF SSD1306_drawPageDMA
    <3>4. Sent' = 0
      <4>1. Len(wire') = 0  BY <3>3
      <4> QED BY <3>3, <4>1, SentStarts
    <3>5. SendInv'  BY <3>1, <3>2, <3>3, <3>4 DEF SendInv
    <3>6. 1 .. Len(wire') = {} /\ 0 .. tpr' - 1 = {} /\ 0 .. Sent' - 1 = {}
      BY <3>3, <3>4
    <3>7. PictureInv'  BY <3>6 DEF PictureInv
    <3>8. WholeInv'  BY <3>3 DEF WholeInv
    <3> QED BY <1>1, <3>5, <3>7, <3>8 DEF ShowInv
  <2>2. CASE UartPins \/ CmdSpi \/ MenuTestEnds
    <3>1. UNCHANGED lcdVars /\ pc' # "frame"
      BY <2>2 DEF UartPins, CmdSpi, SetPins, MenuTestEnds
    <3>2. Sending /\ (Undisturbed' => Undisturbed)
      BY <1>3, <2>2 DEF Sending, Undisturbed, UartPins, CmdSpi, MenuTestEnds
    <3>3. \A p : OnPanel(p)' = OnPanel(p)  BY <3>1 DEF lcdVars, OnPanel
    <3>4. Sent' = Sent  BY <3>1 DEF lcdVars, pdcVars, twiVars, Sent
    <3>5. SendInv'  BY <3>1, <3>2, <3>4 DEF lcdVars, pdcVars, twiVars, ShowInv, SendInv
    <3>6. PictureInv'
      BY <3>1, <3>2, <3>3, <3>4 DEF lcdVars, pdcVars, twiVars, ShowInv, PictureInv
    <3>7. WholeInv'  BY <1>3, <3>1 DEF lcdVars, WholeInv
    <3> QED BY <1>1, <3>5, <3>6, <3>7 DEF ShowInv
  <2>3. CASE CmdLcdDraw
    <3>1. /\ UNCHANGED <<busy, dma_transfers, pdcVars, twiVars, cursor, screen, isr, pc>>
          /\ pc = "app_command" /\ "eager" \in Env
      BY <1>3, <2>3 DEF CmdLcdDraw, Draw, panelVars, Settled
    <3>2. Sending /\ Sent' = Sent  BY <1>3, <3>1 DEF Sending, Sent, pdcVars, twiVars
    <3>3. SendInv'  BY <3>1, <3>2 DEF pdcVars, ShowInv, SendInv
    <3>4. PictureInv' /\ WholeInv'
      BY <3>1 DEF PictureInv, Undisturbed, Patient, WholeInv
    <3> QED BY <1>1, <3>3, <3>4 DEF ShowInv
  <2> QED BY <1>3, <2>1, <2>2, <2>3, MainWhileBusy
<1> QED BY <1>2, <1>3

LEMMA ShowStep == ASSUME TypedInv, ShowInv, Slow, [Next]_vars PROVE ShowInv'
<1>1. ASSUME UNCHANGED vars PROVE ShowInv'
  <2>1. MenuPicture' = MenuPicture
    BY <1>1 DEF vars, menuVars, MenuPicture, MenuRow, Size, Entry
  <2>2. UNCHANGED <<lcdVars, pc, ret>> /\ Sent' = Sent /\ Sending' = Sending
        /\ Undisturbed' = Undisturbed
    BY <1>1 DEF vars, lcdVars, panelVars, pdcVars, twiVars, Sent, Sending, Undisturbed
  <2>3. \A p : OnPanel(p)' = OnPanel(p)  BY <2>2 DEF lcdVars, OnPanel
  <2> QED BY <2>1, <2>2, <2>3
      DEF lcdVars, pdcVars, twiVars, ShowInv, SendInv, PictureInv, MenuDrawnInv, WholeInv
<1> QED BY <1>1, WiresKeepShow, HandlerKeepsShow, MainKeepsShow DEF Next

LEMMA ShowInvariant == ASSUME Slow PROVE Spec => [](TypedInv /\ ShowInv)
<1>1. Slow  OBVIOUS
<1>2. TypedInv /\ ShowInv /\ [Next]_vars => (TypedInv /\ ShowInv)'
  BY <1>1, TypedStep, ShowStep
<1>3. Init => TypedInv /\ ShowInv
  BY BusInit, MenuInitInv, TypeInit, ShowInit DEF TypedInv
<1> QED BY <1>2, <1>3, PTL DEF Spec

(* While menu() waits for a button and the display is not busy, the panel  *)
(* shows the menu as it is, piece by piece, the selected entry among its   *)
(* rows: whatever was drawn, sent and left half sent before, and whatever  *)
(* the host drew.                                                          *)
THEOREM MenuIsShown == Slow => (Spec => []ScreenShowsMenu)
<1> SUFFICES ASSUME Slow PROVE Spec => []ScreenShowsMenu  OBVIOUS
<1>1. ASSUME TypedInv, ShowInv PROVE ScreenShowsMenu
  <2> SUFFICES ASSUME pc = "menu_wait", ~busy
               PROVE  /\ \A p \in Pages, c \in Columns : screen[p][c] = MenuRow(p)
                      /\ \E p \in Pages : MenuRow(p).selected
    BY DEF ScreenShowsMenu
  <2>1. displayBuffer = MenuPicture /\ \A p \in Pages : OnPanel(p)
    BY <1>1 DEF ShowInv, MenuDrawnInv
  <2>2. \A p \in Pages, c \in Columns : screen[p][c] = MenuRow(p)
    BY <2>1 DEF OnPanel, MenuPicture
  <2> DEFINE row == selection - offset
  <2>3. row \in Pages /\ row + offset = selection /\ selection < Size(menu_current)
    BY <1>1, InvNumbers, PanelAssumption, MenuAssumption
    DEF TypedInv, MenuInv, SelectionVisible, Pages
  <2>4. MenuRow(row).selected
    <3> HIDE DEF row
    <3> QED BY <2>3 DEF MenuRow
  <2> QED BY <2>2, <2>3, <2>4
<1>2. Spec => [](TypedInv /\ ShowInv)  BY ShowInvariant
<1> QED BY <1>1, <1>2, PTL

-----------------------------------------------------------------------------
(* The driver implements Screen *)

Shown == [p \in Pages |-> IF busy THEN Unsettled ELSE Whole(screen[p])]

LEMMA WholeRow ==
    ASSUME NEW row, \A c \in Columns : row[c] = row[0]
    PROVE  Whole(row) = row[0]
BY DEF Whole

LEMMA ShownBetween ==
    ASSUME TypedInv, ShowInv, Patient, ~busy
    PROVE  Shown = [p \in Pages |-> screen[p][0]] /\ Shown \in [Pages -> Row]
<1>1. \A p \in Pages, c \in Columns : screen[p][c] = screen[p][0]  BY DEF ShowInv, WholeInv
<1>2. \A p \in Pages : Whole(screen[p]) = screen[p][0]  BY <1>1, WholeRow
<1>3. \A p \in Pages : screen[p][0] \in Row
  BY Numbers DEF TypedInv, TypeInv, TypeOK, LcdTypeOK
<1> QED BY <1>2, <1>3 DEF Shown

LEMMA ShownInRefresh == ASSUME busy PROVE Shown = [p \in Pages |-> Unsettled]
BY DEF Shown

LEMMA ScreenInit == Init => S!Init
<1> SUFFICES ASSUME Init PROVE S!Init  OBVIOUS
<1>1. busy = FALSE /\ displayBuffer = [p \in Pages |-> Blank]
      /\ screen = [p \in Pages |-> [c \in Columns |-> Blank]]
  BY DEF Init, LcdInit
<1>2. \A p \in Pages : Whole(screen[p]) = Blank
  BY <1>1, Numbers DEF Whole
<1>3. Shown \in [Pages -> Row]  BY <1>1, <1>2, BlankIsRow DEF Shown
<1> QED BY <1>1, <1>3, BlankIsRow DEF S!Init, Shown

(* Every step of the program, the interrupt and the hardware is a step of  *)
(* Screen, or leaves what Screen is about unchanged                        *)
LEMMA ScreenStep ==
    ASSUME TypedInv, ShowInv, TypedInv', ShowInv', Slow, Patient, [Next]_vars
    PROVE  [S!Next]_(S!vars)
<1> USE Numbers
<1> DEFINE Same == UNCHANGED <<displayBuffer, Shown, busy>>
<1>0. Same => UNCHANGED S!vars  BY DEF S!vars, Shown
<1>1. displayBuffer' \in [Pages -> Row]  BY DEF TypedInv, TypeInv, TypeOK, LcdTypeOK
<1>2. ASSUME UNCHANGED <<displayBuffer, busy>>, busy \/ screen' = screen PROVE Same
  BY <1>2 DEF Shown
<1>3. CASE UNCHANGED vars
  BY <1>0, <1>2, <1>3 DEF vars, lcdVars
<1>4. CASE Wires
  BY <1>0, <1>2, <1>4 DEF Wires, Hardware, PdcFetch, TwiShift, TypedInv, BusInv, Quiet
<1>5. CASE Handler
  <2>1. CASE TWI0_Enter
    BY <1>0, <1>2, <2>1 DEF TWI0_Enter
  <2>2. CASE TWI0_NextPage
    BY <1>0, <1>2, <2>2 DEF TWI0_NextPage, SSD1306_drawPageDMA, TypedInv, BusInv
  <2>3. CASE TWI0_Done
    <3>1. busy /\ busy' = FALSE /\ UNCHANGED <<displayBuffer, screen>>
      BY <2>3 DEF TWI0_Done, TypedInv, BusInv
    <3>2. \A p \in Pages : OnPanel(p)
      BY <2>3, DoneShows DEF ShowInv, Undisturbed
    <3>3. Shown' = [p \in Pages |-> screen'[p][0]]
      <4>1. \A p \in Pages, c \in Columns : screen'[p][c] = screen'[p][0]
        BY <3>1 DEF ShowInv, WholeInv
      <4>2. \A p \in Pages : Whole(screen'[p]) = screen'[p][0]  BY <4>1, WholeRow
      <4> QED BY <3>1, <4>2 DEF Shown
    <3>4. \A p \in Pages : screen'[p][0] = displayBuffer[p]  BY <3>1, <3>2 DEF OnPanel
    <3>5. displayBuffer \in [Pages -> Row]  BY DEF TypedInv, TypeInv, TypeOK, LcdTypeOK
    <3>6. Shown' = displayBuffer  BY <3>3, <3>4, <3>5
    <3> QED BY <3>1, <3>6 DEF S!Next, S!Settle, Shown
  <2> QED BY <1>5, <2>1, <2>2, <2>3 DEF Handler, TWI0_Handler
<1>6. CASE Main /\ busy
  <2>1. CASE FirstPage
    BY <1>0, <1>2, <1>6, <2>1 DEF FirstPage, DrawBuffer_FirstPage, SSD1306_drawPageDMA, TypedInv, BusInv
  <2>2. CASE UartPins \/ CmdSpi \/ MenuTestEnds
    BY <1>0, <1>2, <2>2 DEF UartPins, CmdSpi, SetPins, MenuTestEnds, lcdVars
  <2>3. ~CmdLcdDraw  BY <1>6 DEF CmdLcdDraw, Settled, Patient
  <2> QED BY <1>6, <2>1, <2>2, <2>3, MainWhileBusy
<1>7. CASE Main /\ ~busy
  <2>1. CASE Begin
    <3>1. busy' = TRUE /\ busy = FALSE /\ UNCHANGED displayBuffer
      BY <1>7, <2>1 DEF Begin, DrawBuffer_Begin, TypedInv, TypeInv, TypeOK, LcdTypeOK
    <3>2. Shown' = [p \in Pages |-> Unsettled]  BY <3>1 DEF Shown
    <3> QED BY <3>1, <3>2 DEF S!Next, S!Refresh, Shown
  <2>2. CASE LaLcdPage
    <3>1. PICK q \in Pages : SSD1306_drawPage(q, Text("channel", q))
      BY <2>2 DEF LaLcdPage
    <3>2. screen' = [screen EXCEPT ![q] = [c \in Columns |-> Text("channel", q)]]
          /\ UNCHANGED <<displayBuffer, busy>>
      BY <3>1 DEF SSD1306_drawPage
    <3>3. \A p \in Pages \ {q} : screen'[p] = screen[p]
      BY <3>2 DEF TypedInv, TypeInv, TypeOK, LcdTypeOK
    <3>4. \A p \in Pages \ {q} : Shown'[p] = Shown[p]  BY <3>2, <3>3 DEF Shown
    <3>5. Shown' \in [Pages -> Row]
      <4>1. ~busy'  BY <1>7, <3>2
      <4>2. \A p \in Pages, c \in Columns : screen'[p][c] = screen'[p][0]
        BY <4>1 DEF ShowInv, WholeInv
      <4>3. \A p \in Pages : Whole(screen'[p]) = screen'[p][0]  BY <4>2, WholeRow
      <4>4. \A p \in Pages : screen'[p][0] \in Row
        BY DEF TypedInv, TypeInv, TypeOK, LcdTypeOK
      <4> QED BY <4>1, <4>3, <4>4 DEF Shown
    <3> QED BY <1>7, <3>2, <3>4, <3>5 DEF S!Next, S!ShowRow, Shown
  <2>3. CASE ~Begin /\ UNCHANGED screen
    <3>1. ~busy' /\ UNCHANGED Shown  BY <1>7, <2>3, MainWhileFree DEF Shown
    <3>2. busy' = busy
      BY <1>7, <3>1 DEF TypedInv, TypeInv, TypeOK, LcdTypeOK
    <3> QED BY <1>1, <1>7, <3>1, <3>2 DEF S!Next, S!Draw, Shown
  <2> QED BY <1>7, <2>1, <2>2, <2>3, MainWhileFree
<1> QED BY <1>3, <1>4, <1>5, <1>6, <1>7 DEF Next

(* If no press is shorter than a refresh and the host waits before it      *)
(* draws, a program may rely on the display as Screen promises: what is    *)
(* drawn is shown as a whole, or a row of it replaced, and nothing else.   *)
THEOREM DriverImplementsScreen ==
    Slow /\ Patient => (Spec => S!Init /\ [][S!Next]_(S!vars))
<1> SUFFICES ASSUME Slow, Patient PROVE Spec => S!Init /\ [][S!Next]_(S!vars)  OBVIOUS
<1> DEFINE Inv == TypedInv /\ ShowInv
<1>1. Slow /\ Patient  OBVIOUS
<1>2. Inv /\ Inv' /\ [Next]_vars => [S!Next]_(S!vars)  BY <1>1, ScreenStep
<1>3. Spec => []Inv  BY ShowInvariant
<1> HIDE DEF Inv
<1> QED BY <1>2, <1>3, ScreenInit, PTL DEF Spec
=============================================================================
