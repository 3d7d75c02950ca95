----------------------------- MODULE PanelProofs -----------------------------
(***************************************************************************)
(* Theorems about Panel, for every size of the display, tree of menus and  *)
(* set of clocks: who uses the bus, and at what clock; and that the menu   *)
(* is sound: the selection is an entry that is seen, settings are entries  *)
(* of their menus, and the stack is the way to the current menu.           *)
(***************************************************************************)
EXTENDS Panel, SequenceTheorems, TLAPS

-----------------------------------------------------------------------------
(* Who uses the bus *)

(* Places in the program that are reached only when the display is not     *)
(* busy, and where the main program stays until it makes it so             *)
FreePlaces == {"splash", "test", "enter", "begin", "page", "i2c", "i2c_bus"}

BusInv ==
    /\ ~busy => Quiet /\ isr = "none"
    /\ isr # "none" => ~txten /\ ~endtx
    /\ pc \in FreePlaces => ~busy
    /\ pc = "frame" => busy /\ Quiet /\ isr = "none"
    /\ pc \in {"begin", "frame"} => ret \in Loops

(* Nobody presses and releases a button within a refresh *)
Slow == "quick" \notin Env

LEMMA BusInit == Init => BusInv
BY DEF Init, LcdInit, BusInv, Quiet, FreePlaces

(* A place where the main program goes on after a refresh is none of those *)
LEMMA LoopsAreBusy == Loops \cap (FreePlaces \cup {"frame"}) = {}
BY DEF Loops, Apps, WaitingApps, Redrawing, FreePlaces

(* The hardware moves pieces only while the display is busy *)
LEMMA WiresKeepBus == ASSUME BusInv, Wires PROVE BusInv'
<1>1. CASE PdcFetch
  BY <1>1 DEF Wires, PdcFetch, BusInv, Quiet, panelVars, pdcVars, twiVars
<1>2. CASE TwiShift
  BY <1>2 DEF Wires, TwiShift, BusInv, Quiet, panelVars, pdcVars, twiVars
<1> QED BY <1>1, <1>2 DEF Wires, Hardware

(* The interrupt runs only while the display is busy, and frees it when    *)
(* nothing is left                                                         *)
LEMMA HandlerKeepsBus == ASSUME BusInv, Handler PROVE BusInv'
<1> USE DEF Handler, panelVars, BusInv, Quiet
<1>1. CASE TWI0_Enter
  BY <1>1 DEF TWI0_Enter, IrqPending
<1>2. CASE TWI0_NextPage
  BY <1>2 DEF TWI0_NextPage, SSD1306_drawPageDMA
<1>3. CASE TWI0_Done
  BY <1>3 DEF TWI0_Done, TwiDone, pdcVars, twiVars
<1> QED BY <1>1, <1>2, <1>3 DEF TWI0_Handler

(* A step of the main program that leaves the driver alone keeps the       *)
(* invariant if it goes to a place the display allows                      *)
LEMMA QuietStep ==
    ASSUME BusInv, UNCHANGED <<busy, txten, isr>>,
           endtx' = endtx \/ ~endtx', wire' = wire \/ wire' = <<>>,
           pc' # "frame",
           pc' \in FreePlaces => ~busy,
           pc' = "begin" => ret' \in Loops
    PROVE  BusInv'
BY DEF BusInv, Quiet, FreePlaces

(* Drawing, then the refresh *)
LEMMA DrawStep ==
    ASSUME BusInv, ~busy, NEW picture, NEW next \in Loops, DrawThen(picture, next)
    PROVE  BusInv'
BY DEF DrawThen, Draw, BusInv, Quiet, FreePlaces, pdcVars, twiVars

(* Every step of the main program *)
LEMMA MainKeepsBus == ASSUME BusInv, Slow, Main PROVE BusInv'
<1> USE DEF FreePlaces
<1>0. isr = "none" /\ ~IrqPending  BY DEF Main, MainMayRun
<1>1. CASE Begin
  BY <1>0, <1>1 DEF Begin, DrawBuffer_Begin, BusInv, Quiet, pdcVars, twiVars
<1>2. CASE FirstPage
  <2>1. ret \in Loops /\ isr = "none"  BY <1>2 DEF FirstPage, BusInv
  <2>2. pc' \in Loops /\ busy' = TRUE /\ isr' = isr
    BY <1>2, <2>1 DEF FirstPage, DrawBuffer_FirstPage, SSD1306_drawPageDMA
  <2>3. pc' \notin FreePlaces \cup {"frame", "begin"}  BY <2>2, LoopsAreBusy
  <2> QED BY <2>1, <2>2, <2>3 DEF BusInv
<1>3. CASE Splash
  <2>1. ~busy /\ "menu_draw" \in Loops  BY <1>3 DEF Splash, BusInv, Loops
  <2> QED BY <1>3, <2>1, DrawStep DEF Splash
<1>4. CASE MenuDraw
  <2>1. ~busy /\ "menu_wait" \in Loops  BY <1>4 DEF MenuDraw, Loops
  <2> QED BY <1>4, <2>1, DrawStep DEF MenuDraw
<1>5. CASE MenuTest
  <2>1. ~busy /\ "test_wait" \in Loops  BY <1>5 DEF MenuTest, BusInv, Loops
  <2> QED BY <1>5, <2>1, DrawStep DEF MenuTest
<1>6. CASE AppEnter
  <2> DEFINE next == IF ret = "app_uart" THEN "uart_pins" ELSE ret
  <2>1. ~busy /\ next \in Loops  BY <1>6 DEF AppEnter, Loops, Apps
  <2> QED BY <1>6, <2>1, DrawStep DEF AppEnter
<1>7. CASE AppRedraw
  <2>1. ~busy /\ pc \in Loops  BY <1>7 DEF AppRedraw, Loops, Apps
  <2> QED BY <1>7, <2>1, DrawStep DEF AppRedraw
<1>8. CASE LaLcdEnter
  <2>1. ~busy  BY <1>8 DEF LaLcdEnter, BusInv
  <2>2. "app_la_lcd" \in Loops  BY DEF Loops, Apps
  <2>3. CASE DrawThen(Picture("app_la_lcd"), "app_la_lcd")
    BY <2>1, <2>2, <2>3, DrawStep
  <2>4. CASE pc' = "app_la_lcd" /\ UNCHANGED <<menuVars, lcdVars, confVars, ret, asked>>
    BY <2>1, <2>4, QuietStep DEF lcdVars, pdcVars, twiVars
  <2> QED BY <1>8, <2>3, <2>4 DEF LaLcdEnter
<1>9. CASE LaLcdPage
  <2>1. UNCHANGED <<busy, txten, isr>> /\ pc' = "app_la_lcd"
    BY <1>9 DEF LaLcdPage, SSD1306_drawPage, pdcVars
  <2>2. endtx' = endtx \/ ~endtx'
    BY <1>9 DEF LaLcdPage, SSD1306_drawPage, TwiReset, BusInv, Quiet
  <2>3. wire' = wire \/ wire' = <<>>
    BY <1>9 DEF LaLcdPage, SSD1306_drawPage, TwiReset
  <2> QED BY <2>1, <2>2, <2>3, QuietStep
<1>10. CASE CmdI2cTake
  <2>1. UNCHANGED <<busy, txten, isr>> /\ pc' = "i2c_bus" /\ pc = "i2c"
    BY <1>10 DEF CmdI2cTake, pdcVars
  <2>2. endtx' = endtx \/ ~endtx'
    BY <1>10 DEF CmdI2cTake, TwiReset, BusInv, Quiet
  <2>3. wire' = wire \/ wire' = <<>>
    BY <1>10 DEF CmdI2cTake, TwiReset
  <2>4. ~busy  BY <2>1 DEF BusInv
  <2> QED BY <2>1, <2>2, <2>3, <2>4, QuietStep
<1>11. CASE UartPins \/ ScopeEnter \/ CmdSpi
  <2>1. UNCHANGED lcdVars /\ pc' \in {"app_uart", "app_scope", "app_command"}
    BY <1>11 DEF UartPins, ScopeEnter, CmdSpi, SetPins
  <2> QED BY <2>1, QuietStep DEF lcdVars, pdcVars, twiVars
<1>12. CASE \E buttons \in (SUBSET Buttons) \ {{}} : MenuPress(buttons)
  <2>1. UNCHANGED lcdVars /\ ~busy /\ pc' \in {"test", "enter", "menu_draw"}
    BY <1>12 DEF MenuPress, Settled, Slow
  <2> QED BY <2>1, QuietStep DEF lcdVars, pdcVars, twiVars
<1>13. CASE MenuTestEnds \/ AppLeave
  BY <1>13, QuietStep DEF MenuTestEnds, AppLeave, lcdVars, pdcVars, twiVars
<1>14. CASE LaLcdShow \/ CmdI2c
  BY <1>14, QuietStep DEF LaLcdShow, CmdI2c, lcdVars, pdcVars, twiVars
<1>15. CASE CmdLcdDraw
  BY <1>15, QuietStep DEF CmdLcdDraw, Draw, panelVars, pdcVars, twiVars
<1>16. CASE CmdLcdRefresh
  <2>1. "app_command" \in Loops  BY DEF Loops, Apps, WaitingApps
  <2> QED BY <1>16, <2>1, QuietStep DEF CmdLcdRefresh, lcdVars, pdcVars, twiVars
<1>17. CASE CmdI2cClock \/ CmdI2cTransfer
  BY <1>17, QuietStep DEF CmdI2cClock, CmdI2cTransfer, lcdVars, pdcVars, twiVars
<1> QED
  BY <1>1, <1>2, <1>3, <1>4, <1>5, <1>6, <1>7, <1>8, <1>9, <1>10, <1>11, <1>12, <1>13,
     <1>14, <1>15, <1>16, <1>17
  DEF Main, MainOwn, MainAsked

LEMMA BusStep == ASSUME BusInv, Slow, [Next]_vars PROVE BusInv'
<1>1. CASE UNCHANGED vars
  BY <1>1 DEF vars, lcdVars, panelVars, pdcVars, twiVars, BusInv, Quiet
<1> QED BY <1>1, WiresKeepBus, HandlerKeepsBus, MainKeepsBus DEF Next

LEMMA BusInvariant == ASSUME Slow PROVE Spec => []BusInv
<1>1. Slow  OBVIOUS
<1>2. BusInv /\ [Next]_vars => BusInv'  BY <1>1, BusStep
<1> QED BY <1>2, BusInit, PTL DEF Spec

(* Whoever is about to use the TWI finds it and the PDC silent and the     *)
(* interrupt of the display not in it, however the host and the            *)
(* applications draw, unless a button press is shorter than a refresh.     *)
THEOREM BusHasOneUser == Slow => (Spec => []BusExclusive)
<1> SUFFICES ASSUME Slow PROVE Spec => []BusExclusive  OBVIOUS
<1>1. BusInv => BusExclusive
  BY DEF BusInv, BusExclusive, BusSteps, FreePlaces
<1>2. Spec => []BusInv  BY BusInvariant
<1> QED BY <1>1, <1>2, PTL


-----------------------------------------------------------------------------
(* At what clock *)

(* The clock of the display is in force while it is configured, the host's *)
(* while the host's bus is; otherwise the host's is saved.  A refresh goes *)
(* on at the display's clock when the pins of another peripheral are       *)
(* configured meanwhile.                                                   *)
ClockInv ==
    /\ current_conf = "IO_I2C_LCD" => twi_speed = LCD_I2C_CLOCK
    /\ current_conf = "IO_I2C_CMD" => twi_speed = asked
    /\ current_conf # "IO_I2C_CMD" => user_i2c_clk = asked
    /\ pc = "i2c_bus" => current_conf = "IO_I2C_CMD"
    /\ busy /\ pc # "frame" => twi_speed = LCD_I2C_CLOCK

BusClockInv == BusInv /\ ClockInv

LEMMA ClockInit == Init => ClockInv
BY DEF Init, LcdInit, ClockInv

(* Neither the hardware nor the interrupt touches a clock. *)
LEMMA OthersKeepClock == ASSUME BusClockInv, Wires \/ Handler PROVE ClockInv'
<1>1. CASE Wires
  BY <1>1 DEF Wires, Hardware, PdcFetch, TwiShift, panelVars, confVars, BusClockInv, ClockInv
<1>2. CASE Handler
  <2> USE DEF BusClockInv, BusInv, ClockInv, panelVars, confVars
  <2>1. CASE TWI0_Enter
    BY <1>2, <2>1 DEF Handler, TWI0_Enter
  <2>2. CASE TWI0_NextPage
    <3>1. busy /\ pc # "frame"
      BY <2>2 DEF TWI0_NextPage, Quiet
    <3> QED BY <1>2, <2>2, <3>1 DEF Handler, TWI0_NextPage, SSD1306_drawPageDMA
  <2>3. CASE TWI0_Done
    BY <1>2, <2>3 DEF Handler, TWI0_Done
  <2> QED BY <1>2, <2>1, <2>2, <2>3 DEF Handler, TWI0_Handler
<1> QED BY <1>1, <1>2

(* A step of the main program that configures nothing. *)
LEMMA KeepsConf ==
    ASSUME BusClockInv, UNCHANGED <<busy, confVars, asked>>,
           pc' # "i2c_bus", pc # "frame" \/ pc' = pc
    PROVE  ClockInv'
BY DEF BusClockInv, ClockInv, confVars

(* One that configures the display, and one that configures other pins. *)
LEMMA ConfiguresLcd ==
    ASSUME BusClockInv, io_configure("IO_I2C_LCD"), UNCHANGED asked, pc' # "i2c_bus"
    PROVE  ClockInv'
BY DEF BusClockInv, ClockInv, io_configure, ResetsTwi, IsI2c

LEMMA ConfiguresPins ==
    ASSUME BusClockInv, NEW conf, ~IsI2c(conf), io_configure(conf),
           UNCHANGED <<busy, asked>>, pc' # "i2c_bus", pc # "frame"
    PROVE  ClockInv'
BY DEF BusClockInv, ClockInv, io_configure, ResetsTwi, IsI2c

LEMMA MainKeepsClock == ASSUME BusClockInv, Slow, Main PROVE ClockInv'
<1>1. CASE Begin
  BY <1>1 DEF Begin, DrawBuffer_Begin, confVars, BusClockInv, ClockInv
<1>2. CASE FirstPage
  <2>1. ret \in Loops  BY <1>2 DEF FirstPage, BusClockInv, BusInv
  <2>2. ret # "i2c_bus"  BY <2>1, LoopsAreBusy DEF FreePlaces
  <2> QED BY <1>2, <2>2, ConfiguresLcd DEF FirstPage, DrawBuffer_FirstPage
<1>3. CASE Splash \/ MenuDraw \/ MenuTest \/ AppEnter
  BY <1>3, KeepsConf DEF Splash, MenuDraw, MenuTest, AppEnter, DrawThen, Draw
<1>4. CASE AppRedraw
  BY <1>4, KeepsConf DEF AppRedraw, Redrawing, DrawThen, Draw
<1>5. CASE LaLcdEnter
  BY <1>5, KeepsConf DEF LaLcdEnter, DrawThen, Draw, lcdVars
<1>6. CASE LaLcdPage
  BY <1>6, ConfiguresLcd DEF LaLcdPage, SSD1306_drawPage
<1>7. CASE CmdI2cTake
  <2>1. ~busy /\ pc' = "i2c_bus" /\ UNCHANGED <<busy, asked>>
    BY <1>7 DEF CmdI2cTake, BusClockInv, BusInv, FreePlaces
  <2>2. current_conf' = "IO_I2C_CMD"  BY <1>7 DEF CmdI2cTake, io_configure
  <2>3. twi_speed' = asked
    BY <1>7 DEF CmdI2cTake, io_configure, ResetsTwi, IsI2c, BusClockInv, ClockInv
  <2> QED BY <2>1, <2>2, <2>3 DEF ClockInv
<1>8. CASE UartPins \/ ScopeEnter \/ CmdSpi
  <2>1. PICK conf \in {"IO_UART", "IO_ADC", "IO_SPI"} : SetPins(conf)
    BY <1>8 DEF UartPins, ScopeEnter, CmdSpi
  <2>2. pc' \in {"app_uart", "app_scope", "app_command"} /\ pc # "frame"
    BY <1>8 DEF UartPins, ScopeEnter, CmdSpi
  <2>3. ~IsI2c(conf)  BY DEF IsI2c
  <2> QED BY <2>1, <2>2, <2>3, ConfiguresPins DEF SetPins, lcdVars
<1>9. CASE \E buttons \in (SUBSET Buttons) \ {{}} : MenuPress(buttons)
  BY <1>9, KeepsConf DEF MenuPress, lcdVars
<1>10. CASE MenuTestEnds \/ AppLeave
  BY <1>10, KeepsConf DEF MenuTestEnds, AppLeave, Apps, WaitingApps, Redrawing, lcdVars
<1>11. CASE LaLcdShow \/ CmdI2c
  BY <1>11, KeepsConf DEF LaLcdShow, CmdI2c, lcdVars
<1>12. CASE CmdLcdDraw
  BY <1>12, KeepsConf DEF CmdLcdDraw, Draw, panelVars
<1>13. CASE CmdLcdRefresh
  BY <1>13, KeepsConf DEF CmdLcdRefresh, lcdVars
<1>14. CASE CmdI2cClock
  <2>1. ~busy /\ UNCHANGED <<busy, current_conf, user_i2c_clk>> /\ pc' = "app_command"
    BY <1>14 DEF CmdI2cClock, lcdVars, BusClockInv, BusInv, FreePlaces
  <2>2. twi_speed = asked /\ current_conf = "IO_I2C_CMD"
    BY <1>14 DEF CmdI2cClock, BusClockInv, ClockInv
  <2>3. twi_speed' = asked'
    BY <1>14, <2>2 DEF CmdI2cClock
  <2> QED BY <2>1, <2>2, <2>3 DEF ClockInv
<1>15. CASE CmdI2cTransfer
  BY <1>15, KeepsConf DEF CmdI2cTransfer, lcdVars
<1> QED
  BY <1>1, <1>2, <1>3, <1>4, <1>5, <1>6, <1>7, <1>8, <1>9, <1>10, <1>11, <1>12, <1>13,
     <1>14, <1>15
  DEF Main, MainOwn, MainAsked

LEMMA ClockStep == ASSUME BusClockInv, Slow, [Next]_vars PROVE BusClockInv'
<1>1. BusInv'  BY BusStep DEF BusClockInv
<1>2. ASSUME UNCHANGED vars PROVE ClockInv'
  BY <1>2 DEF vars, lcdVars, confVars, panelVars, BusClockInv, ClockInv
<1>3. ClockInv'  BY <1>2, OthersKeepClock, MainKeepsClock DEF Next
<1> QED BY <1>1, <1>3 DEF BusClockInv

(* Display data goes out at the clock of the display, and what the host    *)
(* sends and receives at the clock it asked for last, through any sequence *)
(* of applications, refreshes and commands of presses longer than a        *)
(* refresh.                                                                *)
THEOREM ClockIsItsUsers == Slow => (Spec => []BusClock)
<1> SUFFICES ASSUME Slow PROVE Spec => []BusClock  OBVIOUS
<1>1. Init => BusClockInv  BY BusInit, ClockInit DEF BusClockInv
<1>2. Slow  OBVIOUS
<1>3. BusClockInv /\ [Next]_vars => BusClockInv'  BY <1>2, ClockStep
<1>4. BusClockInv => BusClock
  BY DEF BusClockInv, BusInv, ClockInv, BusClock, Quiet
<1> QED BY <1>1, <1>3, <1>4, PTL DEF Spec

-----------------------------------------------------------------------------
(* The menu, for every tree of menus of the shape MenuAssumption asks for  *)

(* How deep each menu is: the number of submenus entered to get to it. *)
Depth == CHOOSE level \in [MenuNames -> 0 .. MENU_STACK_DEPTH - 1] : MenuTree(level)

LEMMA DepthOfTree ==
    Depth \in [MenuNames -> 0 .. MENU_STACK_DEPTH - 1] /\ MenuTree(Depth)
BY MenuAssumption DEF Depth

LEMMA MenuEntries ==
    ASSUME NEW m \in MenuNames
    PROVE  /\ Size(m) \in Nat \ {0}
           /\ Menus[m].val \in 0 .. Size(m) - 1
           /\ \A i \in 0 .. Size(m) - 1 :
                 Entry(m, i).type = "SUBMENU" =>
                     /\ Entry(m, i).to \in MenuNames
                     /\ Depth[Entry(m, i).to] = Depth[m] + 1
<1>1. MenuTree(Depth)  BY DepthOfTree
<1>2. Menus[m].val \in 0 .. Size(m) - 1  BY <1>1 DEF MenuTree
<1>3. Menus[m].entries \in Seq([type : EntryTypes, to : STRING])  BY <1>1 DEF MenuTree
<1>4. Size(m) \in Nat  BY <1>3 DEF Size
<1>5. Size(m) # 0  BY <1>2, <1>4
<1>6. \A i \in 0 .. Size(m) - 1 :
         Entry(m, i).type = "SUBMENU" =>
             Entry(m, i).to \in MenuNames /\ Depth[Entry(m, i).to] = Depth[m] + 1
  BY <1>1 DEF MenuTree
<1> QED BY <1>2, <1>4, <1>5, <1>6

(* The i-th menu of the way to the current one, which is the last. *)
At(i) == IF i <= Len(menu_stack) THEN menu_stack[i].menu ELSE menu_current

(* A step of the way: the entry chosen is the submenu that comes next. *)
Leads(i) ==
    /\ menu_stack[i].selection \in 0 .. Size(At(i)) - 1
    /\ Entry(At(i), menu_stack[i].selection).type = "SUBMENU"
    /\ Entry(At(i), menu_stack[i].selection).to = At(i + 1)

(* MenuSound, and what the stack is as a sequence: one place for each      *)
(* level above the current menu, so that it is never full, nothing that is *)
(* pushed is lost, and what is popped is a place.                          *)
MenuInv ==
    /\ menu_current \in MenuNames
    /\ menu_stack \in Seq(Places)
    /\ Len(menu_stack) = Depth[menu_current]
    /\ \A i \in 1 .. Len(menu_stack) : Depth[menu_stack[i].menu] = i - 1
    /\ val \in [MenuNames -> Nat]
    /\ SettingsValid
    /\ SelectionVisible
    /\ At(1) = MainMenu
    /\ \A i \in 1 .. Len(menu_stack) : Leads(i)

LEMMA MenuInvSuffices == MenuInv => MenuSound
BY DEF MenuInv, MenuSound, StackIsPath, At, Leads

LEMMA MenuInitInv == Init => MenuInv
<1> SUFFICES ASSUME Init PROVE MenuInv  OBVIOUS
<1>1. MainMenu \in MenuNames  BY MenuAssumption
<1>2. Depth[MainMenu] = 0  BY DepthOfTree DEF MenuTree
<1>3. /\ menu_current = MainMenu /\ menu_stack = <<>>
      /\ selection = 0 /\ offset = 0
      /\ val = [m \in MenuNames |-> Menus[m].val]
  BY DEF Init, MenuInit
<1>4. menu_stack \in Seq(Places) /\ Len(menu_stack) = 0  BY <1>3
<1>5. \A m \in MenuNames : val[m] \in Nat /\ val[m] \in 0 .. Size(m) - 1
  BY <1>3, MenuEntries
<1>6. val \in [MenuNames -> Nat]  BY <1>3, <1>5
<1>7. SelectionVisible
  BY <1>1, <1>3, MenuEntries, MenuAssumption DEF SelectionVisible
<1>8. At(1) = MainMenu  BY <1>3, <1>4 DEF At
<1> QED BY <1>1, <1>2, <1>3, <1>4, <1>5, <1>6, <1>7, <1>8 DEF MenuInv, SettingsValid

(* Scrolling brings any selection among the rows. *)
LEMMA ScrollShows ==
    ASSUME NEW sel \in Nat, NEW off \in Nat
    PROVE  Scroll(sel, off) \in 0 .. sel /\ sel < Scroll(sel, off) + MENU_ENTRY_COUNT
BY MenuAssumption DEF Scroll

LEMMA GoToShows ==
    ASSUME NEW menu \in MenuNames, NEW sel \in 0 .. Size(menu) - 1, NEW off \in Nat,
           GoTo(menu, sel, off)
    PROVE  SelectionVisible'
<1>1. sel \in Nat  BY MenuEntries
<1>2. menu_current' = menu /\ selection' = sel /\ offset' = Scroll(sel, off)  BY DEF GoTo
<1> QED BY <1>1, <1>2, ScrollShows DEF SelectionVisible, Size

LEMMA InvNumbers ==
    ASSUME MenuInv
    PROVE  /\ selection \in Nat /\ offset \in Nat
           /\ selection \in 0 .. Size(menu_current) - 1
           /\ Size(menu_current) \in Nat \ {0}
BY MenuEntries DEF MenuInv, SelectionVisible

(* A press that stays in the menu. *)
LEMMA StayStep ==
    ASSUME MenuInv, NEW sel \in 0 .. Size(menu_current) - 1,
           GoTo(menu_current, sel, offset), UNCHANGED <<menu_stack, val>>
    PROVE  MenuInv'
<1>1. SelectionVisible'  BY InvNumbers, GoToShows DEF MenuInv
<1>2. UNCHANGED <<menu_current, menu_stack, val>>  BY DEF GoTo
<1>3. \A i : At(i)' = At(i)  BY <1>2 DEF At
<1>4. \A i \in 1 .. Len(menu_stack) : Leads(i)'
  BY <1>2, <1>3 DEF MenuInv, Leads, Size, Entry
<1> QED BY <1>1, <1>2, <1>3, <1>4 DEF MenuInv, SettingsValid, Size

(* Entering a submenu: its level leaves a free place on the stack. *)
LEMMA EnterStep ==
    ASSUME MenuInv, Selected.type = "SUBMENU", menu_enter(Selected.to), UNCHANGED val
    PROVE  MenuInv'
<1> DEFINE to == Selected.to
           place == [menu |-> menu_current, selection |-> selection]
           n == Len(menu_stack)
<1>1. to \in MenuNames /\ Depth[to] = Depth[menu_current] + 1
  BY InvNumbers, MenuEntries DEF MenuInv, Selected
<1>2. n \in Nat /\ n = Depth[menu_current] /\ n < MENU_STACK_DEPTH
  <2>1. Depth[to] \in 0 .. MENU_STACK_DEPTH - 1  BY <1>1, DepthOfTree
  <2>2. Depth[menu_current] \in 0 .. MENU_STACK_DEPTH - 1  BY DepthOfTree DEF MenuInv
  <2> QED BY <1>1, <2>1, <2>2, MenuAssumption DEF MenuInv
<1>3. menu_stack' = Append(menu_stack, place)
  BY <1>2 DEF menu_enter, menu_stack_push
<1>4. menu_stack \in Seq(Places) /\ place \in Places
  BY InvNumbers DEF MenuInv, Places
<1>5. menu_stack' \in Seq(Places) /\ Len(menu_stack') = n + 1
  BY <1>3, <1>4
<1>6. \A i \in 1 .. n : menu_stack'[i] = menu_stack[i]
  BY <1>3, <1>4
<1>7. menu_stack'[n + 1] = place
  BY <1>3, <1>4
<1>8. menu_current' = to  BY DEF menu_enter, GoTo
<1>9. SelectionVisible'
  <2>1. val[to] \in 0 .. Size(to) - 1  BY <1>1 DEF MenuInv, SettingsValid
  <2> QED BY <1>1, <2>1, GoToShows DEF menu_enter
<1>10. \A i \in 1 .. n + 1 : Depth[menu_stack'[i].menu] = i - 1
  <2> SUFFICES ASSUME NEW i \in 1 .. n + 1 PROVE Depth[menu_stack'[i].menu] = i - 1
    OBVIOUS
  <2>1. CASE i = n + 1  BY <1>2, <1>7, <2>1
  <2>2. CASE i # n + 1
    <3>1. i \in 1 .. n  BY <1>2, <2>2
    <3> QED BY <1>6, <3>1 DEF MenuInv
  <2> QED BY <2>1, <2>2
<1>11. \A i \in 1 .. n + 1 : At(i)' = At(i)
  <2> SUFFICES ASSUME NEW i \in 1 .. n + 1 PROVE At(i)' = At(i)  OBVIOUS
  <2>1. CASE i = n + 1  BY <1>2, <1>5, <1>7, <2>1 DEF At
  <2>2. CASE i # n + 1
    <3>1. i \in 1 .. n  BY <1>2, <2>2
    <3> QED BY <1>2, <1>5, <1>6, <3>1 DEF At
  <2> QED BY <2>1, <2>2
<1>12. \A i \in 1 .. n + 1 : Leads(i)'
  <2> SUFFICES ASSUME NEW i \in 1 .. n + 1 PROVE Leads(i)'  OBVIOUS
  <2>1. CASE i = n + 1
    <3>1. At(i)' = menu_current  BY <1>2, <1>11, <2>1 DEF At
    <3>2. At(i + 1)' = to  BY <1>2, <1>5, <1>8, <2>1 DEF At
    <3>3. menu_stack'[i].selection = selection  BY <1>7, <2>1
    <3> QED BY <3>1, <3>2, <3>3, InvNumbers DEF Leads, Selected, Size, Entry
  <2>2. CASE i # n + 1
    <3>1. i \in 1 .. n /\ i + 1 \in 1 .. n + 1  BY <1>2, <2>2
    <3>2. At(i)' = At(i) /\ At(i + 1)' = At(i + 1)  BY <1>11, <3>1
    <3>3. Leads(i)  BY <3>1 DEF MenuInv
    <3> QED BY <1>6, <3>1, <3>2, <3>3 DEF Leads, Size, Entry
  <2> QED BY <2>1, <2>2
<1>13. At(1)' = MainMenu  BY <1>2, <1>11 DEF MenuInv
<1> QED BY <1>1, <1>2, <1>5, <1>8, <1>9, <1>10, <1>12, <1>13
    DEF MenuInv, SettingsValid, Size

(* Leaving a submenu: the last place of the stack is where it was entered. *)
LEMMA LeaveStep ==
    ASSUME MenuInv, menu_leave,
           val' \in [MenuNames -> Nat], SettingsValid'
    PROVE  MenuInv'
<1> DEFINE n == Len(menu_stack)
<1>1. CASE CanPop
  <2>1. n \in Nat /\ n >= 1 /\ n = Depth[menu_current]
    BY <1>1 DEF CanPop, MenuInv
  <2>2. menu_stack' = Front(menu_stack)  BY <1>1 DEF menu_leave
  <2>3. menu_stack' = SubSeq(menu_stack, 1, n - 1)  BY <2>2 DEF Front
  <2>4. menu_stack' \in Seq(Places) /\ Len(menu_stack') = n - 1
    BY <2>1, <2>3, SubSeqProperties DEF MenuInv
  <2>5. \A i \in 1 .. n - 1 : menu_stack'[i] = menu_stack[i]
    BY <2>1, <2>3, SubSeqProperties DEF MenuInv
  <2>6. menu_stack[n] \in Places  BY <2>1 DEF MenuInv
  <2>7. menu_current' = menu_stack[n].menu  BY <1>1 DEF menu_leave, GoTo, Last
  <2>8. menu_current' \in MenuNames  BY <2>6, <2>7 DEF Places
  <2>9. Depth[menu_current'] = n - 1  BY <2>1, <2>7 DEF MenuInv
  <2>10. \A i \in 1 .. n : At(i)' = At(i)
    BY <2>1, <2>4, <2>5, <2>7 DEF At
  <2>11. \A i \in 1 .. n - 1 : Leads(i)'
    <3> SUFFICES ASSUME NEW i \in 1 .. n - 1 PROVE Leads(i)'  OBVIOUS
    <3>1. i \in 1 .. n /\ i + 1 \in 1 .. n  BY <2>1
    <3>2. At(i)' = At(i) /\ At(i + 1)' = At(i + 1)  BY <2>10, <3>1
    <3>3. Leads(i)  BY <3>1 DEF MenuInv
    <3> QED BY <2>5, <3>2, <3>3 DEF Leads, Size, Entry
  <2>12. At(1)' = MainMenu  BY <2>1, <2>10 DEF MenuInv
  <2>13. SelectionVisible'
    <3>1. Leads(n) /\ At(n) = menu_stack[n].menu  BY <2>1 DEF MenuInv, At
    <3>2. menu_stack[n].selection \in 0 .. Size(menu_stack[n].menu) - 1
      BY <3>1 DEF Leads
    <3>3. menu_stack[n].menu \in MenuNames  BY <2>6 DEF Places
    <3>4. GoTo(menu_stack[n].menu, menu_stack[n].selection, 0)
      BY <1>1 DEF menu_leave, Last
    <3> QED BY <3>2, <3>3, <3>4, GoToShows
  <2>14. \A i \in 1 .. n - 1 : Depth[menu_stack'[i].menu] = i - 1
    <3> SUFFICES ASSUME NEW i \in 1 .. n - 1 PROVE Depth[menu_stack'[i].menu] = i - 1
      OBVIOUS
    <3>1. i \in 1 .. n  BY <2>1
    <3> QED BY <2>5, <3>1 DEF MenuInv
  <2>15. Len(menu_stack') = Depth[menu_current']  BY <2>4, <2>9
  <2> QED BY <2>4, <2>8, <2>11, <2>12, <2>13, <2>14, <2>15 DEF MenuInv
<1>2. CASE ~CanPop
  <2>1. GoTo(menu_current, selection, offset) /\ UNCHANGED menu_stack
    BY <1>2 DEF menu_leave
  <2>2. UNCHANGED menu_current  BY <2>1 DEF GoTo
  <2>3. SelectionVisible'  BY <2>1, InvNumbers, GoToShows DEF MenuInv
  <2> QED BY <2>1, <2>2, <2>3 DEF MenuInv, At, Leads, Size, Entry
<1> QED BY <1>1, <1>2

(* One press, whichever buttons are down. *)
LEMMA PressStep ==
    ASSUME MenuInv, NEW buttons \in (SUBSET Buttons) \ {{}}, Press(buttons)
    PROVE  MenuInv'
<1> USE InvNumbers
<1>1. CASE Up
  <2> DEFINE sel == IF selection = 0 THEN Size(menu_current) - 1 ELSE selection - 1
  <2>1. sel \in 0 .. Size(menu_current) - 1  OBVIOUS
  <2> QED BY <1>1, <2>1, StayStep DEF Up
<1>2. CASE Down
  <2> DEFINE sel == IF selection + 1 = Size(menu_current) THEN 0 ELSE selection + 1
  <2>1. sel \in 0 .. Size(menu_current) - 1  OBVIOUS
  <2> QED BY <1>2, <2>1, StayStep DEF Down
<1>3. CASE Right
  <2>1. CASE Selected.type = "SUBMENU" /\ menu_enter(Selected.to) /\ UNCHANGED val
    BY <2>1, EnterStep
  <2>2. CASE /\ Selected.type = "SETTING"
             /\ val' = [val EXCEPT ![menu_current] = selection]
             /\ menu_leave
    <3>1. val' \in [MenuNames -> Nat]  BY <2>2 DEF MenuInv
    <3>2. \A m \in MenuNames : val'[m] \in 0 .. Size(m) - 1
      BY <2>2 DEF MenuInv, SettingsValid
    <3>3. SettingsValid'  BY <3>2 DEF SettingsValid, Size
    <3> QED BY <2>2, <3>1, <3>3, LeaveStep
  <2>3. CASE GoTo(menu_current, selection, offset) /\ UNCHANGED <<menu_stack, val>>
    BY <2>3, StayStep
  <2> QED BY <1>3, <2>1, <2>2, <2>3 DEF Right
<1>4. CASE Left
  BY <1>4, LeaveStep DEF Left, MenuInv, SettingsValid, Size
<1>5. Up \/ Down \/ Right \/ Left
  <2>1. CASE "UP" \in buttons  BY <2>1 DEF Press
  <2>2. CASE "UP" \notin buttons /\ "DOWN" \in buttons  BY <2>2 DEF Press
  <2>3. CASE buttons \cap {"UP", "DOWN"} = {} /\ "RIGHT" \in buttons  BY <2>3 DEF Press
  <2>4. CASE buttons = {"LEFT"}  BY <2>4 DEF Press
  <2> QED BY <2>1, <2>2, <2>3, <2>4 DEF Buttons
<1> QED BY <1>1, <1>2, <1>3, <1>4, <1>5

(* Only the press of a button touches the menu. *)
LEMMA MenuStep == ASSUME MenuInv, [Next]_vars PROVE MenuInv'
<1>1. ASSUME UNCHANGED menuVars PROVE MenuInv'
  BY <1>1 DEF menuVars, MenuInv, SettingsValid, SelectionVisible, At, Leads, Size, Entry
<1>2. CASE UNCHANGED vars  BY <1>1, <1>2 DEF vars
<1>3. CASE Handler \/ Wires  BY <1>1, <1>3 DEF Handler, Wires
<1>4. CASE Main
  <2>1. CASE \E buttons \in (SUBSET Buttons) \ {{}} : MenuPress(buttons)
    BY <2>1, PressStep DEF MenuPress
  <2>2. CASE MainOwn
    BY <1>1, <2>2 DEF MainOwn, Begin, FirstPage, Splash, MenuDraw, MenuTest, AppEnter,
       ScopeEnter, LaLcdEnter, LaLcdPage, UartPins, CmdI2cTake, CmdI2cTransfer, DrawThen, SetPins
  <2>3. CASE \/ MenuTestEnds \/ AppLeave \/ AppRedraw \/ LaLcdShow \/ CmdLcdDraw
             \/ CmdLcdRefresh \/ CmdI2c \/ CmdI2cClock \/ CmdSpi
    BY <1>1, <2>3 DEF MenuTestEnds, AppLeave, AppRedraw, LaLcdShow, CmdLcdDraw,
       CmdLcdRefresh, CmdI2c, CmdI2cClock, CmdSpi, DrawThen, SetPins
  <2> QED BY <1>4, <2>1, <2>2, <2>3 DEF Main, MainAsked
<1> QED BY <1>2, <1>3, <1>4 DEF Next

(* Whatever is pressed, and in whatever tree of menus: the selection is an *)
(* entry and among the rows, a setting in force is one of its menu's, and  *)
(* the stack leads from the main menu to the current one, so that LEFT     *)
(* goes back the way the user came.                                        *)
THEOREM MenuStaysSound == Spec => []MenuSound
<1>1. MenuInv /\ [Next]_vars => MenuInv'  BY MenuStep
<1> QED BY <1>1, MenuInitInv, MenuInvSuffices, PTL DEF Spec
=============================================================================
