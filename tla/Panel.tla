-------------------------------- MODULE Panel --------------------------------
(***************************************************************************)
(* The main program as far as the display tells: the menu, and the         *)
(* applications it starts, each of which draws into the one display        *)
(* buffer, starts refreshes of the one display, and in the case of the     *)
(* command interface uses the same bus for the host's own I2C devices.     *)
(* Composes Lcd and Menu; pc is where the main program is, ret where it    *)
(* goes on after SSD1306_drawBufferDMA.                                    *)
(***************************************************************************)
EXTENDS Lcd, Menu

CONSTANTS
    Env,         \* what the surroundings may do, a subset of PanelBehaviours
    HostClocks   \* clocks the host asks for, kHz

(* "eager": the host draws before the refresh it asked for has ended (the  *)
(*          answer to a REFRESH comes when the transfer starts);           *)
(* "quick": the user presses and releases a button within the 25 ms of a   *)
(*          refresh.                                                       *)
PanelBehaviours == {"eager", "quick"}

(* Applications that draw one screen on entry, and those that redraw. *)
WaitingApps == {"app_command", "app_uart", "app_la_usb"}
Redrawing   == {"app_la_usb", "app_scope"}
Apps        == WaitingApps \cup Redrawing \cup {"app_la_lcd"}

ASSUME PanelAssumption ==
    /\ Env \subseteq PanelBehaviours
    /\ HostClocks \subseteq Nat
    /\ MENU_ENTRY_COUNT = LCD_PAGES
    /\ \A m \in MenuNames : \A i \in 0 .. Size(m) - 1 :
          Entry(m, i).type = "APP" => Entry(m, i).to \in Apps

VARIABLES
    pc,
    ret,
    asked   \* history: the clock the host asked for last, or the default

panelVars == <<pc, ret, asked>>
vars == <<lcdVars, confVars, menuVars, panelVars>>

(* Where the main program is about to use the bus, or is using it. *)
BusSteps == {"frame", "page", "i2c", "i2c_bus"}

Settled(behaviour) == behaviour \in Env \/ ~busy

Init ==
    /\ LcdInit /\ MenuInit
    /\ pc = "splash" /\ ret = "splash"
    /\ asked = 100

-----------------------------------------------------------------------------
(* Drawing, and SSD1306_drawBufferDMA in its two steps. *)

Picture(of) == [p \in Pages |-> Text(of, 0)]
MenuPicture == [p \in Pages |-> MenuRow(p)]

DrawThen(picture, next) ==
    /\ Draw(picture)
    /\ pc' = "begin" /\ ret' = next
    /\ UNCHANGED <<menuVars, asked>>

Begin ==
    /\ pc = "begin"
    /\ DrawBuffer_Begin
    /\ pc' = "frame"
    /\ UNCHANGED <<menuVars, ret, asked>>

FirstPage ==
    /\ pc = "frame"
    /\ DrawBuffer_FirstPage
    /\ pc' = ret
    /\ UNCHANGED <<menuVars, ret, asked>>

-----------------------------------------------------------------------------
(* main and menu. *)

Splash ==
    /\ pc = "splash"
    /\ DrawThen(Picture("kicon_logo"), "menu_draw")

(* Draws without waiting for the refresh before. *)
MenuDraw_Eager ==
    /\ pc = "menu_draw"
    /\ DrawThen(MenuPicture, "menu_wait")

MenuDraw ==
    /\ pc = "menu_draw"
    /\ ~busy
    /\ DrawThen(MenuPicture, "menu_wait")

(* A button is pressed and released: the rest of menu().  The test picture *)
(* is drawn without a look at busy, and stays until a button is pressed.   *)
MenuPress(buttons) ==
    /\ pc = "menu_wait"
    /\ Settled("quick")
    /\ Press(buttons)
    /\ pc' = IF ShowsTest(buttons) THEN "test"
             ELSE IF StartsApp(buttons) THEN "enter" ELSE "menu_draw"
    /\ ret' = IF StartsApp(buttons) THEN Selected.to ELSE ret
    /\ UNCHANGED <<lcdVars, confVars, asked>>

MenuTest ==
    /\ pc = "test"
    /\ DrawThen(Picture("gfx_test"), "test_wait")

MenuTestEnds ==
    /\ pc = "test_wait"
    /\ pc' = "menu_draw"
    /\ UNCHANGED <<lcdVars, confVars, menuVars, ret, asked>>

-----------------------------------------------------------------------------
(* The applications. *)

(* Command interface, UART bridge and logic analyzer over USB wait for the *)
(* display before they draw, the logic analyzer again at each change of    *)
(* its state.  The oscilloscope looks, and draws when it finds it free.    *)
AppEnter ==
    /\ pc = "enter" /\ ret \in WaitingApps
    /\ ~busy
    /\ DrawThen(Picture(ret), IF ret = "app_uart" THEN "uart_pins" ELSE ret)

AppRedraw ==
    /\ pc \in Redrawing
    /\ ~busy
    /\ DrawThen(Picture(pc), pc)

(* The pins of the UART and of the ADC: the display may be refreshing. *)
SetPins(conf) ==
    /\ io_configure(conf)
    /\ UNCHANGED <<lcdVars, menuVars, ret, asked>>

UartPins ==
    /\ pc = "uart_pins"
    /\ SetPins("IO_UART")
    /\ pc' = "app_uart"

ScopeEnter ==
    /\ pc = "enter" /\ ret = "app_scope"
    /\ SetPins("IO_ADC")
    /\ pc' = "app_scope"

(* The logic analyzer on the display announces that it waits for a         *)
(* trigger, if it has one, without waiting for the display; then it draws  *)
(* channel by channel, waiting, without the PDC.                           *)
LaLcdEnter ==
    /\ pc = "enter" /\ ret = "app_la_lcd"
    /\ \/ DrawThen(Picture("app_la_lcd"), "app_la_lcd")
       \/ /\ pc' = "app_la_lcd"
          /\ UNCHANGED <<lcdVars, confVars, menuVars, ret, asked>>

LaLcdShow ==
    /\ pc = "app_la_lcd"
    /\ ~busy
    /\ pc' = "page"
    /\ UNCHANGED <<lcdVars, confVars, menuVars, ret, asked>>

LaLcdPage ==
    /\ pc = "page"
    /\ \E p \in Pages : SSD1306_drawPage(p, Text("channel", p))
    /\ pc' = "app_la_lcd"
    /\ UNCHANGED <<menuVars, ret, asked>>

(* Every application is left with the LEFT button; the menu is drawn next. *)
AppLeave ==
    /\ pc \in Apps
    /\ Settled("quick")
    /\ pc' = "menu_draw"
    /\ UNCHANGED <<lcdVars, confVars, menuVars, ret, asked>>

-----------------------------------------------------------------------------
(* The host's commands (cmd_lcd, cmd_i2c, cmd_spi). *)

(* CLEAR, and PIXEL or TEXT on one row: neither looks at busy. *)
CmdLcdDraw ==
    /\ pc = "app_command"
    /\ Settled("eager")
    /\ \/ Draw([p \in Pages |-> Blank])
       \/ \E p \in Pages : Draw([displayBuffer EXCEPT ![p] = Text("host", 0)])
    /\ UNCHANGED <<menuVars, panelVars>>

CmdLcdRefresh ==
    /\ pc = "app_command"
    /\ ~busy
    /\ pc' = "begin" /\ ret' = "app_command"
    /\ UNCHANGED <<lcdVars, confVars, menuVars, asked>>

(* cmd_i2c waits for the display, takes the bus, and either sets its clock *)
(* or transfers a packet.                                                  *)
CmdI2c ==
    /\ pc = "app_command"
    /\ ~busy
    /\ pc' = "i2c"
    /\ UNCHANGED <<lcdVars, confVars, menuVars, ret, asked>>

CmdI2cTake ==
    /\ pc = "i2c"
    /\ io_configure("IO_I2C_CMD")
    /\ TwiReset("IO_I2C_CMD")
    /\ pc' = "i2c_bus"
    /\ UNCHANGED <<displayBuffer, busy, dma_transfers, pdcVars, cursor, screen, isr,
                   menuVars, ret, asked>>

CmdI2cClock ==
    /\ pc = "i2c_bus"
    /\ \E clock \in HostClocks :
        /\ twi_speed' = IF clock <= MaxI2cClock THEN clock ELSE twi_speed
        /\ asked' = IF clock <= MaxI2cClock THEN clock ELSE asked
    /\ pc' = "app_command"
    /\ UNCHANGED <<lcdVars, current_conf, user_i2c_clk, menuVars, ret>>

CmdI2cTransfer ==
    /\ pc = "i2c_bus"
    /\ pc' = "app_command"
    /\ UNCHANGED <<lcdVars, confVars, menuVars, ret, asked>>

CmdSpi ==
    /\ pc = "app_command"
    /\ SetPins("IO_SPI")
    /\ UNCHANGED pc

-----------------------------------------------------------------------------
(* What the main program does by itself, and what others make it do. *)
MainOwn ==
    \/ Begin \/ FirstPage \/ Splash \/ MenuDraw \/ MenuTest
    \/ AppEnter \/ ScopeEnter \/ LaLcdEnter \/ LaLcdPage
    \/ UartPins \/ CmdI2cTake \/ CmdI2cTransfer
MainAsked ==
    \/ \E buttons \in (SUBSET Buttons) \ {{}} : MenuPress(buttons)
    \/ MenuTestEnds \/ AppLeave \/ AppRedraw \/ LaLcdShow
    \/ CmdLcdDraw \/ CmdLcdRefresh \/ CmdI2c \/ CmdI2cClock \/ CmdSpi

Handler == TWI0_Handler /\ UNCHANGED <<menuVars, panelVars>>
Wires   == Hardware /\ UNCHANGED <<menuVars, panelVars>>
Main    == MainMayRun /\ (MainOwn \/ MainAsked)

Next == Main \/ Handler \/ Wires

Spec == Init /\ [][Next]_vars

(* The hardware and the interrupt go on, and the main program does what it *)
(* need not wait for; nobody has to press a button or send a command.      *)
FairSpec ==
    /\ Spec
    /\ WF_vars(Wires) /\ WF_vars(Handler)
    /\ WF_vars(MainMayRun /\ MainOwn)

-----------------------------------------------------------------------------
(* Properties. *)

(* Where the program can be. *)
Loops  == Apps \cup {"menu_draw", "menu_wait", "test_wait", "uart_pins"}
Points == Loops \cup BusSteps \cup {"splash", "begin", "test", "enter"}

(* What a row can show: an entry of a menu, or a piece of a picture. *)
Pictures == Apps \cup {"blank", "kicon_logo", "gfx_test", "channel", "host"}
Row      == [of : MenuNames \cup Pictures, entry : Nat, selected : BOOLEAN, marked : BOOLEAN]

(* The part of the type invariant that is about the driver. *)
LcdTypeOK ==
    /\ displayBuffer \in [Pages -> Row]
    /\ busy \in BOOLEAN
    /\ dma_transfers \in 0 .. LCD_PAGES
    /\ txten \in BOOLEAN /\ tpr \in Pages /\ tcr \in 0 .. LCD_WIDTH
    /\ endtx \in BOOLEAN
    /\ wire \in Seq(Row) /\ Len(wire) <= 2
    /\ cursor \in [page : Pages, col : Columns]
    /\ screen \in [Pages -> [Columns -> Row]]
    /\ isr \in {"none", "wait"}
    /\ current_conf \in IoConfigs
    /\ user_i2c_clk \in Nat /\ twi_speed \in Nat
(* Every variable has values the code can give it.  In particular the      *)
(* count of pages left and the page the PDC reads stay in the display.     *)
TypeOK ==
    /\ LcdTypeOK
    /\ pc \in Points
    /\ ret \in Loops \cup {"splash"}
    /\ asked \in Nat

(* The busy flag is all that keeps the bus for one user: whoever is about  *)
(* to send on it, or to reset the TWI (io_configure, twi_set_clock), finds *)
(* the PDC off, nothing in the TWI, and TWI0_Handler not waiting on it.    *)
BusExclusive == pc \in BusSteps => Quiet /\ isr = "none"

(* Display data goes out at the display's clock, and what the host sends   *)
(* and receives at the one it asked for last, whatever came in between.    *)
BusClock ==
    /\ txten \/ wire # <<>> => twi_speed = LCD_I2C_CLOCK
    /\ pc = "i2c_bus" => twi_speed = asked

(* What menu() waits on is what the user sees: once the display is not     *)
(* busy, it shows the current menu, the selected entry among its rows.     *)
ScreenShowsMenu ==
    pc = "menu_wait" /\ ~busy =>
        /\ \A p \in Pages, c \in Columns : screen[p][c] = MenuRow(p)
        /\ \E p \in Pages : MenuRow(p).selected

(* The menu's own invariants (Menu): the selection is an entry and within  *)
(* the rows, settings are entries of their menus, and LEFT retraces the    *)
(* way the menus were entered.                                             *)
MenuSound == SelectionVisible /\ SettingsValid /\ StackIsPath

(* If nobody draws in a refresh, the display shows whole pictures: the     *)
(* one in the display buffer when the refresh began, and nothing else.     *)
Unsettled == [of |-> "unsettled"]
Whole(row) == IF \A c \in Columns : row[c] = row[0] THEN row[0] ELSE Unsettled
S == INSTANCE Screen WITH
        canvas <- displayBuffer,
        shown <- [p \in Pages |-> IF busy THEN Unsettled ELSE Whole(screen[p])],
        refreshing <- busy
WholePictures == S!Spec
=============================================================================
