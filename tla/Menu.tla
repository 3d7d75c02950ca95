-------------------------------- MODULE Menu --------------------------------
(***************************************************************************)
(* menu.c: the tree of menus of menu_struct.c, walked with four buttons.   *)
(* Menus gives each menu its entries; the END sentinel is not in it, it is *)
(* the place after the last entry.  One call of menu() draws the menu,     *)
(* waits for a button, and ends with one of the operators below: what the  *)
(* button does, then the scrolling, then the count of presses of DOWN.     *)
(***************************************************************************)
EXTENDS Integers, Sequences, SequencesExt

CONSTANTS
    Menus,             \* menu -> [val, entries]; an entry is [type, to]
    MainMenu,          \* `main_menu`
    MENU_ENTRY_COUNT,  \* rows of the display
    MENU_STACK_DEPTH,
    DownMax            \* presses of DOWN in a row that show the test picture

VARIABLES
    menu_current,  \* `menu_current`
    menu_stack,    \* `menu_stack`, up to its first NULL
    selection,     \* `selection`
    offset,        \* `offset`
    val,           \* menu -> its `val`
    down           \* `down`

menuVars == <<menu_current, menu_stack, selection, offset, val, down>>

Buttons    == {"UP", "DOWN", "LEFT", "RIGHT"}
EntryTypes == {"APP", "SUBMENU", "SETTING"}
MenuNames  == DOMAIN Menus

Size(menu)     == Len(Menus[menu].entries)
Entry(menu, i) == Menus[menu].entries[i + 1]
Selected       == Entry(menu_current, selection)
Places         == [menu : MenuNames, selection : Nat]

(* The tree: every menu has entries, its first setting is one of them, and *)
(* the level of a submenu is one more than that of the menu it is in; the  *)
(* deepest leaves a place of the stack free.                               *)
MenuTree(level) ==
    /\ level[MainMenu] = 0
    /\ \A m \in MenuNames :
        /\ Menus[m].entries \in Seq([type : EntryTypes, to : STRING])
        /\ Menus[m].val \in 0 .. Size(m) - 1
        /\ \A i \in 0 .. Size(m) - 1 :
              Entry(m, i).type = "SUBMENU" =>
                  /\ Entry(m, i).to \in MenuNames
                  /\ level[Entry(m, i).to] = level[m] + 1

ASSUME MenuAssumption ==
    /\ MainMenu \in MenuNames
    /\ MENU_ENTRY_COUNT \in Nat \ {0}
    /\ MENU_STACK_DEPTH \in Nat \ {0}
    /\ DownMax \in Nat \ {0}
    /\ \E level \in [MenuNames -> 0 .. MENU_STACK_DEPTH - 1] : MenuTree(level)

MenuInit ==
    /\ menu_current = MainMenu
    /\ menu_stack = <<>>
    /\ selection = 0 /\ offset = 0 /\ down = 0
    /\ val = [m \in MenuNames |-> Menus[m].val]

(* What menu_draw puts on the rows: selected and marked are the inverse    *)
(* colours and the "<" of the setting in force.                            *)
MenuRow(i) ==
    LET e == i + offset
    IN  IF e < Size(menu_current)
        THEN [of |-> menu_current, entry |-> e, selected |-> e = selection,
              marked |-> Entry(menu_current, e).type = "SETTING" /\ e = val[menu_current]]
        ELSE [of |-> "blank", entry |-> 0, selected |-> FALSE, marked |-> FALSE]

-----------------------------------------------------------------------------
(* Each operator gives the new place: menu, selection and stack, before    *)
(* the scrolling.  offset is reset by menu_enter and menu_leave.           *)

menu_stack_push(stack, place) ==
    IF Len(stack) < MENU_STACK_DEPTH THEN Append(stack, place) ELSE stack

(* menu_stack_pop looks for the first NULL behind an entry: an empty stack *)
(* has nothing in front of it, and a full one has none.                    *)
CanPop == Len(menu_stack) \in 1 .. MENU_STACK_DEPTH - 1

Scroll_Late(sel, off) ==
    IF sel < off THEN sel
    ELSE IF sel > off + MENU_ENTRY_COUNT THEN sel - MENU_ENTRY_COUNT + 1
    ELSE off

Scroll(sel, off) ==
    IF sel < off THEN sel
    ELSE IF sel >= off + MENU_ENTRY_COUNT THEN sel - MENU_ENTRY_COUNT + 1
    ELSE off

GoTo(menu, sel, off) ==
    /\ menu_current' = menu
    /\ selection' = sel
    /\ offset' = Scroll(sel, off)

menu_enter(menu) ==
    /\ menu_stack' = menu_stack_push(menu_stack, [menu |-> menu_current, selection |-> selection])
    /\ GoTo(menu, val[menu], 0)

(* Pops without restoring the selection. *)
menu_leave_Forgets ==
    \/ /\ CanPop
       /\ menu_stack' = Front(menu_stack)
       /\ GoTo(Last(menu_stack).menu, selection, 0)
    \/ /\ ~CanPop
       /\ GoTo(menu_current, selection, offset)
       /\ UNCHANGED menu_stack

menu_leave ==
    \/ /\ CanPop
       /\ menu_stack' = Front(menu_stack)
       /\ GoTo(Last(menu_stack).menu, Last(menu_stack).selection, 0)
    \/ /\ ~CanPop
       /\ GoTo(menu_current, selection, offset)
       /\ UNCHANGED menu_stack

Up ==
    /\ GoTo(menu_current, IF selection = 0 THEN Size(menu_current) - 1 ELSE selection - 1, offset)
    /\ UNCHANGED <<menu_stack, val>>

Down ==
    /\ GoTo(menu_current, IF selection + 1 = Size(menu_current) THEN 0 ELSE selection + 1, offset)
    /\ UNCHANGED <<menu_stack, val>>

Right ==
    \/ /\ Selected.type = "SUBMENU"
       /\ menu_enter(Selected.to)
       /\ UNCHANGED val
    \/ /\ Selected.type = "SETTING"
       /\ val' = [val EXCEPT ![menu_current] = selection]
       /\ menu_leave
    \/ /\ Selected.type = "APP"
       /\ GoTo(menu_current, selection, offset)
       /\ UNCHANGED <<menu_stack, val>>

Left ==
    /\ menu_leave
    /\ UNCHANGED val

(* Several buttons may be down when menu() looks: it takes one of them.    *)
Press(buttons) ==
    /\ CASE "UP" \in buttons    -> Up
         [] "DOWN" \in buttons /\ "UP" \notin buttons -> Down
         [] buttons \cap {"UP", "DOWN"} = {} /\ "RIGHT" \in buttons -> Right
         [] buttons = {"LEFT"}  -> Left
    /\ down' = IF "DOWN" \in buttons THEN (down + 1) % DownMax ELSE 0

StartsApp(buttons) ==
    /\ buttons \cap {"UP", "DOWN"} = {} /\ "RIGHT" \in buttons
    /\ Selected.type = "APP"

ShowsTest(buttons) == "DOWN" \in buttons /\ down + 1 = DownMax
-----------------------------------------------------------------------------
(* menu_draw, the press of RIGHT and the next call of menu() rely on these. *)

(* The selection is an entry of the menu, and is on the display. *)
SelectionVisible ==
    /\ selection \in 0 .. Size(menu_current) - 1
    /\ offset \in 0 .. selection
    /\ selection < offset + MENU_ENTRY_COUNT

(* A setting in force is one of the settings of its menu. *)
SettingsValid == \A m \in MenuNames : val[m] \in 0 .. Size(m) - 1

(* Leaving submenus retraces the way they were entered: the stack is the   *)
(* path from the main menu, each place of it the entry that was entered.   *)
StackIsPath ==
    LET menuAt(i) == IF i <= Len(menu_stack) THEN menu_stack[i].menu ELSE menu_current
    IN  /\ menuAt(1) = MainMenu
        /\ \A i \in 1 .. Len(menu_stack) :
              /\ menu_stack[i].selection \in 0 .. Size(menuAt(i)) - 1
              /\ LET e == Entry(menuAt(i), menu_stack[i].selection)
                 IN  e.type = "SUBMENU" /\ e.to = menuAt(i + 1)
=============================================================================
