------------------------------- MODULE MCPanel -------------------------------
(* The display and the menu on a small tree: every kind of application and *)
(* of entry, and a menu of settings longer than the display.               *)
EXTENDS Panel

App(a)     == [type |-> "APP", to |-> a]
SubMenu(m) == [type |-> "SUBMENU", to |-> m]
Setting(s) == [type |-> "SETTING", to |-> s]

SmallMenus ==
    [ main      |-> [val |-> 0, entries |->
                        << App("app_command"), SubMenu("la_lcd"), App("app_scope") >>],
      la_lcd    |-> [val |-> 1, entries |->
                        << App("app_la_lcd"), SubMenu("trigger"), App("app_uart") >>],
      trigger   |-> [val |-> 2, entries |->
                        << Setting("Free run"), Setting("Input 0"), Setting("Input 1"),
                           Setting("Input 2") >>] ]

EnvPatient == {}
=============================================================================
