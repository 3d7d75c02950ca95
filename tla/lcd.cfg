CONSTANTS
  LCD_PAGES = 3
  LCD_WIDTH = 2
  Menus <- SmallMenus
  MainMenu = "main"
  MENU_ENTRY_COUNT = 3
  MENU_STACK_DEPTH = 3
  DownMax = 3
  Env <- EnvPatient
  HostClocks = {100, 250, 500}
SPECIFICATION FairSpec
CHECK_DEADLOCK FALSE
INVARIANTS
  TypeOK
  BusExclusive
  BusClock
  ScreenShowsMenu
  MenuSound
PROPERTIES
  WholePictures
