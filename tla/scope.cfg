CONSTANTS
    LCD_WIDTH = 2
    LCD_PAGES = 2
    LCD_PAGE_SIZE = 2
    MAX_DIGITAL = 1
    Period = 3
    Signals <- Steps
    ChannelSettings = {1, 2}
    MaxStarts = 2
SPECIFICATION FairSpec
INVARIANTS TypeOK TraceDue
PROPERTIES FrameHeld KeepsDrawing
