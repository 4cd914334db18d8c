SPECIFICATION GuiSpec
CONSTANTS
  GUI_EVENT_QUEUE_SIZE = 4
  Buttons = {"LEFT", "RIGHT"}
  MaxPackets = 3
  MaxStrokes = 2
  MaxKeys = 5
  MaxEvents = 6
  MaxInputs = 5
  KeysUsed = {54, 200}
  PacketsSent <- MCPackets
  Letters = {"x"}
  LINE_MAX = 5
  SHELL_LINE_MAX = 4
  SHELL_ARGC_MAX = 2
  Width = 7
  Height = 5
  TASKBAR_H = 1
  TITLE_BAR_H = 1
  BORDER_W = 1
  BTN_W = 1
  MIN_W = 4
  MIN_H = 2
  CASCADE_STEP = 1
  MaxWindows = 3
  Created <- MCCreated
  Points <- MCPoints
INVARIANTS TypesOK DragNeedsButton StrokesAndPacketsWhole LineIsRun WindowsSound ScreensAndTexts
PROPERTIES RefinesQueue RestoreGivesBack InputAnswered
CHECK_DEADLOCK FALSE
