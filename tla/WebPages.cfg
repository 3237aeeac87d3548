SPECIFICATION Spec
CONSTANTS
  s = s
  t = t
  a = a
  b = b
  None = None
  Files <- MCFiles
  OnDisk <- MCOnDisk
  Shelves = {"discovery", "report"}
  Albums = {a, b}
  Lyrics <- MCLyrics
  MaxCalls = 2
  MaxClicks = 4
  MaxFaults = 1
CHECK_DEADLOCK FALSE
INVARIANT PagesAreCurrent
INVARIANT ScreensAreTrue
PROPERTY PagesSettle
