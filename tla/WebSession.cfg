SPECIFICATION Spec
CONSTANTS
  x = x
  y = y
  None = None
  Tabs = {x, y}
  MaxCalls = 2
  MaxSessions = 2
  MaxFaults = 1
  MaxClicks = 3
CHECK_DEADLOCK FALSE
INVARIANT PagesAreWhole
PROPERTY SessionsEndForAReason
PROPERTY EverythingSettles
