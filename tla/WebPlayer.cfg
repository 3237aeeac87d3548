SPECIFICATION Spec
CONSTANTS
  a = a
  b = b
  c = c
  None = None
  Tracks = {a, b, c}
  Orders <- MCOrders
  SavedQueues <- MCSavedQueues
  Listeners = {"same", "seen"}
  MaxClicks = 3
  MaxStreams = 2
  MaxFailures = 1
  MaxSignIns = 1
  MaxEvents = 3
CHECK_DEADLOCK FALSE
INVARIANT PlayerIsSound
PROPERTY PlayNextIsNext
PROPERTY LoadingEnds
