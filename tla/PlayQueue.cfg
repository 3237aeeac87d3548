SPECIFICATION Spec
CONSTANTS
  t1 = t1
  t2 = t2
  t3 = t3
  NoTrack = NoTrack
  Tracks <- ThreeTracks
  Lists <- FewLists
  MaxHistory = 4
  MaxLength = 3
  MaxSaves = 2
INVARIANT TypeOK
INVARIANT CurrentInQueue
INVARIANT QueueHasNoRepeats
INVARIANT SavedIsQueue
INVARIANT HistoryFollows
INVARIANT EveryTrackOncePerRound
INVARIANT PreviousUndoesNext
