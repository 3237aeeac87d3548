SPECIFICATION FairSpec
CONSTANTS
  alice = alice
  bob = bob
  t1 = t1
  t2 = t2
  p1 = p1
  n1 = n1
  n2 = n2
  Local = Local
  Loading = Loading
  Tracks <- MCTracks
  PlaylistIds = {p1}
  Names <- MCNames
  Accounts = {alice}
  Changes <- AllChanges
  OtherChanges <- OtherAll
  MaxChanges = 2
  MaxOther = 2
  MaxQueue = 2
  Faults = {"lost"}
  MaxFavorites = 1
  MaxPlaylists = 2
  MaxPlaylistTracks = 1
INVARIANT PendingStaysVisible
PROPERTY EventuallyInStep
