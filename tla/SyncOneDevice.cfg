SPECIFICATION Spec
CONSTANTS
  alice = alice
  bob = bob
  t1 = t1
  t2 = t2
  p1 = p1
  n1 = n1
  n2 = n2
  Local = Local
  Loading = Loading
  Tracks <- MCTracks
  PlaylistIds = {p1}
  Names <- MCNames
  Accounts = {alice, bob}
  Changes <- AllChanges
  OtherChanges <- OtherAll
  MaxChanges = 3
  MaxOther = 0
  MaxQueue = 2
  Faults = {"lost", "crash"}
  MaxFavorites = 2
  MaxPlaylists = 2
  MaxPlaylistTracks = 2
SYMMETRY AccountSymmetry
INVARIANT TypeOK
INVARIANT OutboxIsUnresolved
INVARIANT ServerHoldsPrefix
