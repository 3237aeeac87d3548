SPECIFICATION Spec
CONSTANTS
  alice = alice
  bob = bob
  t1 = t1
  t2 = t2
  p1 = p1
  p2 = p2
  n1 = n1
  n2 = n2
  Tracks <- MCTracks
  PlaylistIds <- MCPlaylistIds
  Names <- MCNames
  Users = {alice, bob}
  Requests <- FavoritesOnly
  Faults = {"write", "dir_sync", "power_loss"}
  MaxRevision = 2
  MaxUsers = 2
  MaxDocumentSize = 3
  MaxFavorites = 2
  MaxPlaylists = 2
  MaxPlaylistTracks = 2
  MaxUnsynced = 2
INVARIANT AnsweredIsDurable
PROPERTY AnswersGoForward
PROPERTY ImplementsDurable
