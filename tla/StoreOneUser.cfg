SPECIFICATION Spec
CONSTANTS
  alice = alice
  bob = bob
  t1 = t1
  t2 = t2
  p1 = p1
  p2 = p2
  n1 = n1
  n2 = n2
  Tracks <- MCTracks
  PlaylistIds <- MCPlaylistIds
  Names <- MCNames
  Users = {alice}
  Requests <- AllKinds
  Faults = {"write", "dir_sync", "crash"}
  MaxRevision = 3
  MaxUsers = 1
  MaxDocumentSize = 7
  MaxFavorites = 3
  MaxPlaylists = 2
  MaxPlaylistTracks = 3
  MaxUnsynced = 1
INVARIANT TypeOK
INVARIANT RestartSucceeds
INVARIANT RetryIsHarmless
INVARIANT NoTrackTwice
INVARIANT ImportOnlyAdds
