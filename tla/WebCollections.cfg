SPECIFICATION Spec
CONSTANTS
  alice = alice
  bob = bob
  t1 = t1
  p1 = p1
  n1 = n1
  n2 = n2
  None = None
  FavoritesId = FavoritesId
  Accounts = {alice, bob}
  Tabs = {"tab"}
  Calls = {1, 2}
  Tracks = {t1}
  PlaylistIds = {p1}
  Names = {n1, n2}
  NewNames = {n1}
  LegacyFavorites <- MCLegacyFavorites
  LegacyPlaylists <- Nothing
  OtherChanges <- OtherDeletesOrRenames
  MaxChanges = 2
  MaxOther = 1
  MaxSignIns = 2
  MaxFailures = 1
  MaxFavorites = 2
  MaxPlaylists = 2
  MaxPlaylistTracks = 2
CHECK_DEADLOCK FALSE
INVARIANT CollectionsAreSound
INVARIANT OnlyARefusalLosesChanges
PROPERTY OutboxDrains
