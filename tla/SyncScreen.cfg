SPECIFICATION Spec
CONSTANTS
  alice = alice
  bob = bob
  t1 = t1
  t2 = t2
  p1 = p1
  n1 = n1
  n2 = n2
  Local = Local
  Loading = Loading
  Tracks <- MCTracks
  PlaylistIds = {p1}
  Names <- MCNames
  Accounts = {alice, bob}
  Changes <- OneFavorite
  OtherChanges <- OneFavorite
  MaxChanges = 2
  MaxOther = 0
  MaxQueue = 3
  Faults = {"lost", "crash", "claim_crash", "expiry", "busy_sign_out", "busy_sign_in"}
  MaxFavorites = 2
  MaxPlaylists = 2
  MaxPlaylistTracks = 2
SYMMETRY AccountSymmetry
INVARIANT ScreenIsCurrent
PROPERTY AccountsAreIsolated
PROPERTY LocalIsHandedOver
