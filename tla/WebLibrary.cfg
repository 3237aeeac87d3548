SPECIFICATION Spec
CONSTANTS
  t1 = t1
  t2 = t2
  t3 = t3
  p1 = p1
  n1 = n1
  anna = anna
  unknown = unknown
  other = other
  untitled = untitled
  user = user
  None = None
  Blank = Blank
  Absent = Absent
  FavoritesId = FavoritesId
  Labels <- MCLabels
  Texts <- MCTexts
  Collation <- MCCollation
  Answers <- MCAnswers
  Shelf <- MCShelf
  Accounts <- MCAccounts
  SavedQueues <- MCQueues
  Queries = {t1}
  Tracks = {t1, t2, t3}
  PlaylistIds = {p1}
  Names = {n1}
  OtherChanges <- MCOther
  Limit = 1
  MaxClicks = 4
  MaxLists = 2
  MaxOther = 1
  MaxFavorites = 2
  MaxPlaylists = 2
  MaxPlaylistTracks = 2
CHECK_DEADLOCK FALSE
INVARIANT PageIsWhole
PROPERTY PlayedTableIsTheQueue
