------------------------ MODULE WebCollectionState ------------------------
(***************************************************************************)
(* The collections the web player keeps in the browser, and what an item   *)
(* of its outbox does to them: apps/web/src/utils/collectionState.ts.      *)
(* Pure operators over the server's accounts and requests (Collections).   *)
(*                                                                         *)
(* Favorites are one collection of the list, present or not: an account    *)
(* without favorites and one whose list became empty differ, which the     *)
(* import of older data can tell.  Time stamps, trimming and the revision, *)
(* which no code of the web player compares, are left out.                 *)
(***************************************************************************)
EXTENDS Collections

CONSTANT FavoritesId    \* the id "favorites", of no playlist

ASSUME FavoritesIdAssumption == FavoritesId \notin PlaylistIds

\* MusicCollection: favorites are the collection with their own id.
MusicCollection ==
  [id : PlaylistIds \cup {FavoritesId}, name : Names \cup {FavoritesId},
   tracks : Seq(Tracks)]

Favorites(tracks) ==
  [id |-> FavoritesId, name |-> FavoritesId, tracks |-> tracks]

\* uniqueTrackIds: the first of every id is kept.
UniqueTrackIds(tracks) == AppendMissing(<<>>, tracks)

\* CollectionOutboxOperation: a request with an id of its own.
OutboxOperation == [id : Nat, request : Request]

\* normalizeOperation, normalizeOutbox: items of no known type are skipped.
NormalOutbox(pending) ==
  SelectSeq(pending, LAMBDA item :
    item.request.op \in {"create_playlist", "add_favorite", "remove_favorite",
                         "rename_playlist", "add_track", "remove_track",
                         "delete_playlist", "import"})

HasCollection(collections, id) ==
  \E i \in DOMAIN collections : collections[i].id = id

\* normalizeCollections: a repeated id is skipped, a repeated track too.
NormalCollections(collections) ==
  FoldLeft(LAMBDA seen, c :
             IF HasCollection(seen, c.id) THEN seen
             ELSE Append(seen, [c EXCEPT !.tracks = UniqueTrackIds(@)]),
           <<>>, collections)

\* collectionFavoriteTrackIds
FavoriteTrackIds(collections) ==
  UniqueTrackIds(
    FoldLeft(LAMBDA found, c : IF c.id = FavoritesId THEN c.tracks ELSE found,
             <<>>, collections))

\* collectionPlaylists
SavedPlaylists(collections) ==
  SelectSeq(collections, LAMBDA c : c.id # FavoritesId)

\* collectionStateFromLegacy; the same list is built from a snapshot.
FavoritesThenPlaylists(favorites, playlists) ==
  (IF favorites = <<>> THEN <<>> ELSE <<Favorites(favorites)>>)
  \o playlists

\* collectionsFromSnapshot, of the answer that holds the whole account.
CollectionsFromSnapshot(user) ==
  FavoritesThenPlaylists(UniqueTrackIds(user.favorites),
    [i \in DOMAIN user.playlists |->
       [user.playlists[i] EXCEPT !.tracks = UniqueTrackIds(@)]])

Without(collections, id) == SelectSeq(collections, LAMBDA c : c.id # id)

\* The collection with this id, with its tracks changed.
WithTracks(collections, id, Update(_)) ==
  [i \in DOMAIN collections |->
     IF collections[i].id = id
     THEN [collections[i] EXCEPT !.tracks = Update(@)] ELSE collections[i]]

AddTo(collections, id, track) ==
  WithTracks(collections, id,
             LAMBDA tracks : UniqueTrackIds(Append(tracks, track)))

RemoveFrom(collections, id, track) ==
  WithTracks(collections, id,
             LAMBDA tracks : SelectSeq(tracks, LAMBDA t : t # track))

\* A created playlist is empty and comes last, whatever was known of it.
WithNew(collections, id, name) ==
  Append(Without(collections, id), [id |-> id, name |-> name, tracks |-> <<>>])

(***************************************************************************)
(* One step of applyCollectionOperations.  An import adds the collections  *)
(* whose id is not known yet, and merges nothing.                          *)
(***************************************************************************)
ApplyOperation(collections, r) ==
  CASE r.op = "create_playlist" ->
         WithNew(collections, r.playlist, r.name)
    [] r.op = "delete_playlist" -> Without(collections, r.playlist)
    [] r.op = "add_favorite" ->
         IF HasCollection(collections, FavoritesId)
         THEN AddTo(collections, FavoritesId, r.track)
         ELSE Append(collections, Favorites(<<r.track>>))
    [] r.op = "remove_favorite" -> RemoveFrom(collections, FavoritesId, r.track)
    [] r.op = "rename_playlist" ->
         [i \in DOMAIN collections |->
            IF collections[i].id = r.playlist
            THEN [collections[i] EXCEPT !.name = r.name] ELSE collections[i]]
    [] r.op = "add_track"    -> AddTo(collections, r.playlist, r.track)
    [] r.op = "remove_track" -> RemoveFrom(collections, r.playlist, r.track)
    [] r.op = "import" ->
         collections
         \o SelectSeq(FavoritesThenPlaylists(r.favorites, r.playlists),
                      LAMBDA c : ~HasCollection(collections, c.id))

\* applyCollectionOperations
ApplyOperations(source, pending) ==
  FoldLeft(LAMBDA collections, item : ApplyOperation(collections, item.request),
           NormalCollections(source), pending)

\* applySnapshot: the account on the server under the items that wait.
ApplySnapshot(user, pending) ==
  [collections |-> ApplyOperations(CollectionsFromSnapshot(user), pending),
   pending     |-> pending]

(***************************************************************************)
(* replaceCollectionId: the server may give a new playlist another id than *)
(* the browser chose.                                                      *)
(***************************************************************************)
ReplaceCollectionId(cache, from, created) ==
  LET Renamed(r) ==
        IF "playlist" \notin DOMAIN r \/ r.playlist # from THEN r
        ELSE IF r.op = "create_playlist"
             THEN [r EXCEPT !.playlist = created.id, !.name = created.name]
             ELSE [r EXCEPT !.playlist = created.id]
  IN  [collections |->
         [i \in DOMAIN cache.collections |->
            IF cache.collections[i].id = from THEN created
            ELSE cache.collections[i]],
       pending |->
         [i \in DOMAIN cache.pending |->
            [cache.pending[i] EXCEPT !.request = Renamed(@)]]]
=============================================================================
