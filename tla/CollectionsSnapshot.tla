------------------------ MODULE CollectionsSnapshot ------------------------
(***************************************************************************)
(* What the player app keeps of an account (CollectionsSnapshot), and what *)
(* a change does to it before the server has answered: _applyOutbox of     *)
(* apps/player/lib/features/collections/application/                       *)
(* collections_controller.dart.  Pure operators.                           *)
(***************************************************************************)
EXTENDS Collections

Snapshot == [favorites : Seq(Tracks), playlists : Seq(Playlist)]

EmptySnapshot == [favorites |-> <<>>, playlists |-> <<>>]

\* The answer of GET /me/collections.
SnapshotOf(user) == [favorites |-> user.favorites, playlists |-> user.playlists]

\* The request that hands a legacy snapshot to the server.
ImportRequest(legacy) ==
  [op |-> "import", favorites |-> legacy.favorites,
   playlists |-> legacy.playlists]

-----------------------------------------------------------------------------
KeepUnless(gone, kept, value) ==
  IF value \in gone THEN kept ELSE Append(kept, value)

\* where: the values that are not to go, in their order.
Without(values, gone) ==
  FoldLeft(LAMBDA kept, value : KeepUnless(gone, kept, value), <<>>, values)

UpdatePlaylist(snapshot, id, Update(_)) ==
  [snapshot EXCEPT !.playlists =
     [i \in DOMAIN @ |-> IF @[i].id = id THEN Update(@[i]) ELSE @[i]]]

(***************************************************************************)
(* What one outbox item does to a snapshot on the device: never an error,  *)
(* and nothing when the playlist is not there.                             *)
(***************************************************************************)
Optimistic(snapshot, r) ==
  CASE r.op = "add_favorite" ->
         [snapshot EXCEPT !.favorites = AppendOnce(@, r.track)]
    [] r.op = "remove_favorite" ->
         [snapshot EXCEPT !.favorites = Without(@, {r.track})]
    [] r.op = "create_playlist" ->
         IF HasPlaylist(snapshot.playlists, r.playlist) THEN snapshot
         ELSE [snapshot EXCEPT !.playlists = Append(@,
                 [id |-> r.playlist, name |-> r.name, tracks |-> <<>>])]
    [] r.op = "rename_playlist" ->
         UpdatePlaylist(snapshot, r.playlist,
                        LAMBDA p : [p EXCEPT !.name = r.name])
    [] r.op = "delete_playlist" ->
         [snapshot EXCEPT !.playlists =
            Without(@, {p \in Range(@) : p.id = r.playlist})]
    [] r.op = "add_track" ->
         UpdatePlaylist(snapshot, r.playlist,
                        LAMBDA p : [p EXCEPT !.tracks = AppendOnce(@, r.track)])
    [] r.op = "remove_track" ->
         UpdatePlaylist(snapshot, r.playlist,
                        LAMBDA p : [p EXCEPT !.tracks = Without(@, {r.track})])

ApplyOutbox(snapshot, outbox) == FoldLeft(Optimistic, snapshot, outbox)
=============================================================================
