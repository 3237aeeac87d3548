---------------------------- MODULE Collections ----------------------------
(***************************************************************************)
(* One account's favorites, playlists and playback mode, and what each     *)
(* request of the personal API does to them: the closures that             *)
(* server/internal/userdata/store.go runs on its clone of the account,     *)
(* with their refusals and their silent no-ops.  Pure operators: the       *)
(* server store (UserDataStore) and the player's synchronisation           *)
(* (CollectionsSync) both apply requests with them.                        *)
(*                                                                         *)
(* Identifiers and names are opaque values that are already normalised;    *)
(* time stamps are left out.  The limits are constants.                    *)
(***************************************************************************)
EXTENDS Naturals, Sequences, SequencesExt

CONSTANTS
  Tracks,             \* track ids
  PlaylistIds,        \* playlist ids, chosen by the clients
  Names,              \* playlist names
  MaxFavorites,       \* maxFavorites: favorites of one account
  MaxPlaylists,       \* maxPlaylists: playlists of one account
  MaxPlaylistTracks   \* maxPlaylistTracks: tracks of one playlist

ASSUME LimitsAssumption ==
  /\ MaxFavorites \in Nat
  /\ MaxPlaylists \in Nat
  /\ MaxPlaylistTracks \in Nat

PlaybackModes == {"sequential", "shuffle", "repeat_all", "repeat_one"}

Playlist == [id : PlaylistIds, name : Names, tracks : Seq(Tracks)]

UserData == [revision  : Nat,
             favorites : Seq(Tracks),
             playlists : Seq(Playlist),
             mode      : PlaybackModes]

\* Mutant of EmptyUser: the Go zero value, with no playback mode set.
EmptyUserWithoutMode == [revision  |-> 0,
                         favorites |-> <<>>,
                         playlists |-> <<>>,
                         mode      |-> ""]

\* An account the document has no entry for: revision 0, nothing in it.
EmptyUser == [revision  |-> 0,
              favorites |-> <<>>,
              playlists |-> <<>>,
              mode      |-> "sequential"]

(***************************************************************************)
(* Requests and outcomes.  An outcome is the account after the closure and *)
(* a status: "changed", "unchanged" (answered like a success), or the      *)
(* error that makes the store drop its clone.                              *)
(***************************************************************************)
Request ==
       [op : {"add_favorite", "remove_favorite"}, track : Tracks]
  \cup [op : {"create_playlist", "rename_playlist"},
        playlist : PlaylistIds, name : Names]
  \cup [op : {"delete_playlist"}, playlist : PlaylistIds]
  \cup [op : {"add_track", "remove_track"},
        playlist : PlaylistIds, track : Tracks]
  \cup [op : {"import"}, favorites : Seq(Tracks), playlists : Seq(Playlist)]
  \cup [op : {"set_playback_mode"}, mode : PlaybackModes]

Outcome(status, user) == [status |-> status, user |-> user]
Changed(user)         == Outcome("changed", user)
Unchanged(user)       == Outcome("unchanged", user)
Refused(user, error)  == Outcome(error, user)

-----------------------------------------------------------------------------
\* Position of the playlist with this id, 0 when there is none.
PlaylistIndex(playlists, id) ==
  SelectInSeq(playlists, LAMBDA p : p.id = id)

HasPlaylist(playlists, id) == PlaylistIndex(playlists, id) # 0

AddFavorite(user, track) ==
  IF Contains(user.favorites, track) THEN Unchanged(user)
  ELSE IF Len(user.favorites) >= MaxFavorites
       THEN Refused(user, "data_limit")
       ELSE Changed([user EXCEPT !.favorites = Append(@, track)])

RemoveFavorite(user, track) ==
  IF ~Contains(user.favorites, track) THEN Unchanged(user)
  ELSE Changed([user EXCEPT !.favorites = RemoveFirst(@, track)])

\* Mutant of CreatePlaylist: an id that exists is always a conflict.
CreatePlaylistOnce(user, id, name) ==
  IF HasPlaylist(user.playlists, id) THEN Refused(user, "conflict")
  ELSE IF Len(user.playlists) >= MaxPlaylists
       THEN Refused(user, "data_limit")
       ELSE Changed([user EXCEPT !.playlists =
                       Append(@, [id |-> id, name |-> name, tracks |-> <<>>])])

\* The same id with the same name is a retry and changes nothing; with
\* another name it is a conflict.  The retry test comes before the limit.
CreatePlaylist(user, id, name) ==
  LET i == PlaylistIndex(user.playlists, id) IN
  IF i # 0
  THEN IF user.playlists[i].name = name
       THEN Unchanged(user) ELSE Refused(user, "conflict")
  ELSE IF Len(user.playlists) >= MaxPlaylists
       THEN Refused(user, "data_limit")
       ELSE Changed([user EXCEPT !.playlists =
                       Append(@, [id |-> id, name |-> name, tracks |-> <<>>])])

RenamePlaylist(user, id, name) ==
  LET i == PlaylistIndex(user.playlists, id) IN
  IF i = 0 THEN Refused(user, "not_found")
  ELSE IF user.playlists[i].name = name THEN Unchanged(user)
  ELSE Changed([user EXCEPT !.playlists[i].name = name])

DeletePlaylist(user, id) ==
  LET i == PlaylistIndex(user.playlists, id) IN
  IF i = 0 THEN Refused(user, "not_found")
  ELSE Changed([user EXCEPT !.playlists = RemoveAt(@, i)])

AddPlaylistTrack(user, id, track) ==
  LET i == PlaylistIndex(user.playlists, id) IN
  IF i = 0 THEN Refused(user, "not_found")
  ELSE IF Contains(user.playlists[i].tracks, track) THEN Unchanged(user)
  ELSE IF Len(user.playlists[i].tracks) >= MaxPlaylistTracks
       THEN Refused(user, "data_limit")
       ELSE Changed([user EXCEPT !.playlists[i].tracks = Append(@, track)])

RemovePlaylistTrack(user, id, track) ==
  LET i == PlaylistIndex(user.playlists, id) IN
  IF i = 0 THEN Refused(user, "not_found")
  ELSE IF ~Contains(user.playlists[i].tracks, track) THEN Unchanged(user)
  ELSE Changed([user EXCEPT !.playlists[i].tracks = RemoveFirst(@, track)])

SetPlaybackMode(user, mode) ==
  IF user.mode = mode THEN Unchanged(user)
  ELSE Changed([user EXCEPT !.mode = mode])

-----------------------------------------------------------------------------
(***************************************************************************)
(* Import: the union of the account and an older library.  The code walks  *)
(* both lists on the clone and gives everything up at the first one that   *)
(* would pass a limit, so nothing of a refused import is kept.             *)
(***************************************************************************)

\* Mutant of AppendMissing: repetitions are not looked for.
AppendAll(known, values) == known \o values

AppendOnce(seen, value) ==
  IF Contains(seen, value) THEN seen ELSE Append(seen, value)

\* known, followed by the values it lacks: each once, in order.
AppendMissing(known, values) == FoldLeft(AppendOnce, known, values)

\* normalizeImportedPlaylists: lists over a limit and repeated ids are
\* refused before the account is looked at.  The first playlist that is
\* wrong decides, and of that one its length.
ImportError(favorites, playlists) ==
  LET long(i)     == Len(playlists[i].tracks) > MaxPlaylistTracks
      repeated(i) == \E j \in DOMAIN playlists :
                       j < i /\ playlists[j].id = playlists[i].id
      wrong       == {i \in DOMAIN playlists : long(i) \/ repeated(i)}
  IN  IF Len(favorites) > MaxFavorites \/ Len(playlists) > MaxPlaylists
      THEN "data_limit"
      ELSE IF wrong = {} THEN "none"
      ELSE IF \E i \in wrong : long(i) /\ \A j \in wrong : i <= j
           THEN "data_limit" ELSE "invalid_playlist"

\* Mutant of MergedPlaylists: an imported playlist replaces the known one.
ReplacedPlaylists(known, imported) ==
  [i \in DOMAIN known |->
     IF HasPlaylist(imported, known[i].id)
     THEN imported[PlaylistIndex(imported, known[i].id)] ELSE known[i]]
  \o SelectSeq(imported, LAMBDA p : ~HasPlaylist(known, p.id))

\* One imported playlist: its tracks join the playlist of that id, or it
\* becomes a playlist of its own, without repetitions.
MergePlaylist(playlists, imported) ==
  LET i == PlaylistIndex(playlists, imported.id) IN
  IF i = 0
  THEN Append(playlists, [id     |-> imported.id,
                          name   |-> imported.name,
                          tracks |-> AppendMissing(<<>>, imported.tracks)])
  ELSE [playlists EXCEPT ![i].tracks = AppendMissing(@, imported.tracks)]

MergedPlaylists(known, imported) == FoldLeft(MergePlaylist, known, imported)

ImportCollections(user, favorites, playlists) ==
  LET error  == ImportError(favorites, playlists)
      merged == [revision  |-> user.revision,
                 favorites |-> AppendMissing(user.favorites, favorites),
                 playlists |-> MergedPlaylists(user.playlists, playlists),
                 mode      |-> user.mode]
      overflows ==
        \/ Len(merged.favorites) > MaxFavorites
        \/ Len(merged.playlists) > MaxPlaylists
        \/ \E i \in DOMAIN merged.playlists :
             Len(merged.playlists[i].tracks) > MaxPlaylistTracks
  IN  IF error # "none" THEN Refused(user, error)
      ELSE IF overflows THEN Refused(user, "data_limit")
      ELSE IF merged = user THEN Unchanged(user)
      ELSE Changed(merged)

-----------------------------------------------------------------------------
\* What the store's closure for this request does to an account.
Apply(user, r) ==
  CASE r.op = "add_favorite"      -> AddFavorite(user, r.track)
    [] r.op = "remove_favorite"   -> RemoveFavorite(user, r.track)
    [] r.op = "create_playlist"   -> CreatePlaylist(user, r.playlist, r.name)
    [] r.op = "rename_playlist"   -> RenamePlaylist(user, r.playlist, r.name)
    [] r.op = "delete_playlist"   -> DeletePlaylist(user, r.playlist)
    [] r.op = "add_track"    -> AddPlaylistTrack(user, r.playlist, r.track)
    [] r.op = "remove_track" -> RemovePlaylistTrack(user, r.playlist, r.track)
    [] r.op = "import"       -> ImportCollections(user, r.favorites, r.playlists)
    [] r.op = "set_playback_mode" -> SetPlaybackMode(user, r.mode)

\* A change of an account is a new revision of it.
NextRevision(user) == [user EXCEPT !.revision = @ + 1]

(***************************************************************************)
(* validateDocument for one account.  Repeated tracks are not looked for:  *)
(* the code's normalisation would drop them without an error.              *)
(***************************************************************************)
ValidUser(user) ==
  /\ user.favorites \in Seq(Tracks)
  /\ Len(user.favorites) <= MaxFavorites
  /\ user.playlists \in Seq(Playlist)
  /\ Len(user.playlists) <= MaxPlaylists
  /\ \A i \in DOMAIN user.playlists :
       Len(user.playlists[i].tracks) <= MaxPlaylistTracks
  /\ \A i, j \in DOMAIN user.playlists :
       user.playlists[i].id = user.playlists[j].id => i = j
  /\ user.mode \in PlaybackModes
=============================================================================
