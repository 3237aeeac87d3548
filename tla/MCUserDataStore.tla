-------------------------- MODULE MCUserDataStore --------------------------
(***************************************************************************)
(* Instances of UserDataStore for TLC.                                     *)
(***************************************************************************)
EXTENDS UserDataStore

CONSTANTS alice, bob, t1, t2, p1, p2, n1, n2

MCTracks == {t1, t2}
MCPlaylistIds == {p1, p2}
MCNames == {n1, n2}

\* An older library: a repeated favorite, one playlist under another name
\* than the account may know it by, and one more playlist.
Import ==
  [op |-> "import", favorites |-> <<t2, t2>>,
   playlists |-> <<[id |-> p1, name |-> n2, tracks |-> <<t2, t1>>],
                   [id |-> p2, name |-> n1, tracks |-> <<t1>>]>>]

\* Every kind of request, on two tracks, two playlists and two names.
AllKinds ==
       [op : {"add_favorite", "remove_favorite"}, track : MCTracks]
  \cup [op : {"create_playlist", "rename_playlist"},
        playlist : {p1}, name : MCNames]
  \cup [op : {"create_playlist"}, playlist : {p2}, name : {n1}]
  \cup [op : {"delete_playlist"}, playlist : MCPlaylistIds]
  \cup [op : {"add_track", "remove_track"}, playlist : {p1}, track : MCTracks]
  \cup [op : {"add_track"}, playlist : {p2}, track : {t2}]
  \cup [op : {"set_playback_mode"}, mode : {"sequential", "shuffle"}]
  \cup {Import}

\* Enough to make two accounts differ, for the runs about lost power.
FavoritesOnly ==
  [op : {"add_favorite", "remove_favorite"}, track : MCTracks]
=============================================================================
