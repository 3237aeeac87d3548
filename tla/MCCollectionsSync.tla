------------------------- MODULE MCCollectionsSync -------------------------
(***************************************************************************)
(* Instances of CollectionsSync for TLC.                                   *)
(***************************************************************************)
EXTENDS CollectionsSync

CONSTANTS alice, bob, t1, t2, p1, n1, n2

MCTracks == {t1, t2}
MCNames == {n1, n2}

\* Every kind of change, on one playlist and one of two tracks.
AllChanges ==
       [op : {"add_favorite", "remove_favorite"}, track : {t1}]
  \cup [op : {"create_playlist"}, playlist : {p1}, name : {n1}]
  \cup [op : {"rename_playlist"}, playlist : {p1}, name : {n2}]
  \cup [op : {"delete_playlist"}, playlist : {p1}]
  \cup [op : {"add_track", "remove_track"}, playlist : {p1}, track : {t1}]

\* The other device takes limited places, and undoes, deletes and renames.
OtherAll ==
       [op : {"add_favorite"}, track : {t2}]
  \cup [op : {"remove_favorite"}, track : {t1}]
  \cup [op : {"rename_playlist"}, playlist : {p1}, name : {n2}]
  \cup [op : {"delete_playlist"}, playlist : {p1}]
  \cup [op : {"add_track"}, playlist : {p1}, track : {t2}]

\* The accounts are alike.
AccountSymmetry == Permutations({alice, bob})

OneFavorite == [op : {"add_favorite", "remove_favorite"}, track : {t1}]
=============================================================================
