-------------------------- MODULE MCWebCollections --------------------------
(***************************************************************************)
(* Instances of WebCollections for TLC.                                    *)
(***************************************************************************)
EXTENDS WebCollections

CONSTANTS alice, bob, t1, p1, n1, n2

\* The one track the user has marked before there were accounts.
MCLegacyFavorites == <<t1>>

\* No older data.
Nothing == <<>>

\* The other device deletes the playlist, or gives it its second name.
OtherDeletesOrRenames ==
  [op : {"delete_playlist"}, playlist : {p1}]
  \cup [op : {"rename_playlist"}, playlist : {p1}, name : {n2}]
=============================================================================
