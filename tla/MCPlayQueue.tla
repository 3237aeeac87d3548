---------------------------- MODULE MCPlayQueue ----------------------------
(***************************************************************************)
(* Instances of PlayQueue for TLC.                                         *)
(***************************************************************************)
EXTENDS PlayQueue

CONSTANTS t1, t2, t3

ThreeTracks == {t1, t2, t3}

FewLists == {<<>>, <<t1, t2>>, <<t3, t2, t1>>}
=============================================================================
