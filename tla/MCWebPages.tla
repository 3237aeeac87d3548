------------------------------ MODULE MCWebPages ------------------------------
(***************************************************************************)
(* Instances of WebPages for TLC.                                          *)
(***************************************************************************)
EXTENDS WebPages

CONSTANTS s, t, a, b

MCFiles == <<s, t>>

MCOnDisk == {s :> a @@ t :> b, s :> b @@ t :> None}

\* A chorus that is sung twice, a verse between, and a line without a time.
MCLyrics ==
  s :> <<[times |-> <<>>, text |-> "[tag:]"], [times |-> <<1, 3>>, text |-> "chorus"],
         [times |-> <<2>>, text |-> ""], [times |-> <<>>, text |-> "plain"]>>
  @@ t :> None

-----------------------------------------------------------------------------
Days == 4
Totals == UNION {[dates -> 0 .. 5] : dates \in SUBSET (1 .. Days)}

\* A day of the year has a colour exactly when something was heard on it,
\* and more is never paler.
ASSUME LevelsGrow ==
  \A totals \in Totals : \A d, e \in 1 .. Days :
    LET value(x) == IF x \in DOMAIN totals THEN totals[x] ELSE 0
    IN  /\ Level(totals, d) \in 0 .. 4
        /\ (Level(totals, d) = 0) <=> (value(d) = 0)
        /\ value(d) <= value(e) => Level(totals, d) <= Level(totals, e)

\* Where the clock is not ahead of UTC the heatmap shows every day of the
\* year, and colours as many as have records; where it is, the last day is
\* not shown, and the last of the year before is.
ASSUME HeatmapShowsTheYear ==
  /\ Range(HeatmapDates(Days, FALSE)) = 1 .. Days
  /\ Range(HeatmapDates(Days, TRUE)) = 0 .. Days - 1
  /\ \A totals \in Totals :
       LET cells == ListeningHeatmap(totals, Days, FALSE)
       IN  Cardinality({d \in 1 .. Days : cells[d] > 0}) =
           Cardinality({d \in DOMAIN totals : totals[d] > 0})
=============================================================================
