------------------------------ MODULE WebScreens ------------------------------
(***************************************************************************)
(* What the pages and the drawers of the web app draw for a state: the     *)
(* parts of each that are shown, and which of their buttons can be used    *)
(* (apps/web/web/src/pages and components).                                *)
(***************************************************************************)
EXTENDS Naturals, Sequences, FiniteSets, SequencesExt, WebLyrics

CONSTANT None

\* The parts whose condition holds.
Parts(shown) == {part \in DOMAIN shown : shown[part]}

-----------------------------------------------------------------------------
(***************************************************************************)
(* The discovery and the report.                                           *)
(***************************************************************************)
DiscoveryBody(shelf) ==
  Parts([error    |-> shelf.failed,
         skeleton |-> ~shelf.failed /\ shelf.loading /\ shelf.data = None,
         shelves  |-> ~shelf.failed /\ shelf.data # None])

\* Its skeleton does not ask for the error.
ReportBody(shelf) ==
  Parts([error    |-> shelf.failed,
         skeleton |-> shelf.loading /\ shelf.data = None,
         report   |-> ~shelf.failed /\ shelf.data # None])

\* The colour of a day of the heatmap, for totals in [dates -> Nat].
Level(totals, day) ==
  LET maximum == Max({1} \cup Range(totals))
      value   == IF day \in DOMAIN totals THEN totals[day] ELSE 0
      quarter == (4 * value + maximum - 1) \div maximum
  IN  IF value = 0 THEN 0 ELSE Min({4, Max({1, quarter})})

\* The date of each cell.  The loop goes through the local midnights of the
\* year, and labels each with its date in UTC: east of Greenwich that is the
\* day before.  The days of the year are numbered from 1.
HeatmapDates(days, east) == [d \in 1 .. days |-> IF east THEN d - 1 ELSE d]

ListeningHeatmap(totals, days, east) ==
  [d \in 1 .. days |-> Level(totals, HeatmapDates(days, east)[d])]

-----------------------------------------------------------------------------
(***************************************************************************)
(* The management page.                                                    *)
(***************************************************************************)
ScanInProgress(page) ==
  page.scanning \/ (page.status # None /\ page.status.scanning)

\* The button of the scan; only "start" can be clicked.
ScanButton(page) ==
  IF page.scanning THEN "scanning"
  ELSE IF ScanInProgress(page) THEN "server scans" ELSE "start"

StatusCard(page) ==
  Parts([error     |-> page.failed,
         scans     |-> ~page.failed /\ page.status # None /\ page.status.scanning,
         idle      |-> ~page.failed /\ page.status # None /\ ~page.status.scanning,
         reading   |-> ~page.failed /\ page.status = None])

ScrapeTracks(tracks, term) ==
  IF term = None THEN tracks
  ELSE SelectSeq(tracks, LAMBDA t : term \in {t.id, t.album})

\* The selection is an id, which a scan may have taken away.
SelectedScrapeTrack(tracks, selected) ==
  LET known == SelectSeq(tracks, LAMBDA t : t.id = selected)
  IN  IF known = <<>> THEN None ELSE Head(known).id

\* The workbench, and the track its button opens; this need not be among the
\* tracks that are found.
Workbench(tracks, term, selected) ==
  [body  |-> IF tracks = <<>> THEN "empty"
             ELSE IF term # None /\ ScrapeTracks(tracks, term) = <<>>
                  THEN "not found" ELSE "tracks",
   opens |-> SelectedScrapeTrack(tracks, selected)]

-----------------------------------------------------------------------------
(***************************************************************************)
(* The drawers.                                                            *)
(***************************************************************************)
\* The lines are lit and can be clicked when one of them has a time.
Synced(lines) == \E i \in DOMAIN lines : lines[i].time # Plain

\* activeIndex: 0 while another track plays.
ActiveLine(drawer, playing, now) ==
  IF drawer.track = playing /\ Synced(drawer.lines)
  THEN ActiveLyricIndex(drawer.lines, now) ELSE 0

LyricsBody(drawer) ==
  Parts([loading |-> drawer.state = "loading",
         empty   |-> drawer.state = "empty",
         error   |-> drawer.state = "error",
         synced  |-> drawer.state = "ready" /\ Synced(drawer.lines),
         plain   |-> drawer.state = "ready" /\ ~Synced(drawer.lines)])

\* The button below an error, or where nothing was found, searches again.
ScrapeBody(drawer) ==
  Parts([loading    |-> drawer.state = "loading",
         error      |-> drawer.state = "error",
         empty      |-> drawer.state = "ready" /\ drawer.of = None,
         candidates |-> drawer.state = "ready" /\ drawer.of # None])
=============================================================================
