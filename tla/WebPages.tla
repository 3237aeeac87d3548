------------------------------- MODULE WebPages -------------------------------
(***************************************************************************)
(* The pages of the web app once a user has signed in: the library, the    *)
(* shelves of the discovery and the report, the management page with the   *)
(* scan of the music library, and the drawers for the lyrics and for the   *)
(* metadata of a track (apps/web/src and apps/web/web/src); and the        *)
(* library of the server (server/internal/httpapi/library_management.go).  *)
(*                                                                         *)
(* A handler of a page runs to its next await.  A drawer covers the whole  *)
(* page, so that nothing else is clicked while one is open.  The service   *)
(* that finds and applies metadata is not part of the server here: it is   *)
(* modelled from what the page asks of it.                                 *)
(***************************************************************************)
EXTENDS WebScreens

CONSTANTS
  Files,       \* the tracks that may be on disk, in the order of the lists
  Albums,      \* the albums their tags name
  OnDisk,      \* what a scan may find: [tracks -> album of its tags, or None]
  Lyrics,      \* [tracks -> the lyrics file, or None]
  Shelves,     \* the pages that are loaded as they are entered:
               \* "discovery", "report" or both
  MaxCalls,    \* bound on the requests under way
  MaxClicks,   \* bound on clicks that ask the server for something
  MaxFaults    \* bound on lost calls and failed scans

Tracks == Range(Files)

ASSUME PagesAssumption ==
  /\ {MaxCalls, MaxClicks, MaxFaults} \subseteq Nat
  /\ None \notin Tracks \cup Albums
  /\ OnDisk \subseteq [Tracks -> Albums \cup {None}]
  /\ Shelves \subseteq {"discovery", "report"}

VARIABLES
  library,   \* the tracks the server has in its list
  scanner,   \* the scan the server is running
  list,      \* App: tracks, tracksLoading, tracksError
  view,      \* App: view
  shelves,   \* App: discovery and report, with their loading and error
  manage,    \* the state of ManagementPage, which it loses as it is left
  lyrics,    \* the state of LyricsDrawer
  drawer,    \* the state of ScrapeDrawer
  calls,     \* requests under way
  mixed,     \* kinds of requests whose answers may be out of order
  count      \* how often the bounded things happened

server == <<library, scanner>>
pages  == <<list, view, shelves, manage, lyrics, drawer>>
vars   == <<server, pages, calls, mixed, count>>

Views == Shelves \cup {"library", "management"}
Kinds == Shelves \cup {"tracks", "status", "scan", "lyrics", "search", "apply"}

-----------------------------------------------------------------------------
(***************************************************************************)
(* The library.                                                            *)
(***************************************************************************)
Has(tags) == {t \in Tracks : tags[t] # None}

\* A list of the tracks, as ListTracks sorts it.
Listing(tags) ==
  LET known == SelectSeq(Files, LAMBDA t : tags[t] # None)
  IN  [i \in DOMAIN known |-> [id |-> known[i], album |-> tags[known[i]]]]

Ids(tracks) == {tracks[i].id : i \in DOMAIN tracks}

-----------------------------------------------------------------------------
Counted(what) == count' = [count EXCEPT ![what] = @ + 1]
Room(n) == Cardinality(calls) + n <= MaxCalls
Click == count.clicks < MaxClicks /\ Counted("clicks")

Numbers(pending) == {c.n : c \in pending}

\* requestJson.  A call remembers the visit of the page that made it.
Sent(pending, kind, track) ==
  pending \cup
    {[n |-> CHOOSE n \in 1 .. MaxCalls : n \notin Numbers(pending),
      kind |-> kind, track |-> track, visit |-> manage.visit,
      cancelled |-> FALSE, seen |-> None, reply |-> None]}

NewList == [tracks |-> <<>>, loading |-> TRUE, failed |-> FALSE]
Ready == [data |-> None, loading |-> FALSE, failed |-> FALSE]

\* ManagementPage as it is mounted for the nth time.
NewVisit(n) ==
  [visit |-> n, scanning |-> FALSE, awaits |-> {}, status |-> None,
   result |-> None, loading |-> TRUE, failed |-> FALSE, scanFailed |-> FALSE]

Loading == [list EXCEPT !.loading = TRUE, !.failed = FALSE]

Init ==
  /\ library \in OnDisk
  /\ scanner = [phase |-> "idle", call |-> None, found |-> None, failed |-> FALSE]
  /\ list = NewList
  /\ view = "library"
  /\ shelves = [s \in Shelves |-> Ready]
  /\ manage = [NewVisit(0) EXCEPT !.loading = FALSE]
  /\ lyrics = [track |-> None, state |-> "loading", lines |-> <<>>]
  /\ drawer = [track |-> None, state |-> "loading",
               of |-> None, applying |-> None]
  /\ calls = {[n |-> 1, kind |-> "tracks", track |-> None, visit |-> 0,
               cancelled |-> FALSE, seen |-> None, reply |-> None]}
  /\ mixed = {}
  /\ count = [clicks |-> 0, faults |-> 0]

-----------------------------------------------------------------------------
(***************************************************************************)
(* The clicks.                                                             *)
(***************************************************************************)
NoDrawer == lyrics.track = None /\ drawer.track = None

\* refreshTracks, by its button.
RefreshTracks ==
  /\ view = "library" /\ NoDrawer /\ Click /\ Room(1)
  /\ list' = Loading
  /\ calls' = Sent(calls, "tracks", None)
  /\ UNCHANGED <<server, view, shelves, manage, lyrics, drawer>>

\* refreshDiscovery or refreshReport, by a button or by entering the view.
RefreshShelf(s) ==
  /\ shelves' = [shelves EXCEPT ![s].loading = TRUE, ![s].failed = FALSE]
  /\ calls' = Sent(calls, s, None)

ClickShelf(s) ==
  /\ view = s /\ NoDrawer /\ Click /\ Room(1)
  /\ RefreshShelf(s)
  /\ UNCHANGED <<server, list, view, manage, lyrics, drawer>>

\* navigate.  The management page is mounted anew and asks for the status.
Navigate(to) ==
  /\ view # to /\ NoDrawer /\ Click /\ Room(1)
  /\ view' = to
  /\ \/ to \in Shelves /\ RefreshShelf(to) /\ UNCHANGED manage
     \/ /\ to = "management"
        /\ manage' = NewVisit(manage.visit + 1)
        /\ calls' = {[c EXCEPT !.visit = manage.visit + 1] :
                       c \in Sent(calls, "status", None) \ calls} \cup calls
        /\ UNCHANGED shelves
     \/ to = "library" /\ UNCHANGED <<shelves, manage, calls>>
  /\ UNCHANGED <<server, list, lyrics, drawer>>

RefreshStatus ==
  /\ view = "management" /\ NoDrawer /\ ~manage.loading /\ Click /\ Room(1)
  /\ manage' = [manage EXCEPT !.loading = TRUE, !.failed = FALSE]
  /\ calls' = Sent(calls, "status", None)
  /\ UNCHANGED <<server, list, view, shelves, lyrics, drawer>>

\* scan, up to its first await.
ClickScan ==
  /\ view = "management" /\ NoDrawer /\ ScanButton(manage) = "start" /\ Click /\ Room(1)
  /\ manage' = [manage EXCEPT !.scanning = TRUE, !.scanFailed = FALSE,
                              !.status = IF @ = None THEN None
                                         ELSE [@ EXCEPT !.scanning = TRUE]]
  /\ calls' = Sent(calls, "scan", None)
  /\ UNCHANGED <<server, list, view, shelves, lyrics, drawer>>

\* A row offers its track, and the workbench the one that is selected,
\* whatever has been searched for.
Offered(t) ==
  \/ view = "library" /\ t \in Ids(list.tracks)
  \/ /\ view = "management"
     /\ \E term \in Tracks \cup Albums \cup {None} :
          LET bench == Workbench(list.tracks, term, t)
          IN  bench.body # "empty" /\ bench.opens = t

\* By a row, or by the workbench of the management page.  The drawer
\* searches at once.
OpenScrape(t) ==
  /\ NoDrawer /\ Offered(t) /\ Click /\ Room(1)
  /\ drawer' = [drawer EXCEPT !.track = t, !.state = "loading"]
  /\ calls' = Sent(calls, "search", t)
  /\ UNCHANGED <<server, list, view, shelves, manage, lyrics>>

\* The search again, with other words, after an error or for more candidates.
SearchAgain ==
  /\ drawer.track # None /\ Click /\ Room(1)
  /\ drawer' = [drawer EXCEPT !.state = "loading"]
  /\ calls' = Sent(calls, "search", drawer.track)
  /\ UNCHANGED <<server, list, view, shelves, manage, lyrics>>

\* apply.  A candidate is the album it names; one that names nothing has no
\* fields, and its button is disabled.
ApplyCandidate(candidate) ==
  /\ drawer.track # None /\ drawer.applying = None
  /\ ScrapeBody(drawer) = {"candidates"}
  /\ Click /\ Room(1)
  /\ drawer' = [drawer EXCEPT !.applying = candidate]
  /\ calls' = {IF c \in calls THEN c ELSE [c EXCEPT !.seen = candidate] :
                 c \in Sent(calls, "apply", drawer.track)}
  /\ UNCHANGED <<server, list, view, shelves, manage, lyrics>>

CloseScrape ==
  /\ drawer.track # None
  /\ drawer' = [drawer EXCEPT !.track = None]
  /\ UNCHANGED <<server, list, view, shelves, manage, lyrics, calls, count>>

\* Mutant of Cancelled: the effect has no cleanup.
CancelledNever(pending) == pending

\* The cleanup of the effect of LyricsDrawer.
Cancelled(pending) ==
  {IF c.kind = "lyrics" THEN [c EXCEPT !.cancelled = TRUE] ELSE c : c \in pending}

\* By a row of the library, or by the bar of the player, which stays below
\* every page; the list need not have the track that plays any more.
OpenLyrics(t) ==
  /\ NoDrawer /\ Click /\ Room(1)
  /\ lyrics' = [lyrics EXCEPT !.track = t, !.state = "loading"]
  /\ calls' = Sent(Cancelled(calls), "lyrics", t)
  /\ UNCHANGED <<server, list, view, shelves, manage, drawer>>

CloseLyrics ==
  /\ lyrics.track # None
  /\ lyrics' = [lyrics EXCEPT !.track = None]
  /\ calls' = Cancelled(calls)
  /\ UNCHANGED <<server, list, view, shelves, manage, drawer, count>>

-----------------------------------------------------------------------------
(***************************************************************************)
(* The server.                                                             *)
(***************************************************************************)
Reply(ok, value) == [ok |-> ok, value |-> value]

Answer(c, reply) ==
  calls' = (calls \ {c}) \cup {[c EXCEPT !.reply = reply]}

AnswerScan(reply) ==
  calls' = {IF c.n = scanner.call THEN [c EXCEPT !.reply = reply] ELSE c :
              c \in calls}

\* Scan refuses a second one, with a 409.
BeginScan(c) ==
  /\ c.kind = "scan" /\ c.reply = None /\ scanner.call # c.n
  /\ IF scanner.phase = "idle"
     THEN /\ scanner' = [scanner EXCEPT !.phase = "reading", !.call = c.n]
          /\ UNCHANGED calls
     ELSE Answer(c, Reply(FALSE, None)) /\ UNCHANGED scanner
  /\ UNCHANGED <<library, count>>

ReadFiles ==
  /\ scanner.phase = "reading"
  /\ \E found \in OnDisk :
       scanner' = [scanner EXCEPT !.phase = "found", !.found = found]
  /\ UNCHANGED <<library, calls, count>>

ReplaceTracks ==
  /\ scanner.phase = "found"
  /\ library' = scanner.found
  /\ scanner' = [scanner EXCEPT !.phase = "replaced"]
  /\ UNCHANGED <<calls, count>>

\* recordScanSuccess and finishScan.
FinishScan ==
  /\ scanner.phase = "replaced"
  /\ scanner' = [phase |-> "idle", call |-> None, found |-> None, failed |-> FALSE]
  /\ AnswerScan(Reply(TRUE, Cardinality(Has(library))))
  /\ UNCHANGED <<library, count>>

\* The scan fails, or its client is gone and the context cancelled.
FailScan ==
  /\ scanner.phase \in {"reading", "found"}
  /\ \/ scanner.call = None /\ UNCHANGED count
     \/ count.faults < MaxFaults /\ Counted("faults")
  /\ scanner' = [phase |-> "idle", call |-> None, found |-> None, failed |-> TRUE]
  /\ AnswerScan(Reply(FALSE, None))
  /\ UNCHANGED library

\* Status counts the tracks, and then locks the rest of the status.
CountTracks(c) ==
  /\ c.kind = "status" /\ c.reply = None /\ c.seen = None
  /\ calls' = (calls \ {c}) \cup {[c EXCEPT !.seen = Cardinality(Has(library))]}
  /\ UNCHANGED <<server, count>>

ReadStatus(c) ==
  /\ c.kind = "status" /\ c.reply = None /\ c.seen # None
  /\ Answer(c, Reply(TRUE, [count |-> c.seen, scanning |-> scanner.phase # "idle",
                            failed |-> scanner.failed]))
  /\ UNCHANGED <<server, count>>

\* The other requests are answered from the library as it is.
Serve(c) ==
  /\ c.reply = None
  /\ \/ /\ c.kind = "tracks"
        /\ Answer(c, Reply(TRUE, Listing(library))) /\ UNCHANGED server
     \/ /\ c.kind \in Shelves
        /\ Answer(c, Reply(TRUE, "shelf")) /\ UNCHANGED server
     \/ /\ c.kind = "lyrics"
        /\ UNCHANGED server
        /\ Answer(c, Reply(TRUE, IF library[c.track] = None THEN None
                                 ELSE Lyrics[c.track]))
     \/ /\ c.kind = "search"
        /\ \E found \in {c.track, None} : Answer(c, Reply(TRUE, found))
        /\ UNCHANGED server
     \/ /\ c.kind = "apply" /\ library[c.track] # None
        /\ library' = [library EXCEPT ![c.track] = c.seen]
        /\ Answer(c, Reply(TRUE, None)) /\ UNCHANGED scanner
     \/ /\ c.kind = "apply" /\ library[c.track] = None
        /\ Answer(c, Reply(FALSE, None)) /\ UNCHANGED server
  /\ UNCHANGED count

\* A request or its answer is lost, or it times out.
Lose(c) ==
  /\ c.reply # None => c.reply.ok
  /\ count.faults < MaxFaults /\ Counted("faults")
  /\ Answer(c, Reply(FALSE, None))
  /\ scanner' = IF scanner.call = c.n THEN [scanner EXCEPT !.call = None]
                ELSE scanner
  /\ UNCHANGED <<library, pages>>

Server ==
  /\ \/ \E c \in calls : BeginScan(c) \/ CountTracks(c) \/ ReadStatus(c) \/ Serve(c)
     \/ ReadFiles \/ ReplaceTracks \/ FinishScan \/ FailScan
  /\ UNCHANGED pages

-----------------------------------------------------------------------------
(***************************************************************************)
(* An answer, or a failure, reaches the handler that awaits it.            *)
(***************************************************************************)
\* scan goes on to await the refreshes, and ends with the last of them.
Done(n, page) ==
  LET rest == page.awaits \ {n} IN
  [page EXCEPT !.awaits = rest,
               !.scanning = @ /\ (n \in page.awaits => rest # {})]

\* Mutant of ListReceived: a failure leaves the page loading.
ListReceivedEndlessly(c) ==
  list' = IF c.reply.ok THEN [list EXCEPT !.tracks = c.reply.value, !.loading = FALSE]
          ELSE [list EXCEPT !.failed = TRUE]

ListReceived(c) ==
  list' = IF c.reply.ok THEN [list EXCEPT !.tracks = c.reply.value, !.loading = FALSE]
          ELSE [list EXCEPT !.failed = TRUE, !.loading = FALSE]

ShelfReceived(s, c) ==
  shelves' = [shelves EXCEPT ![s].loading = FALSE,
                             ![s].data = IF c.reply.ok THEN c.reply.value ELSE @,
                             ![s].failed = @ \/ ~c.reply.ok]

StatusReceived(c) ==
  manage' = IF c.visit # manage.visit THEN manage
            ELSE Done(c.n, [manage EXCEPT !.loading = FALSE,
                              !.status = IF c.reply.ok THEN c.reply.value ELSE @,
                              !.failed = @ \/ ~c.reply.ok])

\* What scan loads again when it is over.
Refreshes(ok) == IF ok THEN {"tracks", "status"} ELSE {"status"}

ScanReceived(c, rest) ==
  LET again == Refreshes(c.reply.ok)
      first == IF "tracks" \in again THEN Sent(rest, "tracks", None) ELSE rest
      sent == IF "status" \in again THEN Sent(first, "status", None) ELSE first
  IN  /\ Cardinality(rest) + Cardinality(again) <= MaxCalls
      /\ calls' = {IF k \in rest THEN k ELSE [k EXCEPT !.visit = c.visit] : k \in sent}
      /\ list' = IF "tracks" \in again THEN Loading ELSE list
      /\ manage' = IF c.visit # manage.visit THEN manage
                   ELSE [manage EXCEPT !.awaits = Numbers(sent) \ Numbers(rest),
                           !.scanning = again # {},
                           !.loading = @ \/ "status" \in again,
                           !.failed = @ /\ "status" \notin again,
                           !.result = IF c.reply.ok THEN c.reply.value ELSE @,
                           !.scanFailed = ~c.reply.ok]

LyricsReceived(c) ==
  lyrics' = IF c.cancelled THEN lyrics
            ELSE [lyrics EXCEPT
                    !.state = IF ~c.reply.ok THEN "error"
                              ELSE IF c.reply.value = None THEN "empty" ELSE "ready",
                    !.lines = IF c.reply.ok /\ c.reply.value # None
                              THEN ParseLyrics(c.reply.value) ELSE @]

\* Nothing tells whether the drawer is still open for the same track.
SearchReceived(c) ==
  drawer' = IF c.reply.ok
            THEN [drawer EXCEPT !.state = "ready", !.of = c.reply.value]
            ELSE [drawer EXCEPT !.state = "error"]

\* Mutant of Applied: the list is not loaded again.
AppliedOnly(rest) ==
  drawer' = [drawer EXCEPT !.track = None, !.applying = None]
  /\ calls' = rest /\ UNCHANGED list

\* onApplied and onClose, whichever track the drawer is open for.
Applied(rest) ==
  /\ drawer' = [drawer EXCEPT !.track = None, !.applying = None]
  /\ list' = Loading
  /\ calls' = Sent(rest, "tracks", None)

Receive(c) ==
  LET rest == calls \ {c} IN
  /\ c \in calls /\ c.reply # None
  /\ \/ /\ c.kind = "tracks" /\ ListReceived(c) /\ calls' = rest
        /\ manage' = Done(c.n, manage)
        /\ UNCHANGED <<shelves, lyrics, drawer>>
     \/ /\ c.kind \in Shelves /\ ShelfReceived(c.kind, c) /\ calls' = rest
        /\ UNCHANGED <<list, manage, lyrics, drawer>>
     \/ /\ c.kind = "status" /\ StatusReceived(c) /\ calls' = rest
        /\ UNCHANGED <<list, shelves, lyrics, drawer>>
     \/ /\ c.kind = "scan" /\ ScanReceived(c, rest)
        /\ UNCHANGED <<shelves, lyrics, drawer>>
     \/ /\ c.kind = "lyrics" /\ LyricsReceived(c) /\ calls' = rest
        /\ UNCHANGED <<list, shelves, manage, drawer>>
     \/ /\ c.kind = "search" /\ SearchReceived(c) /\ calls' = rest
        /\ UNCHANGED <<list, shelves, manage, lyrics>>
     \/ /\ c.kind = "apply" /\ c.reply.ok /\ Applied(rest)
        /\ UNCHANGED <<shelves, manage, lyrics>>
     \/ /\ c.kind = "apply" /\ ~c.reply.ok /\ calls' = rest
        /\ drawer' = [drawer EXCEPT !.state = "error", !.applying = None]
        /\ UNCHANGED <<list, shelves, manage, lyrics>>
  /\ UNCHANGED <<server, view, count>>

-----------------------------------------------------------------------------
Network == Server \/ \E c \in calls : Receive(c)

User ==
  \/ RefreshTracks \/ RefreshStatus \/ ClickScan \/ SearchAgain
  \/ CloseScrape \/ CloseLyrics
  \/ \E s \in Shelves : ClickShelf(s)
  \/ \E to \in Views : Navigate(to)
  \/ \E t \in Tracks : OpenScrape(t) \/ OpenLyrics(t)
  \/ \E candidate \in Albums : ApplyCandidate(candidate)

(***************************************************************************)
(* The page does not order the answers of one kind.  mixed remembers the   *)
(* kinds whose last answer may be an old one: those of which several were  *)
(* under way, those that a lost answer of a scan or an apply would have    *)
(* loaded again, and those that were asked for while a scan goes on that   *)
(* the page does not await.  The next request that is sent alone ends it.  *)
(***************************************************************************)
Group(kind, pending) ==
  {c \in pending : c.kind = kind /\ (kind = "status" => c.visit = manage'.visit)}

UnawaitedScan(running, pending) ==
  /\ running.phase # "idle"
  /\ \A c \in pending : c.n = running.call => c.visit # manage'.visit

EarlierScan(pending) == \E c \in pending : c.kind = "scan" /\ c.visit # manage'.visit

Remember(lost) ==
  LET ordered == {"tracks", "status", "search"}
      alone == {k \in ordered : Group(k, calls) = {} /\ Group(k, calls') # {}}
      several == {k \in ordered : Cardinality(Group(k, calls')) > 1}
      unawaited == IF UnawaitedScan(scanner', calls') THEN {"tracks", "status"} ELSE {}
      earlier == IF EarlierScan(calls') THEN {"status"} ELSE {}
  IN  mixed' = (mixed \ alone) \cup several \cup unawaited \cup earlier \cup lost

Reloads(kind) == IF kind \in {"scan", "apply"} THEN {"tracks", "status"} ELSE {}

Faults == \E c \in calls : Lose(c) /\ Remember(Reloads(c.kind))

Next == ((Network \/ User) /\ Remember({})) \/ Faults

\* Every request is answered or times out, and every scan ends.
Spec == Init /\ [][Next]_vars /\ WF_vars(Network /\ Remember({}))

-----------------------------------------------------------------------------
\* The shape of the state; a scan awaits only refreshes that are under way.
TypeOK ==
  /\ library \in [Tracks -> Albums \cup {None}]
  /\ scanner.phase \in {"idle", "reading", "found", "replaced"}
  /\ list.tracks \in Seq([id : Tracks, album : Albums])
  /\ view \in Views
  /\ lyrics.track \in Tracks \cup {None} /\ drawer.track \in Tracks \cup {None}
  /\ Cardinality(Numbers(calls)) = Cardinality(calls)
  /\ \A c \in calls : c.kind \in Kinds /\ c.visit <= manage.visit
  /\ manage.awaits \subseteq Numbers(calls)

Quiet == calls = {} /\ scanner.phase = "idle"

(***************************************************************************)
(* Once the page is quiet and shows no error, it lists the tracks of the   *)
(* server, whatever was scanned and applied and wherever the user went in  *)
(* the meantime, unless the list was last asked for while another request  *)
(* for it or a scan that was left was under way, or before the answer of a *)
(* scan or of an apply was lost.                                           *)
(***************************************************************************)
ListIsCurrent ==
  Quiet /\ ~list.failed /\ "tracks" \notin mixed =>
    list.tracks = Listing(library)

(***************************************************************************)
(* Likewise the status of the management page, so that a scan that has     *)
(* ended does not keep the next one from being started.  (The user may     *)
(* have left the page during a scan and come back, or lost its answer: the *)
(* status is right again once it is asked for after the scan.)  The result *)
(* that is shown below is of the last scan, unless an error says that this *)
(* failed.                                                                 *)
(***************************************************************************)
StatusIsCurrent ==
  /\ Quiet /\ view = "management" /\ ~manage.failed
  /\ "status" \notin mixed
  => /\ manage.status = [count |-> Cardinality(Has(library)), scanning |-> FALSE,
                         failed |-> scanner.failed]
     /\ manage.scanFailed \/ manage.result \in {None, manage.status.count}
     /\ ScanButton(manage) = "start"

(***************************************************************************)
(* The drawer never shows the lyrics of another track, however late the    *)
(* answers for the tracks that were open before come; it says that there   *)
(* are none only of a track without any, or one a scan may not have found. *)
(***************************************************************************)
LyricsAreOfTrack ==
  lyrics.track # None =>
    /\ lyrics.state = "ready" =>
         /\ Lyrics[lyrics.track] # None
         /\ lyrics.lines = ParseLyrics(Lyrics[lyrics.track])
    /\ lyrics.state = "empty" =>
         Lyrics[lyrics.track] = None \/ \E found \in OnDisk : found[lyrics.track] = None

(***************************************************************************)
(* The line that is lit is the last one to have begun, wherever its        *)
(* timestamp stands in the file; none is lit before the first.             *)
(***************************************************************************)
ActiveLineIsLatest ==
  lyrics.state = "ready" /\ lyrics.track # None /\ Lyrics[lyrics.track] # None =>
    LET content == Lyrics[lyrics.track]
        stamps == UNION {Range(content[i].times) : i \in DOMAIN content}
    IN  \A now \in stamps \cup {0} :
          LET begun == {s \in stamps : s <= now}
              active == ActiveLine(lyrics, lyrics.track, now)
          IN  IF begun = {} THEN active = 0
              ELSE /\ active # 0
                   /\ \A s \in begun : s <= lyrics.lines[active].time
                   /\ lyrics.lines[active].time <= now

(***************************************************************************)
(* The candidates that can be applied to a track were found for it, unless *)
(* two searches overlapped.                                                *)
(***************************************************************************)
CandidatesAreOfTrack ==
  drawer.track # None /\ drawer.state = "ready" /\ "search" \notin mixed =>
    drawer.of \in {drawer.track, None}

(***************************************************************************)
(* The discovery and the report are never blank and never say two things   *)
(* at once: each shows what it has, or that it loads, or that it failed,   *)
(* however its requests overlap and fail.                                  *)
(***************************************************************************)
OneBodyEach ==
  /\ view = "discovery" => Cardinality(DiscoveryBody(shelves[view])) = 1
  /\ view = "report" => Cardinality(ReportBody(shelves[view])) = 1

Awaited(kind) == \E c \in calls : c.kind = kind

(***************************************************************************)
(* The page says that the server scans, and keeps its button from being    *)
(* clicked, although nothing is under way that will end this.  It is so    *)
(* until the user refreshes the status, when the status was read during a  *)
(* scan that the page does not await, because it lost its answer or was    *)
(* left and entered again; when an older status came last; and when the    *)
(* status could not be read again after the scan.                          *)
(***************************************************************************)
ScansEndlessly ==
  ScanInProgress(manage) /\ ~manage.scanning /\ (manage.failed \/ "status" \in mixed)

(***************************************************************************)
(* A page says that it loads, reads or scans only while an answer that     *)
(* will end this is still to come, but for ScansEndlessly.                 *)
(***************************************************************************)
LoadingIsReal ==
  /\ list.loading => Awaited("tracks")
  /\ \A s \in Shelves : shelves[s].loading => Awaited(s)
  /\ view = "management" =>
       LET awaited(kinds) == \E c \in calls : c.kind \in kinds /\ c.visit = manage.visit
       IN  /\ manage.loading \/ "reading" \in StatusCard(manage) => awaited({"status"})
           /\ manage.scanning => manage.awaits # {} \/ awaited({"scan"})
           /\ ScanInProgress(manage) \/ "scans" \in StatusCard(manage) =>
                \/ manage.awaits # {} \/ awaited({"scan", "status"})
                \/ ScansEndlessly
  /\ lyrics.track # None /\ "loading" \in LyricsBody(lyrics) =>
       \E c \in calls : c.kind = "lyrics" /\ c.track = lyrics.track /\ ~c.cancelled
  /\ drawer.track # None /\ "loading" \in ScrapeBody(drawer) => Awaited("search")

(***************************************************************************)
(* What the invariants above say of the pages, of the drawers, and of what *)
(* is drawn.                                                               *)
(***************************************************************************)
PagesAreCurrent == ListIsCurrent /\ StatusIsCurrent
DrawersAreOfTheirTrack == LyricsAreOfTrack /\ ActiveLineIsLatest /\ CandidatesAreOfTrack
ScreensAreTrue == TypeOK /\ OneBodyEach /\ LoadingIsReal /\ DrawersAreOfTheirTrack

(***************************************************************************)
(* Every spinner stops but that of ScansEndlessly: again and again there   *)
(* is a moment at which neither the list, a shelf, the status, a scan nor  *)
(* an open drawer is waited for, and no other scan is shown.               *)
(***************************************************************************)
Settled ==
  /\ ~list.loading /\ ~manage.loading /\ ~manage.scanning
  /\ view = "management" /\ ScanInProgress(manage) => ScansEndlessly
  /\ \A s \in Shelves : ~shelves[s].loading
  /\ lyrics.track = None \/ lyrics.state # "loading"
  /\ drawer.track = None \/ drawer.state # "loading"

PagesSettle == []<>Settled
=============================================================================
