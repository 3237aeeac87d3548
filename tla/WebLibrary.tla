------------------------------ MODULE WebLibrary ------------------------------
(***************************************************************************)
(* The library of the web app: what its sections show of the list of the   *)
(* tracks, the collections and the queue, and what a click does to them    *)
(* (apps/web/src/pages/LibraryPage.tsx, components/TrackTable.tsx and      *)
(* App.tsx), with the shelves of the discovery.                            *)
(*                                                                         *)
(* A click is handled with the state the page was last drawn with.  The    *)
(* collections are drawn some time after they change: what the page shows  *)
(* of them, and what the hook of the collections holds, are two variables. *)
(* The requests of that hook are each one step here (WebCollections has    *)
(* them in full), and so is the player's work on a track (WebPlayer).      *)
(***************************************************************************)
EXTENDS WebCollectionState, WebAnswers

CONSTANTS
  Answers,     \* the lists of tracks that the server may answer with
  Shelf,       \* the tracks of a shelf of the discovery, normalised
  Queries,     \* what is searched for: texts
  Collation,   \* the texts in the order of the language
  None,
  Limit,       \* how much of a shelf is shown
  Accounts,    \* what the account may hold as the app is started
  SavedQueues, \* what was in the queue when the app was last open
  OtherChanges,\* requests of another device of the account
  MaxClicks,   \* bound on the clicks of the user
  MaxLists,    \* bound on the lists asked for
  MaxOther     \* bound on the changes of another device

ASSUME LibraryAssumption ==
  /\ Tracks \cup Names \subseteq Texts
  /\ Range(Labels) \cup Queries \subseteq Range(Collation)
  /\ {Limit, MaxClicks, MaxLists, MaxOther} \subseteq Nat
  /\ OtherChanges \subseteq Request
  /\ Accounts \subseteq UserData /\ SavedQueues \subseteq Seq(Tracks)

VARIABLES
  list,      \* App: tracks, tracksLoading, tracksError
  view,      \* App: view
  section,   \* App: librarySection
  search,    \* App: search, Blank when nothing is searched for
  sort,      \* App: sort
  page,      \* LibraryPage: the playlist, the album and the artist that are open
  menu,      \* TrackTable: openMenuTrackId
  account,   \* the account on the server
  cache,     \* useCollections: cacheRef
  drawn,     \* useCollections: collections, as last drawn
  player,    \* useAudioPlayer: queueIds, queueIndex, currentTrack, isPlaying
  toast,     \* App: toast
  timers,    \* the toasts that a timer will close
  count      \* how often the bounded things happened

vars == <<list, view, section, search, sort, page, menu, account, cache,
          drawn, player, toast, timers, count>>

Views    == {"discovery", "library", "management", "support"}
Sections == {"all", "favorites", "playlists", "albums", "artists", "queue"}
Sorts    == {"title-asc", "artist-asc"}

NewPage == [playlist |-> None, album |-> None, artist |-> None]

place == <<view, section, search, sort, page>>

-----------------------------------------------------------------------------
(***************************************************************************)
(* What is shown.                                                          *)
(***************************************************************************)
Ids(tracks) == [i \in DOMAIN tracks |-> tracks[i].id]

Known(tracks, id) == SelectInSeq(tracks, LAMBDA t : t.id = id)

\* The tracks with these ids, those that the list does not have left out.
OfList(ids) ==
  LET known == SelectSeq(ids, LAMBDA id : Known(list.tracks, id) # 0)
  IN  [i \in DOMAIN known |-> list.tracks[Known(list.tracks, known[i])]]

Place(text) == SelectInSeq(Collation, LAMBDA t : t = text)

\* sortTracks: tracks that are alike keep the order of the list.
SortTracks(tracks) ==
  LET Key(i) == Place(IF sort = "title-asc" THEN tracks[i].title
                      ELSE Either(tracks[i].artist, Labels.artist))
      Before(i, j) == Key(i) < Key(j) \/ (Key(i) = Key(j) /\ i < j)
      order == SetToSortSeq(DOMAIN tracks, Before)
  IN  [i \in DOMAIN tracks |-> tracks[order[i]]]

\* filteredTracks.  A text includes what is searched for when it is that.
FilteredTracks ==
  SortTracks(IF search = Blank THEN list.tracks
             ELSE SelectSeq(list.tracks, LAMBDA t :
                    search \in {t.title, t.artist, t.album}))

FavoriteTracks ==
  SelectSeq(FilteredTracks,
            LAMBDA t : Contains(FavoriteTrackIds(drawn), t.id))

Playlists == SavedPlaylists(drawn)

\* selectedPlaylist: the open one, unless it is gone.
SelectedPlaylist == SelectInSeq(Playlists, LAMBDA p : p.id = page.playlist)

AlbumTracks(name)  == SelectSeq(list.tracks, LAMBDA t : DisplayAlbum(t) = name)
ArtistTracks(name) == SelectSeq(list.tracks, LAMBDA t : DisplayArtist(t) = name)

Cards(Label(_)) == {Label(list.tracks[i]) : i \in DOMAIN list.tracks}

\* The rows of the table of the library, none when there is no table.
Rows ==
  CASE section = "all" -> IF list.error THEN <<>> ELSE FilteredTracks
    [] section = "favorites" -> FavoriteTracks
    [] section = "playlists" ->
         IF SelectedPlaylist = 0 THEN <<>>
         ELSE OfList(Playlists[SelectedPlaylist].tracks)
    [] section = "albums" ->
         IF page.album = None THEN <<>> ELSE AlbumTracks(page.album)
    [] section = "artists" ->
         IF page.artist = None THEN <<>> ELSE ArtistTracks(page.artist)
    [] section = "queue" -> OfList(player.queue)

\* Mutant of Bodies: the table is shown beside the error.
BodiesWithTable ==
  {b \in {"error", "skeleton", "empty", "not found", "table"} :
     CASE b = "error"     -> list.error
       [] b = "skeleton"  -> ~list.error /\ list.loading /\ list.tracks = <<>>
       [] b = "empty"     -> ~list.error /\ ~list.loading /\ list.tracks = <<>>
       [] b = "not found" -> /\ ~list.error /\ list.tracks # <<>>
                             /\ FilteredTracks = <<>> /\ search # Blank
       [] b = "table"     -> FilteredTracks # <<>>}

\* renderAllTracks: what the section of all tracks shows below its tools.
Bodies ==
  {b \in {"error", "skeleton", "empty", "not found", "table"} :
     CASE b = "error"     -> list.error
       [] b = "skeleton"  -> ~list.error /\ list.loading /\ list.tracks = <<>>
       [] b = "empty"     -> ~list.error /\ ~list.loading /\ list.tracks = <<>>
       [] b = "not found" -> /\ ~list.error /\ list.tracks # <<>>
                             /\ FilteredTracks = <<>> /\ search # Blank
       [] b = "table"     -> ~list.error /\ FilteredTracks # <<>>}

OnPage(s) == view = "library" /\ section = s

-----------------------------------------------------------------------------
Init ==
  /\ list = [tracks |-> <<>>, loading |-> TRUE, error |-> FALSE]
  /\ view \in {"library", "discovery"}
  /\ section = "all"
  /\ search = Blank
  /\ sort = "title-asc"
  /\ page = NewPage
  /\ menu = None
  /\ account \in Accounts
  /\ cache = ApplySnapshot(account, <<>>)
  /\ drawn = cache.collections
  /\ player \in [queue : SavedQueues, index : {0}, current : {None},
                 playing : {FALSE}]
  /\ toast = None
  /\ timers = {}
  /\ count = [clicks |-> 0, lists |-> 0, other |-> 0, 
                made |-> {p.id : p \in Range(account.playlists)}]

Click == /\ count.clicks < MaxClicks
         /\ count' = [count EXCEPT !.clicks = @ + 1]

Quiet == UNCHANGED <<toast, timers>>

\* notify, and the effect that arms the timer: the one before is cleared.
Notify(says) ==
  /\ toast' = [id |-> count.clicks, says |-> says]
  /\ timers' = {count.clicks}

TimerFires(id) ==
  /\ id \in timers
  /\ toast' = None
  /\ timers' = {}
  /\ UNCHANGED <<list, place, menu, account, cache, drawn, player, count>>

CloseToast ==
  /\ Click
  /\ toast # None
  /\ toast' = None
  /\ timers' = {}
  /\ UNCHANGED <<list, place, menu, account, cache, drawn, player>>

\* A table that is no longer shown, as there are no rows, loses its menu.
MenuOfTable(open) == menu' = IF Rows' = <<>> THEN None ELSE open

-----------------------------------------------------------------------------
(***************************************************************************)
(* Moving about.  A page that is left loses its own state, and a table     *)
(* whose section is left its menu.                                         *)
(***************************************************************************)
content == <<list, account, cache, drawn, player>>

\* The side bar, and the queue button of the player's bar.
Navigate(to) ==
  /\ Click
  /\ to # "discovery" /\ to # view
  /\ view' = to
  /\ page' = NewPage /\ menu' = None
  /\ Quiet /\ UNCHANGED <<content, section, search, sort>>

OpenQueue ==
  /\ Click
  /\ view' = "library" /\ section' = "queue"
  /\ page' = IF view = "library" THEN page ELSE NewPage
  /\ menu' = None
  /\ Quiet /\ UNCHANGED <<content, search, sort>>

\* The navigation, a card or a button of a section: where it leads to, and
\* what is open there.
Move(to, opened) ==
  /\ Click
  /\ section' = to
  /\ page' = opened /\ menu' = None
  /\ Quiet /\ UNCHANGED <<content, view, search, sort>>

OpenSection(to) == view = "library" /\ to # section /\ Move(to, page)

OpenPlaylist(id) ==
  /\ OnPage("playlists") /\ SelectedPlaylist = 0
  /\ HasPlaylist(Playlists, id)
  /\ Move("playlists", [page EXCEPT !.playlist = id])

OpenAlbum(name)  == Move("albums", [page EXCEPT !.album = name])
OpenArtist(name) == Move("artists", [page EXCEPT !.artist = name])

OpenCard ==
  \/ /\ OnPage("albums") /\ page.album = None
     /\ \E name \in Cards(DisplayAlbum) : OpenAlbum(name)
  \/ /\ OnPage("artists") /\ page.artist = None
     /\ \E name \in Cards(DisplayArtist) : OpenArtist(name)

Back ==
  \/ /\ OnPage("playlists") /\ SelectedPlaylist # 0
     /\ Move(section, [page EXCEPT !.playlist = None])
  \/ /\ OnPage("albums") /\ page.album # None
     /\ Move(section, [page EXCEPT !.album = None])
  \/ /\ OnPage("artists") /\ page.artist # None
     /\ Move(section, [page EXCEPT !.artist = None])

\* The tools above all tracks.
Search(text) ==
  /\ Click
  /\ OnPage("all") /\ text # search
  /\ search' = text
  /\ Quiet /\ UNCHANGED <<content, view, section, sort, page>>
  /\ MenuOfTable(menu)

Sort(by) ==
  /\ Click
  /\ OnPage("all") /\ by # sort
  /\ sort' = by
  /\ Quiet /\ UNCHANGED <<content, view, section, search, page, menu>>

-----------------------------------------------------------------------------
(***************************************************************************)
(* The list of the tracks: refreshTracks.                                  *)
(***************************************************************************)
Refresh ==
  /\ Click
  /\ OnPage("all") /\ ~list.loading
  /\ count.lists < MaxLists
  /\ list' = [list EXCEPT !.loading = TRUE, !.error = FALSE]
  /\ Quiet /\ UNCHANGED <<place, account, cache, drawn, player>>
  /\ MenuOfTable(menu)

ListEnds ==
  /\ list.loading
  /\ \/ \E answer \in Answers :
          list' = [tracks |-> ListTracks(answer), loading |-> FALSE,
                   error |-> FALSE]
     \/ list' = [list EXCEPT !.loading = FALSE, !.error = TRUE]
  /\ count' = [count EXCEPT !.lists = @ + 1]
  /\ Quiet /\ UNCHANGED <<place, account, cache, drawn, player>>
  /\ MenuOfTable(menu)

-----------------------------------------------------------------------------
(***************************************************************************)
(* Playing and the queue.                                                  *)
(***************************************************************************)
PlayTrack(track, context) ==
  LET next == UniqueTrackIds(Ids(context))
  IN  player' = [player EXCEPT
        !.queue = next, !.current = track.id,
        !.index = SelectInSeq(next, LAMBDA t : t = track.id)]

\* Mutant of PlayFromRow: the context is always all that is found.
PlayFromAll(track, context) ==
  IF player.current = track.id /\ player.playing
  THEN UNCHANGED player ELSE PlayTrack(track, FilteredTracks)

\* playFromRow: the track that sounds is paused, by the audio element.
PlayFromRow(track, context) ==
  IF player.current = track.id /\ player.playing
  THEN UNCHANGED player ELSE PlayTrack(track, context)

\* The button of a row, and the first item of its menu, which it closes.
PlayRow(i) ==
  /\ Click
  /\ view = "library"
  /\ Quiet /\ UNCHANGED <<list, place, account, cache, drawn>>
  /\ \E rows \in {Rows} : PlayFromRow(rows[i], rows)
  /\ \/ MenuOfTable(menu)
     \/ menu = Rows[i].id /\ menu' = None

\* The button above the table of a playlist, an album or an artist.
PlayAll ==
  /\ section \in {"playlists", "albums", "artists"}
  /\ Rows # <<>>
  /\ PlayRow(1)

PlayShelf(i) ==
  /\ Click
  /\ view = "discovery" /\ i <= Limit
  /\ PlayFromRow(Shelf[i], Shelf)
  /\ Quiet /\ UNCHANGED <<list, place, menu, account, cache, drawn>>

\* The audio element starts and stops, and the player goes to another entry
\* of the queue that it knows the track of.
Sound ==
  /\ player.current # None
  /\ player' = [player EXCEPT !.playing = ~@]
  /\ Quiet /\ UNCHANGED <<list, place, menu, account, cache, drawn, count>>

\* The effect of the player that follows a render: the listener it is given
\* is a new one each time, and no track is current any more.
Reset ==
  /\ player.current # None
  /\ player' = [player EXCEPT !.current = None, !.playing = FALSE]
  /\ Quiet /\ UNCHANGED <<list, place, menu, account, cache, drawn, count>>

PlayQueueIndex(i) ==
  /\ Click
  /\ Known(list.tracks, player.queue[i]) # 0
  /\ player' = [player EXCEPT !.index = i, !.current = player.queue[i]]
  /\ Quiet /\ UNCHANGED <<list, place, menu, account, cache, drawn>>

ClearQueue ==
  /\ Click
  /\ OnPage("queue") /\ player.queue # <<>>
  /\ player' = [player EXCEPT !.queue = <<>>, !.index = 0]
  /\ Notify([what |-> "cleared"])
  /\ UNCHANGED <<list, place, account, cache, drawn>>
  /\ MenuOfTable(menu)

-----------------------------------------------------------------------------
(***************************************************************************)
(* The menu of a row.  An item of it closes it.                            *)
(***************************************************************************)
OpenMenu(i) ==
  /\ Click
  /\ view = "library"
  /\ menu' = IF menu = Rows[i].id THEN None ELSE Rows[i].id
  /\ Quiet /\ UNCHANGED <<content, place>>

MenuItem(i) ==
  /\ Click
  /\ view = "library" /\ menu = Rows[i].id
  /\ menu' = None

Enqueue(i) ==
  /\ MenuItem(i)
  /\ player' = [player EXCEPT !.queue = UniqueTrackIds(Append(@, Rows[i].id))]
  /\ Notify([what |-> "queued", track |-> Rows[i].id])
  /\ UNCHANGED <<list, place, account, cache, drawn>>

EnqueueNext(i) ==
  LET id   == Rows[i].id
      rest == Remove(player.queue, id)
      at   == Min({player.index, Len(rest)})
      next == InsertAt(rest, at + 1, id)
  IN  /\ MenuItem(i)
      /\ player' = [player EXCEPT
           !.queue = next,
           !.index = IF player.current # None
                     THEN SelectInSeq(next, LAMBDA t : t = player.current)
                     ELSE Min({player.index, Len(next)})]
      /\ Notify([what |-> "queued", track |-> id])
      /\ UNCHANGED <<list, place, account, cache, drawn>>

OpenFromMenu(i) ==
  /\ view = "library" /\ menu = Rows[i].id
  /\ \/ OpenAlbum(DisplayAlbum(Rows[i]))
     \/ OpenArtist(DisplayArtist(Rows[i]))

-----------------------------------------------------------------------------
(***************************************************************************)
(* The collections.  The hook decides on what it holds, the toast on what  *)
(* was drawn; a change of the user is drawn at once.                       *)
(***************************************************************************)
Perform(request) ==
  LET item == [id |-> count.clicks + 1, request |-> request]
  IN  /\ cache' = [collections |-> ApplyOperations(cache.collections, <<item>>),
                   pending     |-> Append(cache.pending, item)]
      /\ drawn' = cache'.collections

Held(id) == SelectInSeq(SavedPlaylists(cache.collections), LAMBDA p : p.id = id)

Marked(collections, track) == Contains(FavoriteTrackIds(collections), track)

ToggleFavorite(i) ==
  LET id == Rows[i].id
  IN  /\ Click
      /\ view = "library"
      /\ Perform([op |-> IF Marked(cache.collections, id)
                         THEN "remove_favorite" ELSE "add_favorite",
                  track |-> id])
      /\ Notify([what |-> IF Marked(drawn, id) THEN "unmarked" ELSE "marked",
                 track |-> id])
      /\ UNCHANGED <<list, place, account, player>>
      /\ MenuOfTable(menu)

NewPlaylist(id, name) ==
  /\ count.clicks < MaxClicks
  /\ id \notin count.made
  /\ count' = [count EXCEPT !.clicks = @ + 1, !.made = @ \cup {id}]
  /\ OnPage("playlists") /\ SelectedPlaylist = 0
  /\ Perform([op |-> "create_playlist", playlist |-> id, name |-> name])
  /\ Notify([what |-> "created", playlist |-> id])
  /\ UNCHANGED <<list, place, menu, account, player>>

AddTrackToPlaylist(i, id) ==
  LET track == Rows[i].id
      added == Held(id) # 0 /\ ~Contains(
                 SavedPlaylists(cache.collections)[Held(id)].tracks, track)
  IN  /\ HasPlaylist(Playlists, id)
      /\ MenuItem(i)
      /\ IF added
         THEN Perform([op |-> "add_track", playlist |-> id, track |-> track])
         ELSE UNCHANGED <<cache, drawn>>
      /\ Notify([what |-> IF added THEN "added" ELSE "already",
                 playlist |-> id, track |-> track])
      /\ UNCHANGED <<list, place, account, player>>

ClickDelete ==
  /\ Click
  /\ OnPage("playlists") /\ SelectedPlaylist # 0
  /\ IF Held(page.playlist) # 0
     THEN Perform([op |-> "delete_playlist", playlist |-> page.playlist])
     ELSE UNCHANGED <<cache, drawn>>
  /\ Notify([what |-> "deleted", playlist |-> page.playlist])
  /\ page' = [page EXCEPT !.playlist = None] /\ menu' = None
  /\ UNCHANGED <<list, view, section, search, sort, account, player>>

\* The synchronisation: the first change that waits is done or refused, and
\* the account is read.
Push ==
  /\ cache.pending # <<>>
  /\ account' = Apply(account, Head(cache.pending).request).user
  /\ cache' = ApplySnapshot(account', Tail(cache.pending))
  /\ Quiet /\ UNCHANGED <<list, place, menu, drawn, player, count>>

ReadAccount ==
  /\ cache' = ApplySnapshot(account, cache.pending)
  /\ Quiet /\ UNCHANGED <<list, place, menu, account, drawn, player, count>>

OtherDevice(request) ==
  /\ count.other < MaxOther
  /\ account' = Apply(account, request).user
  /\ count' = [count EXCEPT !.other = @ + 1]
  /\ Quiet /\ UNCHANGED <<list, place, menu, cache, drawn, player>>

Draw ==
  /\ drawn' = cache.collections
  /\ Quiet /\ UNCHANGED <<list, place, account, cache, player, count>>
  /\ MenuOfTable(menu)

-----------------------------------------------------------------------------
Moves ==
  \/ \E to \in Views : Navigate(to)
  \/ OpenQueue
  \/ \E to \in Sections : OpenSection(to)
  \/ \E id \in PlaylistIds : OpenPlaylist(id)
  \/ OpenCard \/ Back
  \/ \E text \in Queries \cup {Blank} : Search(text)
  \/ \E by \in Sorts : Sort(by)
  \/ Refresh \/ ListEnds

Plays ==
  \/ \E i \in DOMAIN Rows : PlayRow(i) \/ OpenMenu(i) \/ Enqueue(i)
                            \/ EnqueueNext(i) \/ OpenFromMenu(i)
  \/ PlayAll
  \/ \E i \in DOMAIN Shelf : PlayShelf(i)
  \/ Sound \/ Reset
  \/ \E i \in DOMAIN player.queue : PlayQueueIndex(i)
  \/ ClearQueue

Changes ==
  \/ \E i \in DOMAIN Rows :
        ToggleFavorite(i) \/ \E id \in PlaylistIds : AddTrackToPlaylist(i, id)
  \/ \E id \in PlaylistIds, name \in Names : NewPlaylist(id, name)
  \/ ClickDelete
  \/ Push \/ ReadAccount \/ Draw
  \/ \E request \in OtherChanges : OtherDevice(request)

Next == \/ Moves \/ Plays \/ Changes
        \/ \E id \in timers : TimerFires(id)
        \/ CloseToast

Spec == Init /\ [][Next]_vars

-----------------------------------------------------------------------------
(***************************************************************************)
(* Properties.                                                             *)
(***************************************************************************)
TypeOK ==
  /\ \A i \in DOMAIN list.tracks : list.tracks[i].id \in Tracks
  /\ view \in Views /\ section \in Sections /\ sort \in Sorts
  /\ menu \in Tracks \cup {None}
  /\ player.queue \in Seq(Tracks) /\ player.index \in 0 .. Len(player.queue)
  /\ account \in UserData
  /\ cache.collections \in Seq(MusicCollection)
  /\ drawn \in Seq(MusicCollection)
  /\ view # "library" => page = NewPage
  /\ timers = IF toast = None THEN {} ELSE {toast.id}

\* Whatever the list, its loading, its error and the search are, the section
\* of all tracks says exactly one thing: an error, that it loads, that there
\* is nothing, that nothing was found, or the tracks (LibraryPage.tsx,
\* renderAllTracks and showAllTracks).
OneBody == Cardinality(Bodies) = 1

\* The bodies of the page and the types of the state.
PageIsWhole == TypeOK /\ OneBody

\* A track that is played from a table of the library, and is not the one
\* that sounds, makes the queue of that table: the section of the queue shows
\* the same rows in the same order, and the current entry is that track,
\* whatever section, search or order the table was shown with (App.tsx,
\* playFromRow; useAudioPlayer.ts, playTrack).
PlayedTableIsTheQueue ==
  [][\A rows \in {Rows} : \A i \in DOMAIN rows :
       /\ ~(player.playing /\ player.current = rows[i].id)
       /\ PlayRow(i)
       => /\ OfList(player.queue)' = rows
          /\ player.queue'[player.index'] = rows[i].id]_vars
=============================================================================
