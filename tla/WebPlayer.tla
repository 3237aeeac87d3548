----------------------------- MODULE WebPlayer -----------------------------
(***************************************************************************)
(* The player of the web app: the hook useAudioPlayer                      *)
(* (apps/web/src/hooks/useAudioPlayer.tsx), what the page does with it,    *)
(* the <audio> element, and the stream requests.                           *)
(*                                                                         *)
(* A handler of the page runs to its next await, and the page is rendered  *)
(* again before anything else happens.  The element, a request and the     *)
(* user go on meanwhile: an answer or an event of the element may meet     *)
(* another track than the one it was for.  The element exists while        *)
(* somebody is signed in; one that has left the page can still be given a  *)
(* source and play, unheard by any handler.  A track is played after a     *)
(* click, so the browser never refuses to start; what it may refuse is the *)
(* file.  Positions and volume are left out.                               *)
(***************************************************************************)
EXTENDS Naturals, Sequences, SequencesExt, FiniteSets

CONSTANTS
  Tracks,          \* tracks of the library
  None,            \* no track, no element, no source
  Orders,          \* lists of tracks that a page shows
  SavedQueues,     \* queues of an earlier visit, [queue, index]
  Listeners,       \* "same" or "seen": see the variable listener
  MaxClicks,       \* bound on what the user does
  MaxStreams,      \* bound on the stream requests in flight
  MaxFailures,     \* bound on requests and files that fail
  MaxSignIns,      \* bound on signing in, and on loading the page, again
  MaxEvents        \* bound on the events of an element that wait

Modes == {"order", "list-loop", "single-loop", "shuffle"}

\* Object URLs, numbered as they are created.
Urls == [track : Tracks, n : Nat]

NoRepeats(q) == \A i, j \in DOMAIN q : q[i] = q[j] => i = j

\* A page lists a track once; readQueue drops what a saved queue repeats, and
\* a position outside it.
ASSUME PlayerAssumption ==
  /\ None \notin Tracks \cup Nat \cup Urls
  /\ \A order \in Orders : order \in Seq(Tracks) /\ NoRepeats(order)
  /\ \A saved \in SavedQueues :
       /\ saved.queue \in Seq(Tracks) /\ NoRepeats(saved.queue)
       /\ saved.index \in 0 .. Len(saved.queue)
  /\ Listeners \subseteq {"same", "seen"}
  /\ {MaxClicks, MaxStreams, MaxFailures, MaxSignIns, MaxEvents} \subseteq Nat

VARIABLES
  tracks,     \* the tracks the page knows
  queue,      \* queueIds
  index,      \* queueIndex + 1: 0 when no entry is the current one
  mode,       \* playMode
  current,    \* currentTrack
  playing,    \* isPlaying, as shown
  loading,    \* loading, as shown
  element,    \* audioRef: number of the element, None without one
  media,      \* the elements
  source,     \* sourceUrlRef
  live,       \* object URLs that were created and not revoked
  streams,    \* stream requests in flight
  urls,       \* number of object URLs created so far
  listener,   \* the prop onListeningEvent: "same" in every render, or another
              \* function in each, "new" until the effect has "seen" it
  count       \* how often the bounded things happened

vars == <<tracks, queue, index, mode, current, playing, loading, element,
          media, source, live, streams, urls, listener, count>>

queueVars == <<queue, index, mode>>
shownVars == <<current, playing, loading>>
sourceVars == <<source, live, urls>>

-----------------------------------------------------------------------------
\* An element as it is created.  "pending" are the promises of play() that
\* have not settled, and "events" the events it has yet to deliver.
NewElement == [src |-> None, paused |-> TRUE, ended |-> FALSE, broken |-> FALSE,
               pending |-> {}, events |-> <<>>]

Elements == 1 .. MaxSignIns + 1

Sounding(e) ==
  /\ media[e].src # None /\ ~media[e].paused
  /\ ~media[e].broken /\ media[e].pending = {}

\* A stream request: "latest" while streamRequestRef holds its number, and
\* the element that startTrack looked up before it.
Stream(track) == [track |-> track, element |-> element, latest |-> TRUE]

Outdated(requests) == {[s EXCEPT !.latest = FALSE] : s \in requests}

Counted(what) == count' = [count EXCEPT ![what] = @ + 1]

Init ==
  /\ tracks = Tracks
  /\ \E saved \in SavedQueues : queue = saved.queue /\ index = saved.index
  /\ mode = "list-loop"
  /\ current = None /\ playing = FALSE /\ loading = FALSE
  /\ element = 1 /\ media = [e \in Elements |-> NewElement]
  /\ source = None /\ live = {} /\ streams = {} /\ urls = 0
  /\ listener \in Listeners
  /\ count = [clicks |-> 0, lost |-> 0, broken |-> 0, signIns |-> 0, ends |-> 0]

-----------------------------------------------------------------------------
(***************************************************************************)
(* getRelativeQueueIndex: the entries that may come next, none or one, and *)
(* any other one in shuffle.                                               *)
(***************************************************************************)
RelativeIndexes(length, at, m, direction) ==
  LET safe == IF at \in 1 .. length THEN at
              ELSE IF direction > 0 THEN 1 ELSE length
      candidate == IF direction > 0 THEN safe + 1 ELSE safe - 1
  IN  CASE length = 0 -> {}
        [] length > 0 /\ m = "single-loop" -> {safe}
        [] length > 0 /\ m = "shuffle" ->
             IF length = 1 THEN {safe} ELSE (1 .. length) \ {safe}
        [] length > 0 /\ m \in {"order", "list-loop"} ->
             IF candidate \in 1 .. length THEN {candidate}
             ELSE IF m = "list-loop"
                  THEN {IF direction > 0 THEN 1 ELSE length} ELSE {}

\* An element that plays; "by" is the code that awaits its promise.
Played(el, by) ==
  [el EXCEPT !.paused = FALSE, !.ended = FALSE, !.pending = @ \cup {by},
             !.events = IF el.paused THEN Append(@, "play") ELSE @]

(***************************************************************************)
(* play(), with m the elements as they are by then.  A file that could not *)
(* be decoded is refused at once.                                          *)
(***************************************************************************)
Play(m, by) ==
  \/ /\ ~m[element].broken
     /\ media' = [m EXCEPT ![element] = Played(@, by)]
     /\ loading' = TRUE
     /\ UNCHANGED playing
  \/ /\ m[element].broken
     /\ media' = m
     /\ loading' = FALSE
     /\ playing' = (playing /\ by # "start")

\* Mutant of Request: the requests of before stay the latest.
RequestBesideOthers(track) == streams \cup {Stream(track)}

\* The requests once another one was made: it is the latest.
Request(track) == Outdated(streams) \cup {Stream(track)}

(***************************************************************************)
(* startTrack up to its first await: the track is requested, unless it is  *)
(* the current one and there is any source, which is then played as it is. *)
(***************************************************************************)
StartTrack(track, m) ==
  /\ \/ /\ current # track \/ source = None
        /\ Cardinality(streams) < MaxStreams
        /\ streams' = Request(track)
        /\ current' = track /\ loading' = TRUE
        /\ media' = m
        /\ UNCHANGED playing
     \/ /\ current = track /\ source # None
        /\ Play(m, "start")
        /\ UNCHANGED <<current, streams>>
  /\ UNCHANGED sourceVars

\* playRelative and playQueueIndex: nothing happens without an entry, or
\* with one that the page does not know.
PlayRelative(direction, m) ==
  LET next == RelativeIndexes(Len(queue), index, mode, direction) IN
  \/ \E i \in next :
       /\ queue[i] \in tracks
       /\ index' = i
       /\ StartTrack(queue[i], m)
       /\ UNCHANGED <<queue, mode>>
  \/ /\ next = {} \/ \E i \in next : queue[i] \notin tracks
     /\ media' = m
     /\ UNCHANGED <<queueVars, shownVars, sourceVars, streams>>

\* The place of a track in a queue, 0 without one.
PlaceIn(q, track) == SelectInSeq(q, LAMBDA t : t = track)

\* playTrack: the list it is in becomes the queue; without a list it is
\* added to the queue.
PlayTrack(track, context) ==
  LET next == IF context # <<>> THEN context
              ELSE IF Contains(queue, track) THEN queue
              ELSE Append(queue, track)
  IN  /\ queue' = next
      /\ index' = PlaceIn(next, track)
      /\ StartTrack(track, media)
      /\ UNCHANGED mode

(***************************************************************************)
(* An element that is paused from outside: the promises that are pending   *)
(* are rejected, which ends the activity, and the code that started a      *)
(* track shows it paused.                                                  *)
(***************************************************************************)
Rejects(e) ==
  /\ loading' = (loading /\ media[e].pending = {})
  /\ playing' = (playing /\ "start" \notin media[e].pending)

TogglePlayback ==
  \/ current = None /\ PlayRelative(1, media)
  \/ /\ current # None /\ media[element].paused
     /\ Play(media, "toggle")
     /\ UNCHANGED <<queueVars, current, streams, sourceVars>>
  \/ /\ current # None /\ ~media[element].paused
     /\ media' = [media EXCEPT ![element].paused = TRUE,
                               ![element].pending = {},
                               ![element].events = Append(@, "pause")]
     /\ Rejects(element)
     /\ UNCHANGED <<queueVars, current, streams, sourceVars>>

-----------------------------------------------------------------------------
\* What the user does, while signed in.
Click == element # None /\ count.clicks < MaxClicks /\ Counted("clicks")

\* playFromRow, in a list the page shows.
ClickRow(track, context) ==
  /\ Click /\ Contains(context, track) /\ ToSet(context) \subseteq tracks
  /\ IF current = track /\ playing THEN TogglePlayback
     ELSE PlayTrack(track, context)
  /\ UNCHANGED <<tracks, element>>

\* The play button of the lyrics, which has no list; the list need not have
\* the track any more.
PlayFromLyrics(track) ==
  /\ Click
  /\ PlayTrack(track, <<>>)
  /\ UNCHANGED <<tracks, element>>

ClickToggle ==
  /\ Click /\ (current # None \/ queue # <<>>)
  /\ TogglePlayback
  /\ UNCHANGED <<tracks, element>>

ClickNextOrPrevious(direction) ==
  /\ Click /\ queue # <<>>
  /\ PlayRelative(direction, media)
  /\ UNCHANGED <<tracks, element>>

CyclePlayMode ==
  /\ Click
  /\ mode' = CASE mode = "order"       -> "list-loop"
               [] mode = "list-loop"   -> "single-loop"
               [] mode = "single-loop" -> "shuffle"
               [] mode = "shuffle"     -> "order"
  /\ UNCHANGED <<queue, index, tracks, element, shownVars, media, streams, sourceVars>>

Enqueue(track) ==
  /\ Click /\ track \in tracks
  /\ queue' = IF Contains(queue, track) THEN queue ELSE Append(queue, track)
  /\ UNCHANGED <<index, mode, tracks, element, shownVars, media, streams, sourceVars>>

\* Mutant of InsertPlace: before the current entry.
InsertBefore(rest) ==
  IF index \in 1 .. Len(rest) THEN index - 1
  ELSE IF index = 0 THEN 0 ELSE Len(rest)

\* How many entries stay before the one that comes next.  The place of the
\* current entry is the one before the track was taken out.
InsertPlace(rest) == IF index <= Len(rest) THEN index ELSE Len(rest)

\* The queue without a track, which is in it once at most.
Without(track) ==
  IF Contains(queue, track) THEN RemoveAt(queue, PlaceIn(queue, track)) ELSE queue

EnqueueNext(track) ==
  LET rest == Without(track)
      next == InsertAt(rest, InsertPlace(rest) + 1, track)
  IN  /\ Click /\ track \in tracks
      /\ queue' = next
      /\ index' = IF current # None
                  THEN PlaceIn(next, current) ELSE index
      /\ UNCHANGED <<mode, tracks, element, shownVars, media, streams, sourceVars>>

ClearQueue ==
  /\ Click /\ queue # <<>>
  /\ queue' = <<>> /\ index' = 0
  /\ UNCHANGED <<mode, tracks, element, shownVars, media, streams, sourceVars>>

\* refreshTracks after a scan: the library may have lost tracks.
TracksArrive(known) ==
  /\ Click
  /\ tracks' = known
  /\ UNCHANGED <<element, queueVars, shownVars, media, streams, sourceVars>>

-----------------------------------------------------------------------------
\* The sources that are live once there is a new one.
Source(url) == (live \ {source}) \cup {url}

(***************************************************************************)
(* The stream arrives: the latest request gives its element a new source,  *)
(* revokes the old one and plays.  load() pauses the element without an    *)
(* event, drops the events that wait, and rejects the pending promises,    *)
(* whose code shows the player paused.                                     *)
(***************************************************************************)
StreamArrives(s) ==
  /\ s \in streams
  /\ streams' = streams \ {s}
  /\ IF ~s.latest THEN UNCHANGED <<shownVars, media, source, live, urls>>
     ELSE LET url == [track |-> s.track, n |-> urls + 1] IN
          /\ urls' = urls + 1
          /\ source' = url
          /\ live' = Source(url)
          /\ playing' =
               (playing /\ "start" \notin media[s.element].pending)
          /\ media' = [media EXCEPT ![s.element] =
                         Played([NewElement EXCEPT !.src = url], "start")]
          /\ loading' = TRUE
          /\ UNCHANGED current
  /\ UNCHANGED <<tracks, element, queueVars, count>>

\* The request fails: the source of before stays, and goes on playing.
StreamFails(s) ==
  /\ s \in streams /\ count.lost < MaxFailures /\ Counted("lost")
  /\ streams' = streams \ {s}
  /\ loading' = (loading /\ ~s.latest)
  /\ playing' = (playing /\ ~s.latest)
  /\ UNCHANGED <<tracks, element, queueVars, current, media, source, live, urls>>

\* An element has data: its promises are fulfilled.
MediaReady(e) ==
  /\ media[e].pending # {} /\ media[e].src # None /\ ~media[e].broken
  /\ media' = [media EXCEPT ![e].pending = {}]
  /\ loading' = FALSE
  /\ UNCHANGED <<tracks, element, queueVars, current, playing, source, live,
                 streams, urls, count>>

\* Mutant of MediaBreaks: the activity goes on.
MediaBreaksSilently(e) ==
  /\ media[e].pending # {} /\ media[e].src # None /\ ~media[e].broken
  /\ count.broken < MaxFailures /\ Counted("broken")
  /\ media' = [media EXCEPT ![e].pending = {}, ![e].broken = TRUE,
                            ![e].events = <<>>]
  /\ playing' = FALSE
  /\ UNCHANGED <<tracks, element, queueVars, current, loading, source, live, streams,
                 urls>>

\* The browser cannot play the file: the promises are rejected, and the
\* error event of the element on the page says so.
MediaBreaks(e) ==
  /\ media[e].pending # {} /\ media[e].src # None /\ ~media[e].broken
  /\ count.broken < MaxFailures /\ Counted("broken")
  /\ media' = [media EXCEPT ![e].pending = {}, ![e].broken = TRUE,
                            ![e].events = <<>>]
  /\ playing' = FALSE /\ loading' = FALSE
  /\ UNCHANGED <<tracks, element, queueVars, current, source, live, streams,
                 urls>>

\* The track is over.
MediaEnds(e) ==
  /\ Sounding(e) /\ Len(media[e].events) + 2 <= MaxEvents
  /\ count.ends < MaxClicks /\ Counted("ends")
  /\ media' = [media EXCEPT ![e].paused = TRUE, ![e].ended = TRUE,
                            ![e].events = @ \o <<"pause", "ended">>]
  /\ UNCHANGED <<tracks, element, queueVars, shownVars, source, live, streams,
                 urls>>

\* The next event of the element on the page reaches its handler.
Deliver ==
  /\ element # None /\ media[element].events # <<>>
  /\ LET event == Head(media[element].events)
         rest  == [media EXCEPT ![element].events = Tail(@)]
     IN  \/ /\ event # "ended"
            /\ playing' = (event = "play")
            /\ media' = rest
            /\ UNCHANGED <<queueVars, current, loading, streams, sourceVars>>
         \/ event = "ended" /\ PlayRelative(1, rest)
  /\ UNCHANGED <<tracks, element, count>>

-----------------------------------------------------------------------------
(***************************************************************************)
(* Signing out takes the element off the page, which pauses it; the player *)
(* keeps everything else.  Signing in makes another element.               *)
(***************************************************************************)
SignOut ==
  /\ element # None
  /\ element' = None
  /\ media' = [media EXCEPT ![element].paused = TRUE,
                            ![element].pending = {}, ![element].events = <<>>]
  /\ Rejects(element)
  /\ tracks' = {}
  /\ UNCHANGED <<queueVars, current, streams, sourceVars, count>>

SignIn ==
  /\ element = None /\ count.signIns < MaxSignIns /\ Counted("signIns")
  /\ element' = count.signIns + 2
  /\ tracks' = Tracks
  /\ UNCHANGED <<queueVars, shownVars, media, streams, sourceVars>>

\* The page is loaded again: readQueue and readPlayMode find what the effects
\* stored after the last render.
Reload ==
  /\ element # None /\ count.signIns < MaxSignIns /\ Counted("signIns")
  /\ element' = count.signIns + 2
  /\ tracks' = Tracks
  /\ media' = [e \in Elements |-> NewElement]
  /\ current' = None /\ playing' = FALSE /\ loading' = FALSE
  /\ source' = None /\ live' = {} /\ streams' = {}
  /\ UNCHANGED <<queueVars, urls>>

(***************************************************************************)
(* The effect that resets the player, when the function onListeningEvent   *)
(* of this render is not the one of the last: requests are outdated, the   *)
(* source is released, and no track is current.                            *)
(***************************************************************************)
Reset ==
  /\ listener = "new" /\ listener' = "seen"
  /\ streams' = Outdated(streams)
  /\ media' = IF element = None THEN media
              ELSE [media EXCEPT ![element] = NewElement]
  /\ source' = None /\ live' = live \ {source}
  /\ current' = None /\ playing' = FALSE
  /\ UNCHANGED <<tracks, queueVars, loading, element, urls, count>>

-----------------------------------------------------------------------------
UserStep ==
  \/ \E track \in Tracks, context \in Orders : ClickRow(track, context)
  \/ \E track \in Tracks :
       PlayFromLyrics(track) \/ Enqueue(track) \/ EnqueueNext(track)
  \/ ClickToggle \/ CyclePlayMode \/ ClearQueue
  \/ \E direction \in {1, -1} : ClickNextOrPrevious(direction)
  \/ \E known \in SUBSET Tracks : TracksArrive(known)
  \/ SignOut \/ SignIn \/ Reload

Answer == \E s \in streams : StreamArrives(s) \/ StreamFails(s)

Media == \/ Deliver
         \/ \E e \in Elements : MediaReady(e) \/ MediaBreaks(e)

\* Every step makes the page render: App passes one function each time
\* (apps/web/web/src/App.tsx), or one that is new (apps/web/src/App.tsx).
Renders == /\ listener # "new"
           /\ listener' = IF listener = "same" THEN "same" ELSE "new"

Step == /\ UserStep \/ Answer \/ Media \/ \E e \in Elements : MediaEnds(e)
        /\ Renders

Next == Step \/ Reset

(***************************************************************************)
(* Requests are answered, the elements load their data and deliver their   *)
(* events, and the page is rendered.                                       *)
(***************************************************************************)
Fairness == WF_vars(Reset \/ ((Answer \/ Media) /\ Renders))

Spec == Init /\ [][Next]_vars /\ Fairness

-----------------------------------------------------------------------------
\* The shape of the state; the queue holds no track twice.
TypeOK ==
  /\ tracks \subseteq Tracks
  /\ queue \in Seq(Tracks) /\ index \in 0 .. Len(queue) /\ mode \in Modes
  /\ NoRepeats(queue)
  /\ current \in Tracks \cup {None}
  /\ playing \in BOOLEAN /\ loading \in BOOLEAN
  /\ element \in Elements \cup {None}
  /\ source \in Urls \cup {None} /\ live \subseteq Urls
  /\ \A e \in Elements : media[e].src \in Urls \cup {None}

(***************************************************************************)
(* No object URL leaks, and the element on the page never holds one that   *)
(* was revoked: what is live is the source, whatever answers overtake.     *)
(***************************************************************************)
SourceIsLive ==
  /\ live = {source} \ {None}
  /\ element # None /\ media[element].src # None =>
       media[element].src \in live

(***************************************************************************)
(* The last choice wins: when no request for the current track is under    *)
(* way and none was lost, the source is of the current track.              *)
(***************************************************************************)
SourceIsOfCurrent ==
  source # None /\ count.lost = 0 =>
    source.track = current \/ \E s \in streams : s.latest /\ s.track = current

\* The queue position is the one of the current track, or there is none.
IndexIsOfCurrent ==
  current # None /\ index # 0 => queue[index] = current

(***************************************************************************)
(* However requests, events of the element and choices overtake each       *)
(* other: one object URL lives and it is the source, the source and the    *)
(* place in the queue are of the current track, and the queue repeats      *)
(* nothing (useAudioPlayer.tsx).                                           *)
(***************************************************************************)
PlayerIsSound == TypeOK /\ SourceIsLive /\ SourceIsOfCurrent /\ IndexIsOfCurrent

(***************************************************************************)
(* "Play next" of a track: it follows the current one in the queue.  The   *)
(* place is counted before the track is taken out of the queue, so that    *)
(* one that stood before the current track comes one place later, behind   *)
(* the track that followed, if there is one.                               *)
(***************************************************************************)
StoodBefore(track) ==
  Contains(queue, track) /\ PlaceIn(queue, track) < index

ComesNext(track) ==
  LET place == IF StoodBefore(track) /\ index < Len(queue) THEN index' + 2 ELSE index' + 1
  IN  place <= Len(queue') /\ queue'[place] = track

PlayNextIsNext ==
  [][\A track \in Tracks :
       EnqueueNext(track) /\ current \notin {None, track} /\ index # 0
       => ComesNext(track)]_vars

(***************************************************************************)
(* The activity that a choice starts comes to an end, with sound or with a *)
(* notice, unless the user signs out or loads the page again, or a request *)
(* was lost: the play button then waits for an element without a source.   *)
(* Where every render resets the player it does not end.                   *)
(***************************************************************************)
LoadingEnds ==
  loading /\ listener = "same"
    ~> (~loading \/ element # 1 \/ count.lost > 0)
=============================================================================
