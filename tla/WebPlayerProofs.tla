-------------------------- MODULE WebPlayerProofs --------------------------
(***************************************************************************)
(* Proofs about WebPlayer, for every library, every list a page shows,     *)
(* every saved queue and every number of clicks, streams, failures and     *)
(* elements.                                                               *)
(***************************************************************************)
EXTENDS WebPlayer, SequenceLemmas

-----------------------------------------------------------------------------
(***************************************************************************)
(* The elements and what is counted.                                       *)
(***************************************************************************)
MediaElement == [src : Urls \cup {None}, paused : BOOLEAN, ended : BOOLEAN,
                 broken : BOOLEAN, pending : SUBSET {"start", "toggle"},
                 events : Seq({"play", "pause", "ended"})]

Counts == [clicks : Nat, lost : Nat, broken : Nat, signIns : Nat, ends : Nat]

Requests == [track : Tracks, element : Elements, latest : BOOLEAN]

\* Elements that hold what the elements held before.
SameSources(m) == /\ m \in [Elements -> MediaElement]
                  /\ \A e \in Elements : m[e].src = media[e].src

(***************************************************************************)
(* Everything but the queue.  The latest request is for the current track  *)
(* and for the element on the page, if that one has a source; and elements *)
(* that are not made yet have none.                                        *)
(***************************************************************************)
ShapeOK ==
  /\ tracks \subseteq Tracks /\ mode \in Modes
  /\ current \in Tracks \cup {None}
  /\ playing \in BOOLEAN /\ loading \in BOOLEAN
  /\ element \in Elements \cup {None}
  /\ source \in Urls \cup {None} /\ live \subseteq Urls
  /\ media \in [Elements -> MediaElement]
  /\ streams \subseteq Requests
  /\ urls \in Nat
  /\ count \in Counts

LatestOK ==
  /\ \A s \in streams : s.latest => s.track = current
  /\ \A s, t \in streams : s.latest /\ t.latest => s = t
  /\ element # None /\ media[element].src # None =>
       \A s \in streams : s.latest => s.element = element

ElementsOK ==
  /\ count.signIns <= MaxSignIns
  /\ element # None => element <= count.signIns + 1
  /\ \A s \in streams : s.element <= count.signIns + 1
  /\ \A e \in Elements : e > count.signIns + 1 => media[e].src = None

CoreInv == ShapeOK /\ LatestOK /\ ElementsOK /\ SourceIsLive /\ SourceIsOfCurrent

\* The queue, and the place in it.
QueueInv ==
  /\ queue \in Seq(Tracks) /\ index \in 0 .. Len(queue)
  /\ NoRepeats(queue)
  /\ IndexIsOfCurrent

IInv == CoreInv /\ QueueInv

\* Counting one thing leaves the other counts alone.
LEMMA CountedOnce ==
  ASSUME count \in Counts,
         NEW what \in {"clicks", "lost", "broken", "signIns", "ends"},
         Counted(what)
  PROVE  /\ count' \in Counts
         /\ what # "lost" => count'.lost = count.lost
         /\ what # "signIns" => count'.signIns = count.signIns
         /\ what = "lost" => count'.lost = count.lost + 1
         /\ what = "signIns" => count'.signIns = count.signIns + 1
<1>1. CASE what = "clicks"
  BY <1>1 DEF Counted, Counts
<1>2. CASE what = "lost"
  BY <1>2 DEF Counted, Counts
<1>3. CASE what = "broken"
  BY <1>3 DEF Counted, Counts
<1>4. CASE what = "signIns"
  BY <1>4 DEF Counted, Counts
<1>5. CASE what = "ends"
  BY <1>5 DEF Counted, Counts
<1> QED BY <1>1, <1>2, <1>3, <1>4, <1>5

\* An element that is told to play keeps its source.
LEMMA PlayedType ==
  ASSUME NEW el \in MediaElement, NEW by \in {"start", "toggle"}
  PROVE  Played(el, by) \in MediaElement /\ Played(el, by).src = el.src
<1>1. Append(el.events, "play") \in Seq({"play", "pause", "ended"})
  BY DEF MediaElement
<1>2. el.pending \cup {by} \in SUBSET {"start", "toggle"}
  BY DEF MediaElement
<1> QED BY <1>1, <1>2 DEF Played, MediaElement

\* A new element has no source.
LEMMA NewElementType == NewElement \in MediaElement /\ NewElement.src = None
<1>1. <<>> \in Seq({"play", "pause", "ended"})
  OBVIOUS
<1> QED BY <1>1 DEF NewElement, MediaElement

\* One element is given another state.
LEMMA ElementUpdated ==
  ASSUME NEW m \in [Elements -> MediaElement], NEW e \in Elements,
         NEW el \in MediaElement
  PROVE  /\ [m EXCEPT ![e] = el] \in [Elements -> MediaElement]
         /\ [m EXCEPT ![e] = el][e] = el
         /\ \A d \in Elements : d # e => [m EXCEPT ![e] = el][d] = m[d]
  OBVIOUS

\* Playing gives no element another source.
LEMMA PlayFacts ==
  ASSUME ShapeOK, NEW m, SameSources(m), element # None,
         NEW by \in {"start", "toggle"}, Play(m, by)
  PROVE  SameSources(media') /\ playing' \in BOOLEAN /\ loading' \in BOOLEAN
<1>1. element \in Elements /\ playing \in BOOLEAN
      /\ m \in [Elements -> MediaElement]
  BY DEF ShapeOK, SameSources
<1>2. CASE m[element].broken
  BY <1>1, <1>2 DEF Play, SameSources
<1>3. CASE ~m[element].broken
  <2>1. media' = [m EXCEPT ![element] = Played(m[element], by)]
        /\ loading' = TRUE /\ playing' = playing
    BY <1>3 DEF Play
  <2>2. /\ Played(m[element], by) \in MediaElement
        /\ Played(m[element], by).src = m[element].src
    BY <1>1, PlayedType
  <2>3. \A e \in Elements : media'[e].src = m[e].src
    BY <1>1, <2>1, <2>2
  <2> QED BY <1>1, <2>1, <2>2, <2>3 DEF SameSources
<1> QED BY <1>2, <1>3

-----------------------------------------------------------------------------
(***************************************************************************)
(* The steps of the core.                                                  *)
(***************************************************************************)

\* What every step below leaves in order besides requests and sources.
Surroundings ==
  /\ tracks' \subseteq Tracks /\ mode' \in Modes
  /\ playing' \in BOOLEAN /\ loading' \in BOOLEAN
  /\ count' \in Counts
  /\ count'.lost = count.lost /\ count'.signIns = count.signIns
  /\ UNCHANGED element

\* A step of the elements alone.
LEMMA CoreKept ==
  ASSUME CoreInv, SameSources(media'), Surroundings,
         UNCHANGED <<current, source, live, urls, streams>>
  PROVE  CoreInv'
<1>1. ShapeOK'
  BY DEF CoreInv, ShapeOK, SameSources, Surroundings
<1>2. \A e \in Elements : media'[e].src = media[e].src
  BY DEF SameSources
<1>3. LatestOK' /\ SourceIsLive'
  BY <1>2 DEF CoreInv, ShapeOK, LatestOK, SourceIsLive, Surroundings
<1>4. ElementsOK'
  BY <1>2 DEF CoreInv, ElementsOK, Surroundings
<1>5. SourceIsOfCurrent'
  BY DEF CoreInv, SourceIsOfCurrent, Surroundings
<1> QED BY <1>1, <1>3, <1>4, <1>5 DEF CoreInv

\* A track is requested: this request alone is the latest.
LEMMA CoreRequested ==
  ASSUME CoreInv, SameSources(media'), Surroundings, element # None,
         NEW track \in Tracks, streams' = Request(track), current' = track,
         UNCHANGED sourceVars
  PROVE  CoreInv'
<1>1. Stream(track) \in Requests /\ Stream(track).latest
      /\ Stream(track).track = track /\ Stream(track).element = element
  BY DEF Stream, Requests, CoreInv, ShapeOK
<1>2. \A s \in Outdated(streams) : ~s.latest /\ s \in Requests
                                  /\ s.element <= count.signIns + 1
  BY DEF Outdated, Requests, CoreInv, ShapeOK, ElementsOK
<1>3. \A s \in streams' : s \in Requests /\ (s.latest => s = Stream(track))
  BY <1>1, <1>2 DEF Request
<1>4. UNCHANGED <<source, live, urls>>
  BY DEF sourceVars
<1>5. ShapeOK'
  BY <1>3, <1>4 DEF CoreInv, ShapeOK, SameSources, Surroundings
<1>6. LatestOK'
  BY <1>1, <1>3 DEF LatestOK, Surroundings
<1>7. \A e \in Elements : media'[e].src = media[e].src
  BY DEF SameSources
<1>8. ElementsOK'
  BY <1>1, <1>2, <1>7 DEF CoreInv, ElementsOK, Surroundings, Request
<1>9. SourceIsLive'
  BY <1>4, <1>7 DEF CoreInv, ShapeOK, SourceIsLive, Surroundings
<1>10. SourceIsOfCurrent'
  BY <1>1 DEF SourceIsOfCurrent, Request
<1> QED BY <1>5, <1>6, <1>8, <1>9, <1>10 DEF CoreInv

\* startTrack, from elements m: the track is the current one.
LEMMA CoreStarted ==
  ASSUME CoreInv, NEW m, SameSources(m), element # None, NEW track \in Tracks,
         StartTrack(track, m), tracks' \subseteq Tracks, mode' \in Modes,
         count' \in Counts, count'.lost = count.lost,
         count'.signIns = count.signIns, UNCHANGED element
  PROVE  CoreInv' /\ current' = track
<1>0. UNCHANGED sourceVars
  BY DEF StartTrack
<1>1. CASE /\ streams' = Request(track)
           /\ current' = track /\ loading' = TRUE
           /\ media' = m
           /\ UNCHANGED playing
  <2>1. Surroundings
    BY <1>1 DEF Surroundings, CoreInv, ShapeOK
  <2> QED BY <1>0, <1>1, <2>1, CoreRequested
<1>2. CASE /\ current = track /\ Play(m, "start")
           /\ UNCHANGED <<current, streams>>
  <2>1. SameSources(media') /\ playing' \in BOOLEAN /\ loading' \in BOOLEAN
    BY <1>2, PlayFacts DEF CoreInv
  <2>2. Surroundings
    BY <2>1 DEF Surroundings
  <2> QED BY <1>0, <1>2, <2>1, <2>2, CoreKept DEF sourceVars
<1> QED BY <1>1, <1>2 DEF StartTrack

\* The stream of the latest request: its element gets the source.
LEMMA CoreFilled ==
  ASSUME CoreInv, NEW s \in streams, StreamArrives(s)
  PROVE  CoreInv'
<1> DEFINE url == [track |-> s.track, n |-> urls + 1]
           new == [NewElement EXCEPT !.src = url]
<1>1. /\ streams' = streams \ {s}
      /\ UNCHANGED <<tracks, element, mode, count, current>>
      /\ s \in Requests /\ s.element \in Elements
  BY DEF StreamArrives, queueVars, shownVars, CoreInv, ShapeOK, Requests
<1>2. CASE ~s.latest
  <2>1. UNCHANGED <<playing, loading, media, source, live, urls>>
    BY <1>2 DEF StreamArrives, shownVars
  <2> QED BY <1>1, <1>2, <2>1
          DEF CoreInv, ShapeOK, LatestOK, ElementsOK, SourceIsLive, SourceIsOfCurrent
<1>3. CASE s.latest
  <2>1. url \in Urls /\ url # None /\ url.track = s.track
    BY <1>1, PlayerAssumption DEF CoreInv, ShapeOK, Requests, Urls
  <2>2. new \in MediaElement /\ new.src = url
    <3> HIDE DEF url
    <3> QED BY <2>1, NewElementType DEF MediaElement
  <2> HIDE DEF new
  <2>3. /\ Played(new, "start") \in MediaElement
        /\ Played(new, "start").src = url
    BY <2>2, PlayedType
  <2>4. /\ urls' = urls + 1 /\ source' = url
        /\ live' = (live \ {source}) \cup {url}
        /\ playing' = (playing /\ "start" \notin media[s.element].pending)
        /\ media' = [media EXCEPT ![s.element] = Played(new, "start")]
        /\ loading' = TRUE
    BY <1>3 DEF StreamArrives, Source, new
  <2> HIDE DEF url
  <2>5. /\ media' \in [Elements -> MediaElement]
        /\ media'[s.element].src = url
        /\ \A e \in Elements : e # s.element => media'[e] = media[e]
    BY <1>1, <2>3, <2>4, ElementUpdated DEF CoreInv, ShapeOK
  <2>6. live' = {url}
    BY <2>4 DEF CoreInv, SourceIsLive
  <2>7. \A r \in streams' : ~r.latest
    BY <1>1, <1>3 DEF CoreInv, LatestOK
  <2>8. s.track = current
    BY <1>3 DEF CoreInv, LatestOK
  <2>9. ShapeOK'
    BY <1>1, <2>1, <2>4, <2>5, <2>6 DEF CoreInv, ShapeOK
  <2>10. LatestOK'
    BY <2>7 DEF LatestOK
  <2>11. ElementsOK'
    <3>1. s.element <= count.signIns + 1 /\ count.signIns \in Nat
      BY DEF CoreInv, ElementsOK, ShapeOK, Counts
    <3>2. \A e \in Elements : e > count.signIns + 1 => media'[e].src = None
      BY <2>5, <3>1 DEF CoreInv, ElementsOK, Elements
    <3> QED BY <1>1, <3>2 DEF CoreInv, ElementsOK
  <2>12. SourceIsLive'
    <3>1. ASSUME element # None, media'[element].src # None
          PROVE  media'[element].src = url
      <4>1. CASE element = s.element
        BY <2>5, <4>1
      <4>2. CASE element # s.element
        <5>1. element \in Elements /\ media[element].src # None
          BY <2>5, <3>1, <4>2 DEF CoreInv, ShapeOK
        <5> QED BY <1>3, <3>1, <4>2, <5>1 DEF CoreInv, LatestOK
      <4> QED BY <4>1, <4>2
    <3> QED BY <1>1, <2>1, <2>4, <2>6, <3>1 DEF SourceIsLive
  <2>13. SourceIsOfCurrent'
    BY <1>1, <2>1, <2>4, <2>8 DEF SourceIsOfCurrent
  <2> QED BY <2>9, <2>10, <2>11, <2>12, <2>13 DEF CoreInv
<1> QED BY <1>2, <1>3

\* A stream that fails.
LEMMA CoreFailed ==
  ASSUME CoreInv, NEW s \in streams, StreamFails(s)
  PROVE  CoreInv'
<1>1. /\ streams' = streams \ {s}
      /\ loading' = (loading /\ ~s.latest) /\ playing' = (playing /\ ~s.latest)
      /\ UNCHANGED <<tracks, element, mode, current, media, source, live, urls>>
  BY DEF StreamFails, queueVars
<1>2. /\ count' \in Counts /\ count'.lost = count.lost + 1
      /\ count'.signIns = count.signIns
  BY CountedOnce DEF StreamFails, CoreInv, ShapeOK
<1>3. count'.lost # 0
  BY <1>2 DEF CoreInv, ShapeOK, Counts
<1> QED BY <1>1, <1>2, <1>3
        DEF CoreInv, ShapeOK, LatestOK, ElementsOK, SourceIsLive, SourceIsOfCurrent

\* Signing out.
LEMMA CoreSignedOut ==
  ASSUME CoreInv, SignOut
  PROVE  CoreInv'
<1> DEFINE el == [media[element] EXCEPT !.paused = TRUE, !.pending = {},
                                       !.events = <<>>]
<1>1. /\ element # None /\ element' = None /\ tracks' = {}
      /\ media' = [media EXCEPT ![element] = el]
      /\ loading' \in BOOLEAN /\ playing' \in BOOLEAN
      /\ UNCHANGED <<mode, current, streams, source, live, urls, count>>
  BY DEF SignOut, Rejects, queueVars, sourceVars, CoreInv, ShapeOK
<1>2. element \in Elements /\ media[element] \in MediaElement
  BY <1>1 DEF CoreInv, ShapeOK
<1>3. el \in MediaElement /\ el.src = media[element].src
  <2>1. <<>> \in Seq({"play", "pause", "ended"})
    OBVIOUS
  <2> QED BY <1>2, <2>1 DEF MediaElement
<1> HIDE DEF el
<1>4. /\ media' \in [Elements -> MediaElement]
      /\ \A e \in Elements : media'[e].src = media[e].src
  <2>1. \A e \in Elements : media'[e] = IF e = element THEN el ELSE media[e]
    BY <1>1, <1>2 DEF CoreInv, ShapeOK
  <2> QED BY <1>1, <1>2, <1>3, <2>1 DEF CoreInv, ShapeOK
<1>5. ShapeOK'
  BY <1>1, <1>4 DEF CoreInv, ShapeOK
<1> QED BY <1>1, <1>4, <1>5
        DEF CoreInv, LatestOK, ElementsOK, SourceIsLive, SourceIsOfCurrent

\* The element of a page that is loaded, or of somebody who signs in, is one
\* that has no source and that no request knows.
LEMMA CoreSignedIn ==
  ASSUME CoreInv, SignIn
  PROVE  CoreInv'
<1>1. /\ element' = count.signIns + 2 /\ tracks' = Tracks
      /\ count.signIns < MaxSignIns /\ Counted("signIns")
      /\ UNCHANGED <<mode, current, playing, loading, media, streams, source, live, urls>>
  BY DEF SignIn, queueVars, shownVars, sourceVars
<1>2. /\ count' \in Counts /\ count'.lost = count.lost
      /\ count'.signIns = count.signIns + 1
  BY <1>1, CountedOnce DEF CoreInv, ShapeOK
<1>3. count.signIns \in Nat /\ MaxSignIns \in Nat
  BY PlayerAssumption DEF CoreInv, ShapeOK, Counts
<1>4. element' \in Elements /\ element' > count.signIns + 1
  BY <1>1, <1>3 DEF Elements
<1>5. media'[element'].src = None
  BY <1>1, <1>4 DEF CoreInv, ElementsOK
<1>6. ShapeOK'
  BY <1>1, <1>2, <1>4 DEF CoreInv, ShapeOK
<1>7. LatestOK' /\ SourceIsLive' /\ SourceIsOfCurrent'
  BY <1>1, <1>2, <1>5
     DEF CoreInv, LatestOK, SourceIsLive, SourceIsOfCurrent
<1>8. ElementsOK'
  <2>1. count'.signIns <= MaxSignIns /\ element' <= count'.signIns + 1
    BY <1>1, <1>2, <1>3
  <2>2. ASSUME NEW s \in streams PROVE s.element <= count'.signIns + 1
    <3>1. s.element \in Nat /\ s.element <= count.signIns + 1
      BY DEF CoreInv, ShapeOK, ElementsOK, Requests, Elements
    <3> QED BY <1>2, <1>3, <3>1
  <2>3. ASSUME NEW e \in Elements, e > count'.signIns + 1
        PROVE  media'[e].src = None
    <3>1. e > count.signIns + 1
      BY <1>2, <1>3, <2>3 DEF Elements
    <3> QED BY <1>1, <3>1 DEF CoreInv, ElementsOK
  <2> QED BY <1>1, <2>1, <2>2, <2>3 DEF ElementsOK
<1> QED BY <1>6, <1>7, <1>8 DEF CoreInv

\* Loading the page again.
LEMMA CoreReloaded ==
  ASSUME CoreInv, Reload
  PROVE  CoreInv'
<1>1. /\ element' = count.signIns + 2 /\ tracks' = Tracks
      /\ count.signIns < MaxSignIns /\ Counted("signIns")
      /\ media' = [e \in Elements |-> NewElement]
      /\ current' = None /\ playing' = FALSE /\ loading' = FALSE
      /\ source' = None /\ live' = {} /\ streams' = {}
      /\ UNCHANGED <<mode, urls>>
  BY DEF Reload, queueVars
<1>2. /\ count' \in Counts /\ count'.lost = count.lost
      /\ count'.signIns = count.signIns + 1
  BY <1>1, CountedOnce DEF CoreInv, ShapeOK
<1>3. count.signIns \in Nat /\ MaxSignIns \in Nat
  BY PlayerAssumption DEF CoreInv, ShapeOK, Counts
<1>4. element' \in Elements
  BY <1>1, <1>3 DEF Elements
<1>5. \A e \in Elements : media'[e] \in MediaElement /\ media'[e].src = None
  BY <1>1, NewElementType
<1>6. ShapeOK'
  BY <1>1, <1>2, <1>4, <1>5 DEF CoreInv, ShapeOK
<1>7. LatestOK' /\ SourceIsLive' /\ SourceIsOfCurrent'
  BY <1>1, <1>4, <1>5 DEF LatestOK, SourceIsLive, SourceIsOfCurrent
<1>8. ElementsOK'
  BY <1>1, <1>2, <1>3, <1>5 DEF ElementsOK
<1> QED BY <1>6, <1>7, <1>8 DEF CoreInv

\* The effect that resets the player.
LEMMA CoreReset ==
  ASSUME CoreInv, Reset
  PROVE  CoreInv'
<1>1. /\ streams' = Outdated(streams)
      /\ media' = IF element = None THEN media
                  ELSE [media EXCEPT ![element] = NewElement]
      /\ source' = None /\ live' = live \ {source}
      /\ current' = None /\ playing' = FALSE
      /\ UNCHANGED <<tracks, mode, loading, element, urls, count>>
  BY DEF Reset, queueVars
<1>2. \A s \in streams' : ~s.latest /\ s \in Requests
                         /\ s.element <= count.signIns + 1
  BY <1>1 DEF Outdated, Requests, CoreInv, ShapeOK, ElementsOK
<1>3. live' = {}
  BY <1>1 DEF CoreInv, SourceIsLive
<1>4. /\ media' \in [Elements -> MediaElement]
      /\ element # None => media'[element].src = None
      /\ \A e \in Elements : media'[e].src \in {media[e].src, None}
  <2>1. CASE element = None
    BY <1>1, <2>1 DEF CoreInv, ShapeOK
  <2>2. CASE element # None
    <3>1. element \in Elements /\ media \in [Elements -> MediaElement]
      BY <2>2 DEF CoreInv, ShapeOK
    <3>2. \A e \in Elements : media'[e] = IF e = element THEN NewElement ELSE media[e]
      BY <1>1, <2>2, <3>1
    <3> QED BY <1>1, <2>2, <3>1, <3>2, NewElementType
  <2> QED BY <2>1, <2>2
<1>5. ShapeOK'
  BY <1>1, <1>2, <1>3, <1>4 DEF CoreInv, ShapeOK
<1>6. LatestOK' /\ SourceIsLive' /\ SourceIsOfCurrent'
  BY <1>1, <1>2, <1>3, <1>4 DEF LatestOK, SourceIsLive, SourceIsOfCurrent
<1>7. ElementsOK'
  BY <1>1, <1>2, <1>4 DEF CoreInv, ElementsOK
<1> QED BY <1>5, <1>6, <1>7 DEF CoreInv

\* The elements load, break, end and pause.
LEMMA MediaSources ==
  ASSUME ShapeOK, NEW e \in Elements, NEW el \in MediaElement,
         el.src = media[e].src, NEW m, m = [media EXCEPT ![e] = el]
  PROVE  SameSources(m)
<1>1. media \in [Elements -> MediaElement]
  BY DEF ShapeOK
<1>2. \A d \in Elements : m[d] = IF d = e THEN el ELSE media[d]
  BY <1>1
<1> QED BY <1>1, <1>2 DEF SameSources

\* What the element itself reports.
LEMMA CoreMedia ==
  ASSUME CoreInv, NEW e \in Elements,
         MediaReady(e) \/ MediaBreaks(e) \/ MediaEnds(e)
  PROVE  CoreInv'
<1> DEFINE el == media[e]
           ready == [el EXCEPT !.pending = {}]
           broken == [el EXCEPT !.pending = {}, !.broken = TRUE, !.events = <<>>]
           ended == [el EXCEPT !.paused = TRUE, !.ended = TRUE,
                               !.events = @ \o <<"pause", "ended">>]
<1>1. el \in MediaElement
  BY DEF CoreInv, ShapeOK
<1>2. \/ media' = [media EXCEPT ![e] = ready]
      \/ media' = [media EXCEPT ![e] = broken]
      \/ media' = [media EXCEPT ![e] = ended]
  BY DEF MediaReady, MediaBreaks, MediaEnds
<1>3. /\ playing' \in BOOLEAN /\ loading' \in BOOLEAN
      /\ UNCHANGED <<tracks, element, mode, current, source, live, streams, urls>>
      /\ UNCHANGED count \/ Counted("broken") \/ Counted("ends")
  BY DEF MediaReady, MediaBreaks, MediaEnds, queueVars, shownVars, CoreInv, ShapeOK
<1>4. /\ count' \in Counts /\ count'.lost = count.lost
      /\ count'.signIns = count.signIns
  BY <1>3, CountedOnce DEF CoreInv, ShapeOK
<1>5. /\ ready \in MediaElement /\ ready.src = el.src
      /\ broken \in MediaElement /\ broken.src = el.src
      /\ ended \in MediaElement /\ ended.src = el.src
  <2> HIDE DEF el
  <2>1. <<>> \in Seq({"play", "pause", "ended"})
    OBVIOUS
  <2>2. el.events \o <<"pause", "ended">> \in Seq({"play", "pause", "ended"})
    BY <1>1 DEF MediaElement
  <2> QED BY <1>1, <2>1, <2>2 DEF MediaElement
<1> HIDE DEF ready, broken, ended
<1>6. SameSources(media')
  BY <1>2, <1>5, MediaSources DEF CoreInv
<1>7. Surroundings
  BY <1>3, <1>4 DEF Surroundings, CoreInv, ShapeOK
<1> QED BY <1>3, <1>6, <1>7, CoreKept

-----------------------------------------------------------------------------
(***************************************************************************)
(* The queue.                                                              *)
(***************************************************************************)
LEMMA NoRepeatsIsInjective ==
  ASSUME NEW q \in Seq(Tracks)
  PROVE  NoRepeats(q) <=> IsInjective(q)
BY DEF NoRepeats, IsInjective

\* The place of a track in a queue, if it has one.
LEMMA PlaceInFacts ==
  ASSUME NEW q \in Seq(Tracks), NEW track
  PROVE  /\ PlaceIn(q, track) \in 0 .. Len(q)
         /\ PlaceIn(q, track) # 0 => q[PlaceIn(q, track)] = track
         /\ PlaceIn(q, track) = 0 => \A i \in 1 .. Len(q) : q[i] # track
<1> DEFINE I == {i \in 1 .. Len(q) : q[i] = track}
<1>1. PlaceIn(q, track) = IF I # {} THEN Min(I) ELSE 0
  BY DEF PlaceIn, SelectInSeq
<1>2. Len(q) \in Nat
  BY LenProperties
<1>3. CASE I = {}
  BY <1>1, <1>2, <1>3
<1>4. CASE I # {}
  <2>1. I \subseteq Nat
    BY <1>2
  <2>2. Min(I) \in I
    <3> HIDE DEF I
    <3> QED BY <1>4, <2>1, LeastOf
  <2> QED BY <1>1, <1>2, <1>4, <2>2
<1> QED BY <1>3, <1>4

\* What may follow is in the queue.
LEMMA RelativeFacts ==
  ASSUME NEW length \in Nat, NEW at \in 0 .. length, NEW m \in Modes,
         NEW direction \in Int
  PROVE  RelativeIndexes(length, at, m, direction) \subseteq 1 .. length
<1>1. CASE length = 0
  BY <1>1 DEF RelativeIndexes
<1>2. CASE length > 0 /\ m = "single-loop"
  BY <1>2 DEF RelativeIndexes
<1>3. CASE length > 0 /\ m = "shuffle"
  BY <1>3 DEF RelativeIndexes
<1>4. CASE length > 0 /\ m \in {"order", "list-loop"}
  BY <1>4 DEF RelativeIndexes
<1> QED BY <1>1, <1>2, <1>3, <1>4 DEF Modes

\* The queue is left as it is, and no other track becomes the current one.
LEMMA QueueKept ==
  ASSUME QueueInv, UNCHANGED <<queue, index>>,
         current' = None \/ current' = current
  PROVE  QueueInv'
BY DEF QueueInv, IndexIsOfCurrent

\* A track is started at its place in a queue.
LEMMA QueueStarted ==
  ASSUME NEW track \in Tracks, current' = track,
         queue' \in Seq(Tracks), NoRepeats(queue'),
         index' \in 0 .. Len(queue'), index' # 0 => queue'[index'] = track
  PROVE  QueueInv'
BY DEF QueueInv, IndexIsOfCurrent, NoRepeats

-----------------------------------------------------------------------------
(***************************************************************************)
(* The steps.                                                              *)
(***************************************************************************)

\* What is counted and known besides a change of the player.
Bystanders ==
  /\ tracks' \subseteq Tracks
  /\ count' \in Counts
  /\ count'.lost = count.lost /\ count'.signIns = count.signIns
  /\ UNCHANGED element

\* The next or the previous track, if there is one.
LEMMA PlayRelativeStep ==
  ASSUME IInv, NEW m, SameSources(m), element # None, NEW direction \in Int,
         PlayRelative(direction, m), Bystanders
  PROVE  IInv'
<1> DEFINE next == RelativeIndexes(Len(queue), index, mode, direction)
<1>1. next \subseteq 1 .. Len(queue) /\ tracks \subseteq Tracks /\ mode \in Modes
  <2>1. Len(queue) \in Nat /\ index \in 0 .. Len(queue) /\ mode \in Modes
    BY LenProperties DEF IInv, CoreInv, QueueInv, ShapeOK
  <2> QED BY <2>1, RelativeFacts DEF IInv, CoreInv, ShapeOK
<1>2. CASE \E i \in next :
             /\ queue[i] \in tracks
             /\ index' = i
             /\ StartTrack(queue[i], m)
             /\ UNCHANGED <<queue, mode>>
  <2>1. PICK i \in next :
          /\ queue[i] \in tracks
          /\ index' = i
          /\ StartTrack(queue[i], m)
          /\ UNCHANGED <<queue, mode>>
    BY <1>2
  <2>2. PICK track \in Tracks : track = queue[i]
    BY <1>1, <2>1
  <2>3. StartTrack(track, m) /\ mode' \in Modes
    BY <1>1, <2>1, <2>2
  <2>4. CoreInv' /\ current' = track
    BY <2>3, CoreStarted DEF IInv, Bystanders
  <2>5. /\ queue' \in Seq(Tracks) /\ NoRepeats(queue')
        /\ index' \in 0 .. Len(queue') /\ queue'[index'] = track
    BY <1>1, <2>1, <2>2 DEF IInv, QueueInv, NoRepeats
  <2> QED BY <2>4, <2>5, QueueStarted DEF IInv
<1>3. CASE /\ media' = m
           /\ UNCHANGED <<queueVars, shownVars, sourceVars, streams>>
  <2>1. Surroundings /\ SameSources(media')
    BY <1>1, <1>3 DEF Surroundings, Bystanders, queueVars, shownVars, IInv, CoreInv, ShapeOK
  <2> QED BY <1>3, <2>1, CoreKept, QueueKept
          DEF IInv, queueVars, shownVars, sourceVars
<1> QED BY <1>2, <1>3 DEF PlayRelative

\* The sources as they are.
LEMMA SameAsNow ==
  ASSUME ShapeOK
  PROVE  SameSources(media)
BY DEF ShapeOK, SameSources

\* Pausing, resuming, or starting what is shown.
LEMMA ToggleStep ==
  ASSUME IInv, element # None, TogglePlayback, Bystanders
  PROVE  IInv'
<1>0. ShapeOK /\ SameSources(media) /\ element \in Elements
      /\ media \in [Elements -> MediaElement]
  BY SameAsNow DEF IInv, CoreInv, ShapeOK
<1>1. CASE PlayRelative(1, media)
  BY <1>0, <1>1, PlayRelativeStep
<1>2. CASE /\ Play(media, "toggle")
           /\ UNCHANGED <<queueVars, current, streams, sourceVars>>
  <2>1. SameSources(media') /\ playing' \in BOOLEAN /\ loading' \in BOOLEAN
    BY <1>0, <1>2, PlayFacts
  <2>2. Surroundings
    BY <1>0, <1>2, <2>1 DEF Surroundings, Bystanders, queueVars, ShapeOK
  <2> QED BY <1>2, <2>1, <2>2, CoreKept, QueueKept DEF IInv, queueVars, sourceVars
<1>3. CASE /\ media' = [media EXCEPT ![element].paused = TRUE,
                                     ![element].pending = {},
                                     ![element].events = Append(@, "pause")]
           /\ Rejects(element)
           /\ UNCHANGED <<queueVars, current, streams, sourceVars>>
  <2> DEFINE el == media[element]
             quiet == [el EXCEPT !.paused = TRUE, !.pending = {},
                                 !.events = Append(@, "pause")]
  <2>1. media' = [media EXCEPT ![element] = quiet]
    BY <1>3
  <2>2. el \in MediaElement
    BY <1>0
  <2>3. quiet \in MediaElement /\ quiet.src = media[element].src
    <3> HIDE DEF el
    <3>1. Append(el.events, "pause") \in Seq({"play", "pause", "ended"})
      BY <2>2 DEF MediaElement
    <3>2. quiet \in MediaElement /\ quiet.src = el.src
      BY <2>2, <3>1 DEF MediaElement
    <3> QED BY <3>2 DEF el
  <2> HIDE DEF quiet, el
  <2>4. SameSources(media')
    BY <1>0, <2>1, <2>3, MediaSources
  <2>5. Surroundings
    BY <1>0, <1>3 DEF Surroundings, Bystanders, Rejects, queueVars, ShapeOK
  <2> QED BY <1>3, <2>4, <2>5, CoreKept, QueueKept DEF IInv, queueVars, sourceVars
<1> QED BY <1>1, <1>2, <1>3 DEF TogglePlayback

\* playTrack, with no list or with one that a page shows.
LEMMA PlayTrackStep ==
  ASSUME IInv, element # None, NEW track \in Tracks, NEW context \in Seq(Tracks),
         NoRepeats(context), PlayTrack(track, context), Bystanders
  PROVE  IInv'
<1> DEFINE next == IF context # <<>> THEN context
                   ELSE IF Contains(queue, track) THEN queue
                   ELSE Append(queue, track)
<1>1. /\ queue' = next /\ index' = PlaceIn(next, track)
      /\ StartTrack(track, media) /\ UNCHANGED mode
  BY DEF PlayTrack
<1>2. /\ ShapeOK /\ SameSources(media) /\ mode \in Modes
      /\ queue \in Seq(Tracks) /\ IsInjective(queue)
  BY SameAsNow, NoRepeatsIsInjective DEF IInv, CoreInv, ShapeOK, QueueInv
<1>3. next \in Seq(Tracks) /\ NoRepeats(next)
  <2>1. CASE context # <<>>
    BY <2>1
  <2>2. CASE context = <<>> /\ Contains(queue, track)
    BY <2>2, <1>2 DEF IInv, QueueInv
  <2>3. CASE context = <<>> /\ ~Contains(queue, track)
    <3>1. \A i \in 1 .. Len(queue) : queue[i] # track
      BY <2>3 DEF Contains
    <3>2. Append(queue, track) \in Seq(Tracks) /\ IsInjective(Append(queue, track))
      BY <1>2, <3>1, AppendKeepsInjective
    <3>3. next = Append(queue, track)
      BY <2>3
    <3> QED BY <3>2, <3>3, NoRepeatsIsInjective
  <2> QED BY <2>1, <2>2, <2>3
<1>4. CoreInv' /\ current' = track
  BY <1>1, <1>2, CoreStarted DEF IInv, Bystanders
<1> HIDE DEF next
<1>5. /\ PlaceIn(next, track) \in 0 .. Len(next)
      /\ PlaceIn(next, track) # 0 => next[PlaceIn(next, track)] = track
  BY <1>3, PlaceInFacts
<1>6. /\ queue' \in Seq(Tracks) /\ NoRepeats(queue')
      /\ index' \in 0 .. Len(queue') /\ (index' # 0 => queue'[index'] = track)
  BY <1>1, <1>3, <1>5
<1> QED BY <1>4, <1>6, QueueStarted DEF IInv

\* The next event of an element reaches its handler.
LEMMA DeliverStep ==
  ASSUME IInv, Deliver
  PROVE  IInv'
<1> DEFINE event == Head(media[element].events)
           el == media[element]
           heard == [el EXCEPT !.events = Tail(@)]
           rest == [media EXCEPT ![element].events = Tail(@)]
<1>0. /\ element # None /\ media[element].events # <<>>
      /\ UNCHANGED <<tracks, element, count>>
  BY DEF Deliver
<1>1. ShapeOK /\ element \in Elements /\ el \in MediaElement
  BY <1>0 DEF IInv, CoreInv, ShapeOK
<1>2. rest = [media EXCEPT ![element] = heard]
  OBVIOUS
<1>3. heard \in MediaElement /\ heard.src = media[element].src
  <2>0. el.events # <<>>
    BY <1>0
  <2> HIDE DEF el
  <2>1. Tail(el.events) \in Seq({"play", "pause", "ended"})
    BY <1>1, <2>0 DEF MediaElement
  <2>2. heard \in MediaElement /\ heard.src = el.src
    BY <1>1, <2>1 DEF MediaElement
  <2> QED BY <2>2 DEF el
<1> HIDE DEF heard, el
<1>4. SameSources(rest)
  <2> HIDE DEF rest
  <2> QED BY <1>1, <1>2, <1>3, MediaSources
<1>5. Bystanders
  BY <1>0, <1>1 DEF Bystanders, ShapeOK
<1>6. CASE /\ playing' = (event = "play")
           /\ media' = rest
           /\ UNCHANGED <<queueVars, current, loading, streams, sourceVars>>
  <2>1. SameSources(media')
    BY <1>4, <1>6 DEF SameSources
  <2>2. Surroundings
    BY <1>0, <1>1, <1>5, <1>6 DEF Surroundings, Bystanders, queueVars, ShapeOK
  <2> QED BY <1>6, <2>1, <2>2, CoreKept, QueueKept DEF IInv, queueVars, sourceVars
<1>7. CASE PlayRelative(1, rest)
  BY <1>0, <1>4, <1>5, <1>7, PlayRelativeStep
<1> QED BY <1>6, <1>7 DEF Deliver

-----------------------------------------------------------------------------
(***************************************************************************)
(* "Play next": the track is taken out of the queue and comes back in      *)
(* front of the entries that follow.                                       *)
(***************************************************************************)
LEMMA WithoutFacts ==
  ASSUME QueueInv, NEW track \in Tracks
  PROVE  /\ Without(track) \in Seq(Tracks) /\ NoRepeats(Without(track))
         /\ \A i \in 1 .. Len(Without(track)) : Without(track)[i] # track
         /\ Len(queue) <= Len(Without(track)) + 1
         /\ ~Contains(queue, track) => Without(track) = queue
         /\ Contains(queue, track) =>
              /\ PlaceIn(queue, track) \in 1 .. Len(queue)
              /\ Len(Without(track)) = Len(queue) - 1
              /\ \A i \in 1 .. Len(queue) - 1 :
                   Without(track)[i] =
                     IF i < PlaceIn(queue, track) THEN queue[i] ELSE queue[i + 1]
<1>1. /\ queue \in Seq(Tracks) /\ IsInjective(queue) /\ NoRepeats(queue)
      /\ Len(queue) \in Nat
  BY NoRepeatsIsInjective, LenProperties DEF QueueInv
<1>2. CASE ~Contains(queue, track)
  BY <1>1, <1>2 DEF Without, Contains
<1>3. CASE Contains(queue, track)
  <2> DEFINE p == PlaceIn(queue, track)
             rest == RemoveAt(queue, p)
  <2>1. p \in 1 .. Len(queue) /\ queue[p] = track
    BY <1>1, <1>3, PlaceInFacts DEF Contains
  <2>2. Without(track) = rest
    BY <1>3 DEF Without
  <2> HIDE DEF p
  <2>3. /\ rest \in Seq(Tracks) /\ Len(rest) = Len(queue) - 1
        /\ \A i \in 1 .. Len(queue) - 1 :
             rest[i] = IF i < p THEN queue[i] ELSE queue[i + 1]
    BY <1>1, <2>1, RemoveAtProperties
  <2>4. /\ IsInjective(rest)
        /\ \A i \in 1 .. Len(queue) - 1 : rest[i] # queue[p]
    BY <1>1, <2>1, RemoveKeepsInjective
  <2> HIDE DEF rest
  <2>5. NoRepeats(rest) /\ \A i \in 1 .. Len(rest) : rest[i] # track
    BY <2>1, <2>3, <2>4, NoRepeatsIsInjective
  <2> QED BY <1>1, <1>3, <2>1, <2>2, <2>3, <2>5 DEF p
<1> QED BY <1>2, <1>3

\* The new queue; what is in front of the place stays there.
LEMMA EnqueuedNext ==
  ASSUME QueueInv, NEW track \in Tracks, EnqueueNext(track)
  PROVE  /\ InsertPlace(Without(track)) \in 0 .. Len(Without(track))
         /\ queue' \in Seq(Tracks) /\ NoRepeats(queue')
         /\ Len(queue') = Len(Without(track)) + 1
         /\ queue'[InsertPlace(Without(track)) + 1] = track
         /\ \A i \in 1 .. InsertPlace(Without(track)) :
              queue'[i] = Without(track)[i]
         /\ current # None =>
              /\ index' \in 0 .. Len(queue')
              /\ index' # 0 => queue'[index'] = current
              /\ index' = 0 => \A i \in 1 .. Len(queue') : queue'[i] # current
<1> DEFINE rest == Without(track)
           k == InsertPlace(rest) + 1
           next == InsertAt(rest, k, track)
<1>1. /\ rest \in Seq(Tracks) /\ NoRepeats(rest) /\ Len(rest) \in Nat
      /\ \A i \in 1 .. Len(rest) : rest[i] # track
  BY WithoutFacts, LenProperties
<1>2. queue' = next /\ (current # None => index' = PlaceIn(next, current))
  BY DEF EnqueueNext
<1> HIDE DEF rest
<1>3. InsertPlace(rest) \in 0 .. Len(rest)
  BY <1>1 DEF InsertPlace, QueueInv
<1>4. k \in 1 .. Len(rest) + 1
  BY <1>1, <1>3
<1> HIDE DEF k
<1>5. /\ next \in Seq(Tracks) /\ Len(next) = Len(rest) + 1
      /\ \A i \in 1 .. Len(rest) + 1 : next[i] =
           IF i < k THEN rest[i] ELSE IF i = k THEN track ELSE rest[i - 1]
  <2>1. rest \in Seq(Tracks) /\ track \in Tracks /\ k \in 1 .. Len(rest) + 1
    BY <1>1, <1>4
  <2>2. ASSUME NEW q \in Seq(Tracks), NEW p \in 1 .. Len(q) + 1
        PROVE  /\ InsertAt(q, p, track) \in Seq(Tracks)
               /\ Len(InsertAt(q, p, track)) = Len(q) + 1
               /\ \A i \in 1 .. Len(q) + 1 : InsertAt(q, p, track)[i] =
                    IF i < p THEN q[i] ELSE IF i = p THEN track ELSE q[i - 1]
    BY ONLY track \in Tracks, InsertAtProperties
  <2> QED BY ONLY <2>1, <2>2
<1>6. IsInjective(next)
  BY <1>1, <1>4, InsertKeepsInjective, NoRepeatsIsInjective
<1> HIDE DEF next
<1>7. NoRepeats(next)
  BY <1>5, <1>6, NoRepeatsIsInjective
<1>8. next[k] = track /\ \A i \in 1 .. k - 1 : next[i] = rest[i]
  BY <1>1, <1>4, <1>5
<1>9. k = InsertPlace(rest) + 1 /\ k - 1 = InsertPlace(rest)
  BY <1>1, <1>3 DEF k
<1>10. /\ PlaceIn(next, current) \in 0 .. Len(next)
       /\ PlaceIn(next, current) # 0 => next[PlaceIn(next, current)] = current
       /\ PlaceIn(next, current) = 0 => \A i \in 1 .. Len(next) : next[i] # current
  BY <1>5, PlaceInFacts
<1> QED BY <1>2, <1>3, <1>5, <1>7, <1>8, <1>9, <1>10 DEF rest

\* A track is moved, or inserted, behind the current one.
LEMMA EnqueueNextStep ==
  ASSUME IInv, NEW track \in Tracks, EnqueueNext(track)
  PROVE  IInv'
<1>1. /\ current # None => index' = PlaceIn(queue', current)
      /\ current = None => index' = index
      /\ UNCHANGED <<mode, tracks, element, shownVars, media, streams, sourceVars>>
      /\ Counted("clicks")
  BY DEF EnqueueNext, Click
<1>2. Surroundings /\ SameSources(media')
  BY <1>1, CountedOnce
     DEF Surroundings, IInv, CoreInv, ShapeOK, shownVars, SameSources
<1>3. CoreInv'
  BY <1>1, <1>2, CoreKept DEF IInv, shownVars, sourceVars
<1>4. /\ queue' \in Seq(Tracks) /\ NoRepeats(queue')
      /\ Len(queue') = Len(Without(track)) + 1
      /\ current # None => /\ index' \in 0 .. Len(queue')
                           /\ index' # 0 => queue'[index'] = current
  BY EnqueuedNext DEF IInv
<1>5. index' \in 0 .. Len(queue')
  <2>1. Len(queue) <= Len(Without(track)) + 1
    BY WithoutFacts DEF IInv
  <2>2. Len(queue) \in Nat /\ Len(queue') \in Nat /\ index \in 0 .. Len(queue)
    BY <1>4, LenProperties DEF IInv, QueueInv
  <2> QED BY <1>1, <1>4, <2>1, <2>2
<1>6. QueueInv'
  BY <1>1, <1>4, <1>5 DEF QueueInv, IndexIsOfCurrent, shownVars, NoRepeats
<1> QED BY <1>3, <1>6 DEF IInv

\* The place that the current track has once the track is taken away.
LEMMA CurrentInRest ==
  ASSUME QueueInv, NEW track \in Tracks, current \notin {None, track}, index # 0
  PROVE  LET rest == Without(track)
             place == IF StoodBefore(track) THEN index - 1 ELSE index
         IN  /\ place \in 1 .. Len(rest) /\ rest[place] = current
             /\ place <= InsertPlace(rest)
             /\ InsertPlace(rest) =
                  IF StoodBefore(track) /\ index < Len(queue) THEN place + 1 ELSE place
<1> DEFINE rest == Without(track)
           place == IF StoodBefore(track) THEN index - 1 ELSE index
<1>1. /\ queue \in Seq(Tracks) /\ Len(queue) \in Nat
      /\ index \in 1 .. Len(queue) /\ queue[index] = current
  BY LenProperties DEF QueueInv, IndexIsOfCurrent
<1>2. /\ rest \in Seq(Tracks) /\ Len(rest) \in Nat
      /\ ~Contains(queue, track) => rest = queue
      /\ Contains(queue, track) =>
           /\ PlaceIn(queue, track) \in 1 .. Len(queue)
           /\ Len(rest) = Len(queue) - 1
           /\ \A i \in 1 .. Len(queue) - 1 :
                rest[i] = IF i < PlaceIn(queue, track) THEN queue[i] ELSE queue[i + 1]
  BY WithoutFacts, LenProperties
<1> HIDE DEF rest
<1>3. CASE ~Contains(queue, track)
  <2>1. place = index /\ ~StoodBefore(track)
    BY <1>3 DEF StoodBefore
  <2> QED BY <1>1, <1>2, <1>3, <2>1 DEF InsertPlace, rest
<1>4. CASE Contains(queue, track)
  <2> DEFINE p == PlaceIn(queue, track)
  <2>1. p \in 1 .. Len(queue) /\ p \in Nat /\ queue[p] = track /\ p # index
    <3>1. queue[p] = track
      BY <1>1, <1>4, PlaceInFacts DEF Contains
    <3> QED BY <1>1, <1>2, <1>4, <3>1
  <2>2. \A i \in 1 .. Len(queue) - 1 : rest[i] = IF i < p THEN queue[i] ELSE queue[i + 1]
    BY <1>2, <1>4
  <2>3. StoodBefore(track) <=> p < index
    BY <1>4 DEF StoodBefore
  <2> HIDE DEF p
  <2>4. CASE p < index
    <3>1. /\ place = index - 1 /\ index - 1 \in 1 .. Len(queue) - 1
          /\ ~(index - 1 < p) /\ index - 1 + 1 = index
      BY <1>1, <2>1, <2>3, <2>4
    <3>2. rest[index - 1] = queue[index]
      BY <2>2, <3>1
    <3>3. InsertPlace(rest) = IF index < Len(queue) THEN index ELSE index - 1
      BY <1>1, <1>2, <1>4 DEF InsertPlace
    <3> QED BY <1>1, <1>2, <1>4, <2>3, <2>4, <3>1, <3>2, <3>3 DEF rest
  <2>5. CASE ~(p < index)
    <3>1. place = index /\ index \in 1 .. Len(queue) - 1 /\ index < p
      BY <1>1, <2>1, <2>3, <2>5
    <3>2. rest[index] = queue[index]
      BY <2>2, <3>1
    <3>3. InsertPlace(rest) = index
      BY <1>1, <1>2, <1>4, <3>1 DEF InsertPlace
    <3> QED BY <1>1, <1>2, <1>4, <2>3, <2>5, <3>1, <3>2, <3>3 DEF rest
  <2> QED BY <2>4, <2>5
<1> QED BY <1>3, <1>4

\* The track follows the current one, or the one behind it.
LEMMA NextIsNext ==
  ASSUME QueueInv, NEW track \in Tracks, EnqueueNext(track),
         current \notin {None, track}, index # 0
  PROVE  ComesNext(track)
<1> DEFINE rest == Without(track)
           place == IF StoodBefore(track) THEN index - 1 ELSE index
<1>1. /\ place \in 1 .. Len(rest) /\ rest[place] = current
      /\ place <= InsertPlace(rest)
      /\ InsertPlace(rest) =
           IF StoodBefore(track) /\ index < Len(queue) THEN place + 1 ELSE place
  BY CurrentInRest
<1>2. rest \in Seq(Tracks) /\ Len(rest) \in Nat
  BY WithoutFacts, LenProperties
<1>3. /\ queue' \in Seq(Tracks) /\ NoRepeats(queue')
      /\ InsertPlace(rest) \in 0 .. Len(rest)
      /\ Len(queue') = Len(rest) + 1
      /\ queue'[InsertPlace(rest) + 1] = track
      /\ \A i \in 1 .. InsertPlace(rest) : queue'[i] = rest[i]
      /\ index' \in 0 .. Len(queue')
      /\ index' # 0 => queue'[index'] = current
      /\ index' = 0 => \A i \in 1 .. Len(queue') : queue'[i] # current
  BY EnqueuedNext
<1> HIDE DEF rest, place
<1>4. place \in 1 .. Len(queue') /\ queue'[place] = current
  <2>1. place \in 1 .. InsertPlace(rest)
    BY <1>1, <1>2, <1>3
  <2> QED BY <1>1, <1>2, <1>3, <2>1
<1>5. index' # 0
  BY <1>3, <1>4
<1>6. index' = place
  <2>1. index' \in DOMAIN queue' /\ place \in DOMAIN queue'
    BY <1>3, <1>4, <1>5, LenProperties
  <2> QED BY <1>3, <1>4, <1>5, <2>1 DEF NoRepeats
<1>7. InsertPlace(rest) + 1 =
        IF StoodBefore(track) /\ index < Len(queue) THEN index' + 2 ELSE index' + 1
  BY <1>1, <1>2, <1>6
<1>8. InsertPlace(rest) + 1 <= Len(queue')
  BY <1>2, <1>3
<1> QED BY <1>3, <1>7, <1>8 DEF ComesNext

-----------------------------------------------------------------------------
\* A click is counted, and nothing else of the page changes.
LEMMA Clicked ==
  ASSUME IInv, Click, tracks' \subseteq Tracks, UNCHANGED element
  PROVE  Bystanders /\ element # None
BY CountedOnce DEF Click, Bystanders, IInv, CoreInv, ShapeOK

\* A track is put at the end of the queue.
LEMMA EnqueueStep ==
  ASSUME IInv, NEW track \in Tracks, Enqueue(track)
  PROVE  IInv'
<1>1. /\ queue' = IF Contains(queue, track) THEN queue ELSE Append(queue, track)
      /\ UNCHANGED <<index, mode, tracks, element, shownVars, media, streams, sourceVars>>
      /\ Click
  BY DEF Enqueue
<1>2. Bystanders
  BY <1>1, Clicked DEF IInv, CoreInv, ShapeOK
<1>3. Surroundings /\ SameSources(media')
  BY <1>1, <1>2
     DEF Surroundings, Bystanders, IInv, CoreInv, ShapeOK, shownVars, SameSources
<1>4. CoreInv'
  BY <1>1, <1>3, CoreKept DEF IInv, shownVars, sourceVars
<1>5. CASE Contains(queue, track)
  BY <1>1, <1>4, <1>5, QueueKept DEF IInv, shownVars
<1>6. CASE ~Contains(queue, track)
  <2>1. queue \in Seq(Tracks) /\ IsInjective(queue) /\ index \in 0 .. Len(queue)
        /\ Len(queue) \in Nat
    BY NoRepeatsIsInjective, LenProperties DEF IInv, QueueInv
  <2>2. \A i \in 1 .. Len(queue) : queue[i] # track
    BY <1>6 DEF Contains
  <2>3. /\ Append(queue, track) \in Seq(Tracks)
        /\ Len(Append(queue, track)) = Len(queue) + 1
        /\ IsInjective(Append(queue, track))
        /\ \A i \in 1 .. Len(queue) : Append(queue, track)[i] = queue[i]
    BY <2>1, <2>2, AppendKeepsInjective
  <2>4. queue' = Append(queue, track)
    BY <1>1, <1>6
  <2>5. /\ queue' \in Seq(Tracks) /\ Len(queue') = Len(queue) + 1
        /\ NoRepeats(queue')
        /\ \A i \in 1 .. Len(queue) : queue'[i] = queue[i]
    BY <2>3, <2>4, NoRepeatsIsInjective
  <2>6. index' = index /\ current' = current
    BY <1>1 DEF shownVars
  <2>7. IndexIsOfCurrent'
    BY <2>1, <2>5, <2>6 DEF IInv, QueueInv, IndexIsOfCurrent
  <2>8. index' \in 0 .. Len(queue')
    BY <2>1, <2>5, <2>6
  <2> QED BY <1>4, <2>5, <2>7, <2>8 DEF IInv, QueueInv, NoRepeats
<1> QED BY <1>5, <1>6

\* The queue is cleared but for the current track.
LEMMA ClearStep ==
  ASSUME IInv, ClearQueue
  PROVE  IInv'
<1>1. /\ queue' = <<>> /\ index' = 0 /\ Click
      /\ UNCHANGED <<mode, tracks, element, shownVars, media, streams, sourceVars>>
  BY DEF ClearQueue
<1>2. Surroundings /\ SameSources(media')
  BY <1>1, Clicked
     DEF Surroundings, Bystanders, IInv, CoreInv, ShapeOK, shownVars, SameSources
<1>3. CoreInv'
  BY <1>1, <1>2, CoreKept DEF IInv, shownVars, sourceVars
<1>4. <<>> \in Seq(Tracks) /\ Len(<<>>) = 0 /\ NoRepeats(<<>>)
  BY DEF NoRepeats
<1>5. QueueInv'
  BY <1>1, <1>4 DEF QueueInv, IndexIsOfCurrent, NoRepeats
<1> QED BY <1>3, <1>5 DEF IInv

\* A click that leaves the player as it is.
LEMMA OtherClickStep ==
  ASSUME IInv, CyclePlayMode \/ \E known \in SUBSET Tracks : TracksArrive(known)
  PROVE  IInv'
<1>1. /\ Click /\ mode' \in Modes /\ tracks' \subseteq Tracks
      /\ UNCHANGED <<queue, index, element, shownVars, media, streams, sourceVars>>
  <2>1. CASE CyclePlayMode
    BY <2>1 DEF CyclePlayMode, Modes, IInv, CoreInv, ShapeOK
  <2>2. CASE \E known \in SUBSET Tracks : TracksArrive(known)
    BY <2>2 DEF TracksArrive, queueVars, IInv, CoreInv, ShapeOK
  <2> QED BY <2>1, <2>2
<1>2. Surroundings /\ SameSources(media')
  BY <1>1, Clicked
     DEF Surroundings, Bystanders, IInv, CoreInv, ShapeOK, shownVars, SameSources
<1>3. CoreInv'
  BY <1>1, <1>2, CoreKept DEF IInv, shownVars, sourceVars
<1> QED BY <1>1, <1>3, QueueKept DEF IInv, shownVars

\* What the user does keeps the invariant.
LEMMA UserStepKeeps ==
  ASSUME IInv, UserStep
  PROVE  IInv'
<1>1. ASSUME NEW track \in Tracks, NEW context \in Orders, ClickRow(track, context)
      PROVE  IInv'
  <2>1. Click /\ UNCHANGED <<tracks, element>>
    BY <1>1 DEF ClickRow
  <2>2. Bystanders /\ element # None
    BY <2>1, Clicked DEF IInv, CoreInv, ShapeOK
  <2>3. context \in Seq(Tracks) /\ NoRepeats(context)
    BY PlayerAssumption
  <2> QED BY <1>1, <2>2, <2>3, ToggleStep, PlayTrackStep DEF ClickRow
<1>2. ASSUME NEW track \in Tracks, PlayFromLyrics(track)
      PROVE  IInv'
  <2>1. Click /\ UNCHANGED <<tracks, element>> /\ PlayTrack(track, <<>>)
    BY <1>2 DEF PlayFromLyrics
  <2>2. Bystanders /\ element # None
    BY <2>1, Clicked DEF IInv, CoreInv, ShapeOK
  <2>3. <<>> \in Seq(Tracks) /\ NoRepeats(<<>>)
    BY DEF NoRepeats
  <2> QED BY <2>1, <2>2, <2>3, PlayTrackStep
<1>3. CASE ClickToggle
  <2>1. Bystanders /\ element # None
    BY <1>3, Clicked DEF ClickToggle, IInv, CoreInv, ShapeOK
  <2> QED BY <1>3, <2>1, ToggleStep DEF ClickToggle
<1>4. ASSUME NEW direction \in {1, -1}, ClickNextOrPrevious(direction)
      PROVE  IInv'
  <2>1. Bystanders /\ element # None /\ SameSources(media)
    BY <1>4, Clicked, SameAsNow DEF ClickNextOrPrevious, IInv, CoreInv, ShapeOK
  <2>2. direction \in Int /\ PlayRelative(direction, media)
    BY <1>4 DEF ClickNextOrPrevious
  <2> QED BY <2>1, <2>2, PlayRelativeStep
<1>5. CASE SignOut \/ SignIn \/ Reload
  <2>1. CoreInv'
    BY <1>5, CoreSignedOut, CoreSignedIn, CoreReloaded DEF IInv
  <2>2. UNCHANGED <<queue, index>> /\ (current' = None \/ current' = current)
    BY <1>5 DEF SignOut, SignIn, Reload, queueVars, shownVars
  <2> QED BY <2>1, <2>2, QueueKept DEF IInv
<1> QED
  BY <1>1, <1>2, <1>3, <1>4, <1>5, EnqueueStep, EnqueueNextStep, ClearStep,
     OtherClickStep DEF UserStep

\* The page starts in it.
LEMMA InitInvariant ==
  ASSUME Init
  PROVE  IInv
<1>1. \A e \in Elements : media[e] \in MediaElement /\ media[e].src = None
  BY NewElementType DEF Init
<1>2. 1 \in Elements /\ 0 <= MaxSignIns
  BY PlayerAssumption DEF Elements
<1>3. ShapeOK
  <2>1. count \in Counts
    BY DEF Init, Counts
  <2> QED BY <1>1, <1>2, <2>1 DEF Init, ShapeOK, Modes
<1>4. LatestOK /\ SourceIsLive /\ SourceIsOfCurrent
  BY <1>1, <1>2 DEF Init, LatestOK, SourceIsLive, SourceIsOfCurrent
<1>5. ElementsOK
  BY <1>1, <1>2 DEF Init, ElementsOK
<1>6. QueueInv
  BY PlayerAssumption DEF Init, QueueInv, IndexIsOfCurrent
<1> QED BY <1>3, <1>4, <1>5, <1>6 DEF IInv, CoreInv

\* Every step keeps it.
LEMMA NextInvariant ==
  ASSUME IInv, [Next]_vars
  PROVE  IInv'
<1>1. CASE UserStep
  BY <1>1, UserStepKeeps
<1>2. CASE Answer
  <2>1. CoreInv'
    BY <1>2, CoreFilled, CoreFailed DEF IInv, Answer
  <2>2. UNCHANGED <<queue, index, current>>
    BY <1>2 DEF Answer, StreamArrives, StreamFails, queueVars, shownVars
  <2> QED BY <2>1, <2>2, QueueKept DEF IInv
<1>3. CASE Deliver
  BY <1>3, DeliverStep
<1>4. ASSUME NEW e \in Elements, MediaReady(e) \/ MediaBreaks(e) \/ MediaEnds(e)
      PROVE  IInv'
  <2>1. CoreInv'
    BY <1>4, CoreMedia DEF IInv
  <2>2. UNCHANGED <<queue, index, current>>
    BY <1>4 DEF MediaReady, MediaBreaks, MediaEnds, queueVars, shownVars
  <2> QED BY <2>1, <2>2, QueueKept DEF IInv
<1>5. CASE Reset
  <2>1. CoreInv'
    BY <1>5, CoreReset DEF IInv
  <2>2. UNCHANGED <<queue, index>> /\ current' = None
    BY <1>5 DEF Reset, queueVars
  <2> QED BY <2>1, <2>2, QueueKept DEF IInv
<1>6. CASE UNCHANGED vars
  BY <1>6 DEF vars, IInv, CoreInv, ShapeOK, LatestOK, ElementsOK, SourceIsLive,
              SourceIsOfCurrent, QueueInv, IndexIsOfCurrent, NoRepeats
<1> QED
  BY <1>1, <1>2, <1>3, <1>4, <1>5, <1>6 DEF Next, Step, Media

-----------------------------------------------------------------------------
(***************************************************************************)
(* However requests, events of the element and choices overtake each       *)
(* other, one object URL lives and it is the source, the source and the    *)
(* place in the queue are of the current track, and the queue repeats      *)
(* nothing.                                                                *)
(***************************************************************************)
THEOREM PlayerStaysSound == Spec => []PlayerIsSound
<1>1. Init => IInv
  BY InitInvariant
<1>2. IInv /\ [Next]_vars => IInv'
  BY NextInvariant
<1>3. IInv => PlayerIsSound
  BY DEF IInv, CoreInv, ShapeOK, QueueInv, PlayerIsSound, TypeOK, MediaElement
<1> QED BY <1>1, <1>2, <1>3, PTL DEF Spec

(***************************************************************************)
(* A track that is played next follows the current one, or, if it stood    *)
(* before it in the queue and another track behind it, that other track.   *)
(***************************************************************************)
THEOREM ChosenNextIsNext == Spec => PlayNextIsNext
<1> DEFINE A == \A track \in Tracks :
             EnqueueNext(track) /\ current \notin {None, track} /\ index # 0
             => ComesNext(track)
<1>1. Init => IInv
  BY InitInvariant
<1>2. IInv /\ [Next]_vars => IInv'
  BY NextInvariant
<1>3. IInv /\ [Next]_vars => [A]_vars
  BY NextIsNext DEF IInv
<1>4. PlayNextIsNext <=> [][A]_vars
  BY DEF PlayNextIsNext
<1> HIDE DEF A
<1> QED BY <1>1, <1>2, <1>3, <1>4, PTL DEF Spec
=============================================================================
