----------------------------- MODULE PlayOrder -----------------------------
(***************************************************************************)
(* The order of playback in the player app: the queue, the track in it     *)
(* that is current, and the history of shuffle, as player_controller.dart  *)
(* changes them (apps/player/lib/features/player/application/).            *)
(*                                                                         *)
(* Operators on one record q with                                          *)
(*   tracks     state.queue                                                *)
(*   index      state.currentIndex, counted from 1, 0 for -1               *)
(*   current    state.currentTrack, or NoTrack                             *)
(*   mode       state.playbackMode                                         *)
(*   history    _shuffleHistory, positions in tracks                       *)
(*   at         _shuffleHistoryIndex, counted from 1, 0 for -1             *)
(*   remaining  _shuffleRemaining: what this round has not drawn yet       *)
(* Each is what the controller does before its first await.  A track is    *)
(* its id: newer data under the same id replaces the older.                *)
(***************************************************************************)
EXTENDS Integers, Sequences, SequencesExt

CONSTANTS
  Tracks,      \* ids of tracks
  NoTrack,     \* null
  MaxHistory   \* the 100 of _nextShuffleIndex

ASSUME OrderAssumption ==
  /\ NoTrack \notin Tracks
  /\ MaxHistory \in Nat /\ MaxHistory >= 2

Modes == {"sequential", "repeat_one", "shuffle", "repeat_all"}

PlayQueueType ==
  [tracks : Seq(Tracks), index : Nat, current : Tracks \cup {NoTrack},
   mode : Modes, history : Seq(Nat), at : Nat, remaining : SUBSET Nat]

EmptyQueue(mode) ==
  [tracks |-> <<>>, index |-> 0, current |-> NoTrack, mode |-> mode,
   history |-> <<>>, at |-> 0, remaining |-> {}]

-----------------------------------------------------------------------------
\* The first position of the track, 0 when it is not in the queue.
IndexOf(tracks, t) ==
  LET found == {i \in DOMAIN tracks : tracks[i] = t}
  IN  IF found = {} THEN 0 ELSE CHOOSE i \in found : \A j \in found : i <= j

\* _resolvedCurrentIndex, with position 1 when there is nothing better.
Resolved(q) ==
  IF q.index \in DOMAIN q.tracks THEN q.index
  ELSE IF IndexOf(q.tracks, q.current) # 0 THEN IndexOf(q.tracks, q.current)
  ELSE 1

\* Mutant of Reset: what remains to be drawn is not replaced.
ResetHistoryOnly(q, index) ==
  IF index \notin DOMAIN q.tracks
  THEN [q EXCEPT !.history = <<>>, !.at = 0]
  ELSE [q EXCEPT !.history = <<index>>, !.at = 1]

\* _resetShuffleHistory: a new round, in which only index was played.
Reset(q, index) ==
  IF index \notin DOMAIN q.tracks
  THEN [q EXCEPT !.history = <<>>, !.at = 0, !.remaining = {}]
  ELSE [q EXCEPT !.history = <<index>>, !.at = 1,
                 !.remaining = DOMAIN q.tracks \ {index}]

\* A queue whose current track is the one at index.
At(q, tracks, index) ==
  [q EXCEPT !.tracks = tracks, !.index = index, !.current = tracks[index]]

\* _selectQueueTrack with resetShuffleHistory.
Chosen(q, tracks, index) == Reset(At(q, tracks, index), index)

\* _markQueueChanged after the queue was edited around the current track.
Edited(q, tracks, index) ==
  Reset([q EXCEPT !.tracks = tracks, !.index = index], index)

-----------------------------------------------------------------------------
\* select: a track of the queue, or one inserted behind the current track.
Select(q, t) ==
  LET found == IndexOf(q.tracks, t)
      after == Resolved(q) + 1
  IN  IF found # 0 THEN Chosen(q, q.tracks, found)
      ELSE IF q.tracks # <<>> /\ q.current # NoTrack
      THEN Chosen(q, InsertAt(q.tracks, after, t), after)
      ELSE Chosen(q, Append(q.tracks, t), Len(q.tracks) + 1)

\* Mutant of PlayNext: the current position is not corrected.
PlayNextUncorrected(q, t) ==
  LET now    == IF q.current = NoTrack THEN 0 ELSE Resolved(q)
      found  == IndexOf(q.tracks, t)
      others == IF found = 0 THEN q.tracks ELSE RemoveAt(q.tracks, found)
  IN  IF found # 0 /\ found = now THEN Reset(q, q.index)
      ELSE Edited(q, InsertAt(others, IF now <= Len(others) THEN now + 1
                                      ELSE Len(others) + 1, t), now)

\* Mutant of PlayNext: a track that is in the queue is inserted again.
PlayNextAgain(q, t) ==
  LET now == IF q.current = NoTrack THEN 0 ELSE Resolved(q) IN
  IF IndexOf(q.tracks, t) # 0 /\ IndexOf(q.tracks, t) = now
  THEN Reset(q, q.index)
  ELSE Edited(q, InsertAt(q.tracks, now + 1, t), now)

\* playNext: moved or inserted behind the current track, which stays put.
PlayNext(q, t) ==
  LET now    == IF q.current = NoTrack THEN 0 ELSE Resolved(q)
      found  == IndexOf(q.tracks, t)
      others == IF found = 0 THEN q.tracks ELSE RemoveAt(q.tracks, found)
      index  == IF found # 0 /\ found < now THEN now - 1 ELSE now
  IN  IF found # 0 /\ found = now THEN Reset(q, q.index)
      ELSE Edited(q, InsertAt(others, index + 1, t), index)

\* addToQueue: at the end, unless it is there already.
AddToQueue(q, t) ==
  IF IndexOf(q.tracks, t) # 0 THEN Reset(q, q.index)
  ELSE Edited(q, Append(q.tracks, t), q.index)

\* Mutant of RemoveFromQueue: positions move down without a look at them.
RemoveShifting(q, i) ==
  LET tracks == RemoveAt(q.tracks, i) IN
  IF tracks = <<>> THEN EmptyQueue(q.mode)
  ELSE IF q.index = i THEN Chosen(q, tracks, IF i <= Len(tracks) THEN i
                                             ELSE Len(tracks))
  ELSE Edited(q, tracks, q.index - 1)

\* removeFromQueue: the current track is replaced by the one that follows
\* it, or by the last one.
RemoveFromQueue(q, i) ==
  LET tracks == RemoveAt(q.tracks, i)
      now    == IF q.current = NoTrack THEN 0 ELSE Resolved(q)
  IN  IF tracks = <<>> THEN EmptyQueue(q.mode)
      ELSE IF now = i
      THEN Chosen(q, tracks, IF i <= Len(tracks) THEN i ELSE Len(tracks))
      ELSE Edited(q, tracks, IF now > i THEN now - 1 ELSE now)

\* moveQueueItem: the current track is looked for at its new place.
MoveQueueItem(q, old, new) ==
  LET target == IF new <= Len(q.tracks) THEN new ELSE Len(q.tracks)
      tracks == InsertAt(RemoveAt(q.tracks, old), target, q.tracks[old])
  IN  IF old = target THEN q
      ELSE Edited(q, tracks,
                  IF q.current = NoTrack THEN 0 ELSE IndexOf(tracks, q.current))

\* Mutant of SetMode: the history is kept.
SetModeOnly(q, mode) == [q EXCEPT !.mode = mode]

\* setPlaybackMode: shuffle begins a new round.
SetMode(q, mode) ==
  IF mode = q.mode THEN q ELSE Reset([q EXCEPT !.mode = mode], q.index)

-----------------------------------------------------------------------------
\* _ensureShuffleHistory: the history must end in what is played now.
Ensured(q, now) ==
  IF q.at \in DOMAIN q.history /\ q.history[q.at] = now THEN q ELSE Reset(q, now)

\* Mutant of Drawn: a new round begins with every track of the queue.
DrawnWithCurrent(q, now) ==
  LET pool == IF q.remaining = {} THEN DOMAIN q.tracks ELSE q.remaining
      Longer(i) == Append(q.history, i)
  IN  {[q EXCEPT !.remaining = pool \ {i},
                 !.history = IF Len(Longer(i)) > MaxHistory
                             THEN Tail(Longer(i)) ELSE Longer(i),
                 !.at = IF Len(Longer(i)) > MaxHistory THEN @ ELSE @ + 1] :
         i \in pool}

\* One of the tracks that remain is drawn; when none does, all but the
\* current one are put back.  The history forgets its oldest entry.
Drawn(q, now) ==
  LET pool == IF q.remaining = {} THEN DOMAIN q.tracks \ {now} ELSE q.remaining
      Longer(i) == Append(q.history, i)
  IN  {[q EXCEPT !.remaining = pool \ {i},
                 !.history = IF Len(Longer(i)) > MaxHistory
                             THEN Tail(Longer(i)) ELSE Longer(i),
                 !.at = IF Len(Longer(i)) > MaxHistory THEN @ ELSE @ + 1] :
         i \in pool}

\* _nextShuffleIndex: forward in the history, or a new draw from its end.
ShuffledForward(q, now) ==
  LET h == Ensured(q, now) IN
  IF h.at < Len(h.history) THEN {[h EXCEPT !.at = @ + 1]} ELSE Drawn(h, now)

\* _previousShuffleIndex, which stays where the history begins.
ShuffledBack(q, now) ==
  LET h == Ensured(q, now) IN IF h.at <= 1 THEN h ELSE [h EXCEPT !.at = @ - 1]

\* The track the history has come to becomes the current one.
FollowHistory(h) == At(h, h.tracks, h.history[h.at])

(***************************************************************************)
(* next and previous: the set of outcomes, of which the random source      *)
(* picks one; the queue itself when they do not move.                      *)
(***************************************************************************)
NextOf(q) ==
  LET now == Resolved(q) IN
  IF q.tracks = <<>> THEN {q}
  ELSE IF q.current = NoTrack THEN {Chosen(q, q.tracks, 1)}
  ELSE IF q.mode = "shuffle"
  THEN IF Len(q.tracks) = 1 THEN {q}
       ELSE {FollowHistory(h) : h \in ShuffledForward(q, now)}
  ELSE IF now < Len(q.tracks) THEN {At(q, q.tracks, now + 1)}
  ELSE IF q.mode = "repeat_all" /\ Len(q.tracks) > 1 THEN {At(q, q.tracks, 1)}
  ELSE {q}

PreviousOf(q) ==
  LET now == Resolved(q) IN
  IF q.tracks = <<>> THEN q
  ELSE IF q.current = NoTrack THEN Chosen(q, q.tracks, 1)
  ELSE IF q.mode = "shuffle"
  THEN IF Len(q.tracks) = 1 THEN q ELSE FollowHistory(ShuffledBack(q, now))
  ELSE IF now > 1 THEN At(q, q.tracks, now - 1)
  ELSE IF q.mode = "repeat_all" /\ Len(q.tracks) > 1
  THEN At(q, q.tracks, Len(q.tracks))
  ELSE q
-----------------------------------------------------------------------------
(***************************************************************************)
(* What every edit must leave behind it.                                   *)
(***************************************************************************)

\* The current track is the one at the current position.
CurrentFits(q) ==
  IF q.current = NoTrack THEN q.index = 0
  ELSE q.index \in DOMAIN q.tracks /\ q.tracks[q.index] = q.current

\* The shuffle history has positions of the queue only, ends in the current
\* one when shuffle is on, and never has one twice in a row, which it could
\* if its last position were still to be drawn.
HistoryFits(q) ==
  /\ \A i \in DOMAIN q.history : q.history[i] \in DOMAIN q.tracks
  /\ Len(q.history) <= MaxHistory
  /\ q.at \in 0..Len(q.history) /\ (q.at = 0 <=> q.history = <<>>)
  /\ q.remaining \subseteq DOMAIN q.tracks
  /\ q.index = 0 => q.history = <<>>
  /\ q.mode = "shuffle" /\ q.index # 0 => q.at # 0 /\ q.history[q.at] = q.index
  /\ \A i \in 1..Len(q.history) - 1 : q.history[i] # q.history[i + 1]
  /\ q.history # <<>> => q.history[Len(q.history)] \notin q.remaining
=============================================================================
