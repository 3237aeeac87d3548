----------------------------- MODULE PlayQueue -----------------------------
(***************************************************************************)
(* The queue of the player app as the user edits it, and the copy of it    *)
(* that survives the end of the app (player_controller.dart and            *)
(* queue_repository.dart, apps/player/lib/features/player/application/).   *)
(*                                                                         *)
(* Every edit changes the queue at once and leaves the saving of it to a   *)
(* chain of writes that run one after the other, each of which may fail    *)
(* without a word.  The queue of the last session is loaded in the         *)
(* background: it is taken only if the user has not changed the queue      *)
(* meanwhile, and the load may fail too.  Of the media only the stop of    *)
(* clearQueue is here, since its failure replaces the queue once more.     *)
(***************************************************************************)
EXTENDS PlayOrder

CONSTANTS
  Lists,     \* the lists of tracks that can be played or were saved
  MaxLength, \* bound on the length of the queue
  MaxSaves   \* bound on the writes under way

ASSUME QueueAssumption ==
  /\ \A list \in Lists : list \in Seq(Tracks) /\ IsInjective(list)
  /\ MaxLength \in Nat /\ MaxSaves \in Nat

VARIABLES
  q,         \* the queue, see PlayOrder
  saved,     \* the queue in the preferences
  saves,     \* _queuePersistence: the queues still to be written
  restoring, \* restoreQueue is under way and _queueRevision is unchanged
  clearing,  \* a clearQueue whose stop fails: the mode it will put back, and
             \* how many writes it waits for; at most one at a time
  unsaved    \* history: nothing will write the newest queue any more

vars == <<q, saved, saves, restoring, clearing, unsaved>>

Clearings == [mode : Modes, left : Nat]

NoClearing == [mode |-> "none", left |-> 0]

Init ==
  /\ q = EmptyQueue("repeat_all")
  /\ saved \in Lists
  /\ saves = <<>>
  /\ restoring = TRUE
  /\ clearing = NoClearing
  /\ unsaved = FALSE

-----------------------------------------------------------------------------
\* Mutant of Write: the newest write overtakes the ones that wait.
WriteOvertaking(new) ==
  /\ Len(saves) < MaxSaves
  /\ q' = new
  /\ saves' = <<new.tracks>> \o saves
  /\ restoring' = FALSE
  /\ unsaved' = FALSE
  /\ UNCHANGED saved

\* The queue is replaced: a new revision, and one more write.
Write(new) ==
  /\ Len(saves) < MaxSaves
  /\ q' = new
  /\ saves' = Append(saves, new.tracks)
  /\ restoring' = FALSE
  /\ unsaved' = FALSE
  /\ UNCHANGED saved

Change(new) == Write(new) /\ UNCHANGED clearing

\* clearQueue, with a stop that succeeds or one that will turn out to fail.
ClearQueue ==
  /\ Write(EmptyQueue(q.mode))
  /\ \/ UNCHANGED clearing
     \/ /\ clearing = NoClearing
        /\ clearing' = [mode |-> q.mode, left |-> Len(saves) + 1]

\* Only the playback mode or the shuffle history is replaced.
Adjust(new) ==
  /\ q' = new
  /\ UNCHANGED <<saved, saves, restoring, clearing, unsaved>>

\* select and playNow, which no page gives a queue of its own.
PlayNow(t) ==
  /\ IndexOf(q.tracks, t) # 0 \/ Len(q.tracks) < MaxLength
  /\ Change(Select(q, t))

\* setQueue, with lists that have no track twice; an empty one clears the queue.
SetQueue(list, i) ==
  IF list = <<>> THEN ClearQueue
  ELSE i \in DOMAIN list /\ Change(Chosen([q EXCEPT !.tracks = list], list, i))

\* selectQueueIndex.
SelectQueueIndex(i) ==
  i \in DOMAIN q.tracks /\ Change(Chosen(q, q.tracks, i))

NextTrack ==
  \E new \in NextOf(q) :
    IF new.index = q.index THEN Adjust(new) ELSE Change(new)

PreviousTrack ==
  LET new == PreviousOf(q) IN
  IF new.index = q.index THEN Adjust(new) ELSE Change(new)

QueueNext(t) ==
  /\ IndexOf(q.tracks, t) # 0 \/ Len(q.tracks) < MaxLength
  /\ Change(PlayNext(q, t))

QueueLast(t) ==
  /\ IndexOf(q.tracks, t) # 0 \/ Len(q.tracks) < MaxLength
  /\ Change(AddToQueue(q, t))

\* removeFromQueue; the last track leaves with clearQueue.
RemoveItem(i) ==
  /\ i \in DOMAIN q.tracks
  /\ IF Len(q.tracks) = 1 THEN ClearQueue ELSE Change(RemoveFromQueue(q, i))

\* newIndex may be one past the end.
MoveItem(old, new) ==
  /\ old \in DOMAIN q.tracks /\ new \in 1..Len(q.tracks) + 1
  /\ LET moved == MoveQueueItem(q, old, new) IN
     IF moved = q THEN Adjust(q) ELSE Change(moved)

SetPlaybackMode(mode) == Adjust(SetMode(q, mode))

-----------------------------------------------------------------------------
\* One write of the chain ends, or fails and is forgotten (_persistQueue,
\* _clearPersistedQueue).
Save ==
  /\ saves # <<>>
  /\ saves' = Tail(saves)
  /\ \/ saved' = Head(saves) /\ UNCHANGED unsaved
     \/ saved' = saved /\ unsaved' = (unsaved \/ Len(saves) = 1)
  /\ clearing' = IF clearing.left > 0 THEN [clearing EXCEPT !.left = @ - 1]
                 ELSE clearing
  /\ UNCHANGED <<q, restoring>>

\* The catch of clearQueue, when the stop has failed and the write has ended:
\* the state is emptied again, whatever the user put in it since, and neither
\* the revision nor the shuffle history nor the saved queue hears of it.
ClearFails ==
  /\ clearing # NoClearing /\ clearing.left = 0
  /\ q' = [q EXCEPT !.tracks = <<>>, !.index = 0, !.current = NoTrack,
                    !.mode = clearing.mode]
  /\ clearing' = NoClearing
  /\ unsaved' = (unsaved \/ q.tracks # <<>>)
  /\ UNCHANGED <<saved, saves, restoring>>

\* restoreQueue: the saved queue, nothing of it current; nothing at all when
\* the load fails, or finds no queue or one that cannot be read.
Restore ==
  /\ restoring
  /\ restoring' = FALSE
  /\ \/ /\ saved # <<>>
        /\ q' = [EmptyQueue(q.mode) EXCEPT !.tracks = saved]
        /\ UNCHANGED unsaved
     \/ q' = q /\ unsaved' = (saved # <<>>)
  /\ UNCHANGED <<saved, saves, clearing>>

\* The app is started again; writes that had not begun are lost.
Crash ==
  /\ q' = EmptyQueue("repeat_all")
  /\ saves' = <<>>
  /\ restoring' = TRUE
  /\ clearing' = NoClearing
  /\ unsaved' = FALSE
  /\ UNCHANGED saved

Edit ==
  \/ \E t \in Tracks : PlayNow(t) \/ QueueNext(t) \/ QueueLast(t)
  \/ \E list \in Lists : \E i \in 1..Len(list) + 1 : SetQueue(list, i)
  \/ \E i \in DOMAIN q.tracks : SelectQueueIndex(i) \/ RemoveItem(i)
  \/ \E old, new \in 1..MaxLength + 1 : MoveItem(old, new)
  \/ ClearQueue
  \/ \E mode \in Modes : SetPlaybackMode(mode)

Next ==
  \/ Edit \/ NextTrack \/ PreviousTrack
  \/ Save \/ ClearFails \/ Restore \/ Crash

Spec == Init /\ [][Next]_vars

-----------------------------------------------------------------------------
(***************************************************************************)
(* Properties.                                                             *)
(***************************************************************************)

\* Every variable has its type.
TypeOK ==
  /\ q \in PlayQueueType
  /\ saved \in Seq(Tracks) /\ saves \in Seq(Seq(Tracks))
  /\ restoring \in BOOLEAN /\ unsaved \in BOOLEAN
  /\ clearing \in Clearings \cup {NoClearing}

\* The current track is the one at the current position, wherever the queue
\* was edited around it; without a current track there is no position.
CurrentInQueue == CurrentFits(q)

\* No edit puts a track twice in the queue.
QueueHasNoRepeats == IsInjective(q.tracks)

\* The shuffle history has only positions of the queue, ends in the current
\* one when shuffle is on, and never has one twice in a row, however the
\* queue was edited and the mode changed since a track was drawn.  Only an
\* empty queue may have an older history, which a failed clear leaves behind.
HistoryFollows == q.tracks # <<>> => HistoryFits(q)

\* Shuffle plays every track once before it plays one again: what the round
\* has drawn, the end of the history, is exactly what no longer remains.
EveryTrackOncePerRound ==
  LET drawn == Len(q.tracks) - Cardinality(q.remaining) IN
  q.tracks # <<>> /\ q.history # <<>> /\ drawn <= Len(q.history) =>
    {q.history[i] : i \in Len(q.history) - drawn + 1..Len(q.history)}
      = DOMAIN q.tracks \ q.remaining

\* "shuffle next avoids the current item and previous uses history"
\* (player_controller_test.dart): when next moves, in whatever mode, it moves
\* to another position, and previous moves back.
PreviousUndoesNext ==
  q.current # NoTrack =>
    \A new \in NextOf(q) :
      new # q => new.index # q.index /\ PreviousOf(new).index = q.index

\* When all writes have ended, and the last session's queue is not awaited,
\* the next start finds the queue of the user, however many writes failed
\* before the newest.  The exceptions are those the code forgets: the newest
\* write failed, the load at the start did and the user has changed nothing
\* since, or a clear whose stop failed has emptied the queue once more.
SavedIsQueue == saves = <<>> /\ ~restoring /\ ~unsaved => saved = q.tracks
=============================================================================
