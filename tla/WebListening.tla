---------------------------- MODULE WebListening ----------------------------
(***************************************************************************)
(* What the web app reports of the music that is listened to: the tracker  *)
(* in useAudioPlayer (apps/web/web/src/hooks/useAudioPlayer.tsx), the      *)
(* events it makes (utils/listening.ts), their outbox in localStorage and  *)
(* its flush (hooks/useListeningEvents.ts), and the server that counts     *)
(* them (RecordEvents, server/internal/userdata/store.go).                 *)
(*                                                                         *)
(* Time and positions are in units of which MinListened are one second and *)
(* MaxGap are twelve.  An event of the <audio> element reaches its handler *)
(* before the user does anything else.  Of the streams that are requested  *)
(* the last one counts, as WebPlayer shows; it comes or fails.  There is   *)
(* one tab.                                                                *)
(***************************************************************************)
EXTENDS Naturals, Sequences, SequencesExt, FiniteSets

CONSTANTS
  Accounts, Tracks,
  None,         \* nobody, no track, no position
  MaxGap,       \* MAX_CONTIGUOUS_PLAYBACK_GAP_SECONDS
  MinListened,  \* what is listened to for less is not reported
  MaxBatch,     \* MAX_EVENT_BATCH_SIZE
  Length,       \* length of every track
  MaxRefusing,  \* bound on what the server refuses at a time
  MaxPlayed,    \* bound on the time that is played in all
  MaxChoices,   \* bound on the tracks that are chosen
  MaxFailures,  \* bound on lost requests and answers
  MaxSignIns    \* bound on signing in, and on loading the page, again

ASSUME ListeningAssumption ==
  /\ None \notin Accounts \cup Tracks
  /\ {MinListened, MaxBatch, Length} \subseteq Nat \ {0}
  /\ {MaxGap, MaxRefusing, MaxPlayed, MaxChoices, MaxFailures, MaxSignIns}
       \subseteq Nat

VARIABLES
  user,       \* userKeyRef: who is signed in
  sounding,   \* the track that is the source of the element
  position,   \* currentTime of the element
  paused,     \* whether the element is paused
  current,    \* currentTrack, which is shown
  source,     \* whether there is a sourceUrlRef
  loading,    \* whether the stream of the current track is under way
  tracked,    \* listeningTrackRef
  heard,      \* listenedSecondsRef
  last,       \* lastPlaybackPositionRef
  events,     \* eventsRef
  flushing,   \* flushingRef
  calls,      \* batches under way, with what has become of them
  stored,     \* the outboxes in localStorage
  counted,    \* the events the server has counted, in its order
  refusing,   \* the accounts and tracks the server takes no new event of
  log,        \* the events that were recorded for an account so far
  played,     \* how long there was sound while the track was the current one
  chosen,     \* how often it became that
  count       \* how often the bounded things happened

element == <<sounding, position, paused, current, source, loading, played>>
tracker == <<tracked, heard, last, chosen>>
outbox  == <<events, flushing, calls, stored, log>>
server  == <<counted, refusing>>
vars    == <<user, element, tracker, outbox, server, count>>

-----------------------------------------------------------------------------
Sum(f, S) == LET total[T \in SUBSET S] ==
                   IF T = {} THEN 0
                   ELSE LET x == CHOOSE x \in T : TRUE IN f[x] + total[T \ {x}]
             IN  total[S]

Counted(what) == count' = [count EXCEPT ![what] = @ + 1]

Init ==
  /\ user \in Accounts
  /\ sounding = None /\ position = 0 /\ paused = TRUE
  /\ current = None /\ source = FALSE /\ loading = FALSE
  /\ tracked = None /\ heard = 0 /\ last = None
  /\ events = <<>> /\ flushing = FALSE /\ calls = {}
  /\ stored = [a \in Accounts |-> <<>>] /\ log = [a \in Accounts |-> <<>>]
  /\ counted = [a \in Accounts |-> <<>>] /\ refusing = {}
  /\ played = [t \in Tracks |-> 0] /\ chosen = [t \in Tracks |-> 0]
  /\ count = [choices |-> 0, failures |-> 0, signIns |-> 0]

-----------------------------------------------------------------------------
\* playbackDelta: a step back, or a gap, is not listening.
PlaybackDelta(from, to) ==
  IF to > from /\ to - from <= MaxGap THEN to - from ELSE 0

\* accumulateListening: what has been heard by this position.
HeardAt(at) == heard + (IF last = None THEN 0 ELSE PlaybackDelta(last, at))

\* createListeningEvent: one event, or none for what was hardly heard.  Its
\* id is random; here it says whose event it is, and which one.
NewEvents(track, units) ==
  IF track = None \/ units < MinListened THEN <<>>
  ELSE <<[id |-> <<user, Len(log[user]) + 1>>, track |-> track, units |-> units]>>

\* A request that is made now, with what is first in the outbox.
Batch(queue) == SubSeq(queue, 1, IF Len(queue) < MaxBatch THEN Len(queue) ELSE MaxBatch)
Call(account, queue) ==
  [account |-> account, batch |-> Batch(queue), state |-> "sent", waited |-> TRUE]

(***************************************************************************)
(* flush: one loop at a time, and none without a user or an event.         *)
(***************************************************************************)
Flush(account, queue, others, running) ==
  IF account # None /\ ~running /\ queue # <<>>
  THEN /\ flushing' = TRUE
       /\ calls' = others \cup {Call(account, queue)}
  ELSE /\ flushing' = running
       /\ calls' = others

\* record: nothing is kept for nobody.
Record(new) ==
  IF user = None \/ new = <<>>
  THEN UNCHANGED outbox
  ELSE /\ events' = events \o new
       /\ stored' = [stored EXCEPT ![user] = events \o new]
       /\ log' = [log EXCEPT ![user] = @ \o new]
       /\ Flush(user, events \o new, calls, flushing)

\* flushListening, at a position of the element: what was heard is recorded
\* and the tracker starts anew from there.
FlushListening(at) ==
  IF tracked = None THEN UNCHANGED <<tracker, outbox>>
  ELSE /\ Record(NewEvents(tracked, HeardAt(at)))
       /\ heard' = 0 /\ last' = at
       /\ UNCHANGED <<tracked, chosen>>

\* resetListening: the tracker starts with another track.
Reset(track) ==
  /\ tracked' = track /\ heard' = 0 /\ last' = 0
  /\ chosen' = [chosen EXCEPT ![track] = @ + 1]

\* startTrack: another track than the one of before ends the tracking of it,
\* although it may sound until the stream has come.
StartTracking(track) ==
  IF tracked = track THEN UNCHANGED <<tracker, outbox>>
  ELSE /\ Record(IF tracked = None THEN <<>> ELSE NewEvents(tracked, HeardAt(position)))
       /\ Reset(track)

-----------------------------------------------------------------------------
\* The element plays on, and says so now and then.
Advance ==
  /\ user # None /\ ~paused /\ position < Length
  /\ Sum(played, Tracks) < MaxPlayed
  /\ position' = position + 1
  /\ played' = [played EXCEPT ![current] = @ + 1]
  /\ UNCHANGED <<user, sounding, paused, current, source, loading, tracker, outbox,
                 server, count>>

\* Mutant of TimeUpdate: the position that was counted up to is forgotten.
TimeUpdateForgetful ==
  /\ user # None /\ ~paused /\ last # position
  /\ heard' = HeardAt(position)
  /\ UNCHANGED <<user, element, tracked, last, chosen, outbox, server, count>>

\* timeupdate: what was heard since the last one is added.
TimeUpdate ==
  /\ user # None /\ ~paused /\ last # position
  /\ heard' = HeardAt(position) /\ last' = position
  /\ UNCHANGED <<user, element, tracked, chosen, outbox, server, count>>

Pause ==
  /\ user # None /\ ~paused
  /\ paused' = TRUE
  /\ FlushListening(position)
  /\ UNCHANGED <<user, sounding, position, current, source, loading, played, server,
                 count>>

\* The source is played, whichever it is; at its end it starts anew.
Resume ==
  /\ user # None /\ sounding # None /\ paused
  /\ count.choices < MaxChoices /\ Counted("choices")
  /\ paused' = FALSE /\ position' = (IF position = Length THEN 0 ELSE position)
  /\ last' = position'
  /\ UNCHANGED <<user, sounding, current, source, loading, played, tracked, heard,
                 chosen, outbox, server>>

Seek(to) ==
  /\ user # None /\ sounding # None /\ to # position
  /\ count.choices < MaxChoices /\ Counted("choices")
  /\ position' = to /\ last' = to
  /\ UNCHANGED <<user, sounding, paused, current, source, loading, played, tracked,
                 heard, chosen, outbox, server>>

\* The user chooses another track, or the same before it has a source: its
\* stream is requested, and the source of before sounds on.
Choose(track) ==
  /\ user # None /\ (track # current \/ ~source)
  /\ count.choices < MaxChoices /\ Counted("choices")
  /\ current' = track /\ loading' = TRUE
  /\ StartTracking(track)
  /\ UNCHANGED <<user, sounding, position, paused, source, played, server>>

\* The stream comes: the element starts it.
Stream ==
  /\ user # None /\ loading
  /\ sounding' = current /\ position' = 0 /\ paused' = FALSE
  /\ source' = TRUE /\ loading' = FALSE /\ last' = 0
  /\ UNCHANGED <<user, current, played, tracked, heard, chosen, outbox, server,
                 count>>

\* It fails: the source of before stays, under the name of the current track.
StreamFails ==
  /\ user # None /\ loading
  /\ loading' = FALSE
  /\ UNCHANGED <<user, sounding, position, paused, current, source, played, tracker,
                 outbox, server, count>>

(***************************************************************************)
(* The source is over: the current track is recorded as completed, and     *)
(* what playRelative finds follows: nothing, the source once more, or      *)
(* another track.                                                          *)
(***************************************************************************)
Ended(next) ==
  /\ user # None /\ ~paused /\ position = Length
  /\ Record(NewEvents(tracked, HeardAt(position)))
  /\ \/ /\ next = None
        /\ paused' = TRUE /\ heard' = 0 /\ last' = position
        /\ UNCHANGED <<position, current, loading, tracked, chosen>>
     \/ /\ next = current
        /\ position' = 0 /\ heard' = 0 /\ last' = 0
        /\ UNCHANGED <<paused, current, loading, tracked, chosen>>
     \/ /\ next \notin {None, current}
        /\ paused' = TRUE /\ current' = next /\ loading' = TRUE
        /\ Reset(next)
        /\ UNCHANGED position
  /\ UNCHANGED <<user, sounding, source, played, server, count>>

-----------------------------------------------------------------------------
\* The interval of 30 s, and the browser being online again.
Retry ==
  /\ user # None /\ ~flushing /\ events # <<>>
  /\ Flush(user, events, calls, flushing)
  /\ UNCHANGED <<user, element, tracker, events, stored, log, server, count>>

\* An event is counted if it has no receipt yet.
CountOnce(known, event) ==
  IF \E i \in DOMAIN known : known[i].id = event.id THEN known
  ELSE Append(known, event)

\* The events of a batch, one after the other.
CountBatch(known, batch) ==
  LET after[n \in 0 .. Len(batch)] ==
        IF n = 0 THEN known ELSE CountOnce(after[n - 1], batch[n])
  IN  after[Len(batch)]

\* The batch has an event that is new to the server and that it refuses: from
\* the future of its clock, one track and year too many, a full document.
Refused(account, batch) ==
  \E i \in DOMAIN batch :
    /\ <<account, batch[i].track>> \in refusing
    /\ \A j \in DOMAIN counted[account] : counted[account][j].id # batch[i].id

\* RecordEvents: either every event of a batch is counted that has not been,
\* or none is.
Serve(c) ==
  /\ c \in calls /\ c.state = "sent"
  /\ LET answered(state) ==
           calls' = (calls \ {c}) \cup
                    (IF c.waited THEN {[c EXCEPT !.state = state]} ELSE {})
     IN  IF Refused(c.account, c.batch)
         THEN answered("refused") /\ UNCHANGED counted
         ELSE /\ answered("served")
              /\ counted' = [counted EXCEPT ![c.account] = CountBatch(@, c.batch)]
  /\ UNCHANGED <<user, element, tracker, events, flushing, stored, log, refusing,
                 count>>

\* The server comes to refuse something, or does so no longer.
Refuse(account, track) ==
  /\ <<account, track>> \notin refusing /\ Cardinality(refusing) < MaxRefusing
  /\ refusing' = refusing \cup {<<account, track>>}
  /\ UNCHANGED <<user, element, tracker, outbox, counted, count>>

Accept(account, track) ==
  /\ <<account, track>> \in refusing
  /\ refusing' = refusing \ {<<account, track>>}
  /\ UNCHANGED <<user, element, tracker, outbox, counted, count>>

\* What is left of the outbox after a batch.
Remaining(batch) == SubSeq(events, Len(batch) + 1, Len(events))

\* Mutant of Answer: whoever is signed in by now.
AnswerForAnyone(c) ==
  /\ c \in calls /\ c.waited /\ c.state \in {"served", "refused"}
  /\ IF user = None \/ c.state = "refused"
     THEN flushing' = FALSE /\ calls' = calls \ {c} /\ UNCHANGED <<events, stored>>
     ELSE /\ events' = Remaining(c.batch)
          /\ stored' = [stored EXCEPT ![user] = Remaining(c.batch)]
          /\ Flush(user, Remaining(c.batch), calls \ {c}, FALSE)
  /\ UNCHANGED <<user, element, tracker, log, server, count>>

(***************************************************************************)
(* The answer: as many events as were sent leave the outbox, if the same   *)
(* user is signed in, again or still, and the loop goes on; after a        *)
(* refusal it ends, and all of the batch stays.                            *)
(***************************************************************************)
Answer(c) ==
  /\ c \in calls /\ c.waited /\ c.state \in {"served", "refused"}
  /\ IF user # c.account \/ c.state = "refused"
     THEN flushing' = FALSE /\ calls' = calls \ {c} /\ UNCHANGED <<events, stored>>
     ELSE /\ events' = Remaining(c.batch)
          /\ stored' = [stored EXCEPT ![c.account] = Remaining(c.batch)]
          /\ Flush(c.account, Remaining(c.batch), calls \ {c}, FALSE)
  /\ UNCHANGED <<user, element, tracker, log, server, count>>

\* Mutant of GiveUp: the loop seems to go on.
GiveUpQuietly(c) ==
  /\ c \in calls /\ c.waited
  /\ count.failures < MaxFailures /\ Counted("failures")
  /\ \/ calls' = calls \ {c}
     \/ c.state = "sent" /\ calls' = (calls \ {c}) \cup {[c EXCEPT !.waited = FALSE]}
  /\ UNCHANGED <<user, element, tracker, events, flushing, stored, log, server>>

\* The request or its answer is lost, or the wait for it times out, when the
\* server may yet see the request.  The loop ends.
GiveUp(c) ==
  /\ c \in calls /\ c.waited
  /\ count.failures < MaxFailures /\ Counted("failures")
  /\ flushing' = FALSE
  /\ \/ calls' = calls \ {c}
     \/ c.state = "sent" /\ calls' = (calls \ {c}) \cup {[c EXCEPT !.waited = FALSE]}
  /\ UNCHANGED <<user, element, tracker, events, stored, log, server>>

-----------------------------------------------------------------------------
\* Signing out, or being refused, takes the element off the page; a stream
\* that is under way may yet come for it, which only leaves a sourceUrlRef.
SignOut ==
  /\ user # None
  /\ user' = None /\ events' = <<>>
  /\ sounding' = None /\ position' = 0 /\ paused' = TRUE /\ loading' = FALSE
  /\ source' \in {source, source \/ loading}
  /\ UNCHANGED <<current, played, tracker, flushing, calls, stored, log, server,
                 count>>

\* The outbox of the user is read and flushed.
SignIn(account) ==
  /\ user = None /\ count.signIns < MaxSignIns /\ Counted("signIns")
  /\ user' = account /\ events' = stored[account]
  /\ Flush(account, stored[account], calls, flushing)
  /\ UNCHANGED <<element, tracker, stored, log, server>>

\* The page is loaded again; nobody waits for the answers of before.
Reload ==
  /\ user # None /\ count.signIns < MaxSignIns /\ Counted("signIns")
  /\ sounding' = None /\ position' = 0 /\ paused' = TRUE
  /\ current' = None /\ source' = FALSE /\ loading' = FALSE
  /\ tracked' = None /\ heard' = 0 /\ last' = None
  /\ events' = stored[user]
  /\ Flush(user, stored[user],
           {[c EXCEPT !.waited = FALSE] : c \in {d \in calls : d.state = "sent"}},
           FALSE)
  /\ UNCHANGED <<user, played, chosen, stored, log, server>>

-----------------------------------------------------------------------------
Network == \E c \in calls : Serve(c) \/ Answer(c)

Next ==
  \/ Advance \/ TimeUpdate \/ Pause \/ Resume \/ Stream \/ StreamFails
  \/ \E to \in 0 .. Length : Seek(to)
  \/ \E track \in Tracks : Choose(track)
  \/ \E next \in Tracks \cup {None} : Ended(next)
  \/ Retry \/ Network \/ \E c \in calls : GiveUp(c)
  \/ \E account \in Accounts, track \in Tracks :
       Refuse(account, track) \/ Accept(account, track)
  \/ SignOut \/ Reload \/ \E account \in Accounts : SignIn(account)

\* The timer fires, and the server is reached and answers.
Fairness == WF_vars(Retry) /\ WF_vars(Network)

Spec == Init /\ [][Next]_vars /\ Fairness

-----------------------------------------------------------------------------
Events == [id : Accounts \X (Nat \ {0}), track : Tracks, units : Nat \ {0}]

\* The shape of the state, and what the page and localStorage have in common.
TypeOK ==
  /\ user \in Accounts \cup {None}
  /\ sounding \in Tracks \cup {None} /\ current \in Tracks \cup {None}
  /\ position \in 0 .. Length /\ {paused, source, loading} \subseteq BOOLEAN
  /\ tracked \in Tracks \cup {None} /\ heard \in Nat
  /\ last \in 0 .. Length \/ last = None
  /\ flushing \in BOOLEAN
  /\ \A a \in Accounts : {stored[a], log[a], counted[a]} \subseteq Seq(Events)
  /\ events = IF user = None THEN <<>> ELSE stored[user]

(***************************************************************************)
(* No event is lost and none moves: the outbox of an account is the end of *)
(* what was recorded for it, and the server has counted all before that.   *)
(***************************************************************************)
OutboxIsUncounted ==
  \A a \in Accounts :
    \E n \in 0 .. Len(log[a]) :
      /\ stored[a] = SubSeq(log[a], n + 1, Len(log[a]))
      /\ ToSet(SubSeq(log[a], 1, n)) \subseteq ToSet(counted[a])

(***************************************************************************)
(* However often a batch is sent, and whenever it arrives, an event counts *)
(* once, and for the account it was recorded for.                          *)
(***************************************************************************)
CountsOnce ==
  \A a \in Accounts :
    /\ \A i, j \in DOMAIN counted[a] : counted[a][i].id = counted[a][j].id => i = j
    /\ ToSet(counted[a]) \subseteq ToSet(log[a])

(***************************************************************************)
(* What is recorded reaches the server once, in order and for the account  *)
(* it was recorded for, whatever is lost and whoever signs in meanwhile    *)
(* (useListeningEvents.ts, and the receipts of RecordEvents).              *)
(***************************************************************************)
ReportsAreCounted == TypeOK /\ OutboxIsUncounted /\ CountsOnce

\* Where the events of a track are, in what was recorded for the accounts.
Of(track) ==
  UNION {{a} \X {i \in DOMAIN log[a] : log[a][i].track = track} : a \in Accounts}

\* What was recorded of a track for all the accounts.
Units(track) == Sum([at \in Of(track) |-> log[at[1]][at[2]].units], Of(track))

(***************************************************************************)
(* No more is reported of a track than sounded while it was the current    *)
(* one, and a gap more for every time it became that: resetListening       *)
(* starts at 0 while the source of before may be anywhere, so that its     *)
(* beginning counts once more.  This holds whatever is paused, sought and  *)
(* skipped, and whether or not the streams come (useAudioPlayer.tsx).      *)
(***************************************************************************)
ReportedWasPlayed ==
  \A t \in Tracks :
    Units(t) + (IF tracked = t THEN heard ELSE 0) <= played[t] + MaxGap * chosen[t]

\* What is sent first has an event that the server refuses.
Blocked(account) == Refused(account, Batch(stored[account]))

(***************************************************************************)
(* As long as the user stays, and the server does not refuse what is first *)
(* in it, the outbox drains.  What it refuses stays first, and is sent     *)
(* again and again (useListeningEvents.ts).                                *)
(***************************************************************************)
OutboxDrains ==
  \A a \in Accounts :
    stored[a] # <<>> /\ user = a ~> stored[a] = <<>> \/ user # a \/ Blocked(a)
=============================================================================
