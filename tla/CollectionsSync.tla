-------------------------- MODULE CollectionsSync --------------------------
(***************************************************************************)
(* Favorites and playlists of the player app, kept on the device and       *)
(* synchronised with the server:                                           *)
(* apps/player/lib/features/collections/application/                       *)
(* collections_controller.dart, with its repository and API, the session   *)
(* it follows, and the server's answers (Collections).                     *)
(*                                                                         *)
(* Every change is applied to the cache of the active account at once and  *)
(* queued in that account's outbox; a synchronisation fetches the account, *)
(* lays the outbox over it, and pushes the outbox from the head.  The      *)
(* first account that is loaded on the device takes over the collections   *)
(* made before there was one, and imports them before anything else.       *)
(* Changes, loads and synchronisations run one at a time from one queue,   *)
(* but the session, the other devices and the network go on while one of   *)
(* them waits for the server, and build() loads the first collections      *)
(* beside the queue.  One exchange with the server and the commit that     *)
(* follows it are one step: the end of the app between them is the same as *)
(* the loss of the answer.  A load and its writes are one step, too, but   *)
(* for the end of the app between them (CrashInClaim).                     *)
(***************************************************************************)
EXTENDS CollectionsSnapshot

CONSTANTS
  Accounts,      \* accounts of the server
  Local,         \* the scope without an account
  Loading,       \* AsyncLoading: no state yet
  Changes,       \* the requests the user can make
  OtherChanges,  \* the requests another device of an account makes
  MaxChanges,    \* bound on the changes the user makes
  MaxOther,      \* bound on the changes other devices make
  MaxQueue,      \* bound on the operations waiting when one more is added
  Faults         \* what may happen, a subset of FaultKinds

FaultKinds == {"lost",          \* a request or its answer is lost
               "crash",         \* the app is killed and started again
               "claim_crash",   \* ... inside the repository's first load
               "busy_sign_out", \* the user signs out in a synchronisation
               "busy_sign_in",  \* ... and in again, as somebody else
               "expiry"}        \* the server stops to accept the session

ASSUME SyncAssumption ==
  /\ Local \notin Accounts /\ Loading \notin Snapshot
  /\ Changes \subseteq Request /\ OtherChanges \subseteq Request
  /\ \A r \in Changes : r.op \notin {"import", "set_playback_mode"}
  /\ {MaxChanges, MaxOther, MaxQueue} \subseteq Nat
  /\ Faults \subseteq FaultKinds

Scopes == Accounts \cup {Local}

VARIABLES
  server,    \* the accounts on the server (revisions are not counted)
  session,   \* whose token the app sends, Local for none
  expired,   \* the server no longer accepts that token
  active,    \* _activeScope
  cache,     \* [Scopes -> what the repository keeps for the scope]
  owner,     \* the account that took over the local collections, or Local
  opening,   \* build(): the scope it loads, how far it is, what it has read
  shown,     \* state: the collections on the screen, or Loading
  queue,     \* _operationTail: the operations that wait to run
  sync,      \* the running synchronisation, or Idle
  fresh,     \* playlist ids no playlist was created with
  taps,      \* number of changes the user made, up to MaxChanges
  others,    \* number of changes other devices made, up to MaxOther
  issued,    \* history: the changes queued in each account's outbox
  resolved,  \* history: how many of them the account's server has answered
  moved      \* history: the local collections each account took over

vars == <<server, session, expired, active, cache, owner, opening, shown, queue,
          sync, fresh, taps, others, issued, resolved, moved>>

sessionVars == <<session, expired, active>>
claimVars   == <<owner, moved>>
cacheVars   == <<cache, claimVars, shown, issued>>
bounds      == <<fresh, taps, others>>

-----------------------------------------------------------------------------
\* Mutant of Verdict: a limit is taken for a transient failure.
VerdictRetryingLimits(r, status) ==
  CASE status \in {"changed", "unchanged"} -> "done"
    [] status \in {"conflict", "data_limit"} -> "retry"
    [] status = "not_found" /\
         r.op \in {"remove_favorite", "remove_track", "delete_playlist"} -> "done"
    [] OTHER -> "rejected"

(***************************************************************************)
(* How the app takes the server's answer to an item: "done", "rejected"    *)
(* (a permanent client failure: the item is dropped and the account is     *)
(* fetched again), or "retry" (the item stays at the head).  404 is done   *)
(* for what was to be removed; 409 counts as transient; 413 and the other  *)
(* 404s are permanent, and so is 401 (see Push).                           *)
(***************************************************************************)
Verdict(r, status) ==
  CASE status \in {"changed", "unchanged"} -> "done"
    [] status = "conflict" -> "retry"
    [] status = "not_found" /\
         r.op \in {"remove_favorite", "remove_track", "delete_playlist"} -> "done"
    [] OTHER -> "rejected"

-----------------------------------------------------------------------------
Idle == [scope |-> Local, step |-> "idle"]
Steps == {"import", "fetch", "push", "refetch", "confirm"}

\* A change remembers (as history) the scope it was made in.
ChangeOp(r)   == [kind |-> "change", request |-> r, seen |-> active]
SyncOp(scope) == [kind |-> "sync", scope |-> scope]
LoadOp(scope) == [kind |-> "load", scope |-> scope]

\* _scheduleSync: only an account is synchronised.
Scheduled(scope) == IF scope = Local THEN <<>> ELSE <<SyncOp(scope)>>

\* legacy: the collections still to be imported, empty when there are none.
EmptyCache ==
  [snapshot |-> EmptySnapshot, outbox |-> <<>>, legacy |-> EmptySnapshot]

\* build() loads a scope ("load"), has read it ("return"), and has returned:
\* "late" when another scope was active by then or the cache has changed.
Opening(step, scope, read) == [step |-> step, scope |-> scope, read |-> read]

Init ==
  /\ server = [a \in Accounts |-> EmptyUser]
  /\ session \in Scopes
  /\ expired = FALSE
  /\ active = session
  /\ cache = [s \in Scopes |-> EmptyCache]
  /\ owner = Local
  /\ opening = Opening("load", session, EmptySnapshot)
  /\ shown = Loading
  /\ queue = <<>>
  /\ sync = Idle
  /\ fresh = PlaylistIds
  /\ taps = 0
  /\ others = 0
  /\ issued = [a \in Accounts |-> <<>>]
  /\ resolved = [a \in Accounts |-> 0]
  /\ moved = [a \in Accounts |-> EmptySnapshot]

\* Mutant of Commit: shown without a look at the active scope.
CommitShown(caches, scope, new) ==
  /\ cache' = [caches EXCEPT ![scope] = new]
  /\ shown' = new.snapshot

\* Save a scope's cache; show it if the scope is still the active one.
Commit(caches, scope, new) ==
  /\ cache' = [caches EXCEPT ![scope] = new]
  /\ shown' = IF scope = active THEN new.snapshot ELSE shown

(***************************************************************************)
(* The repository's load: the first account to be loaded takes over the    *)
(* local collections, which are removed from the local scope.              *)
(***************************************************************************)
Claims(scope) == scope # Local /\ owner = Local

\* Mutant of Loaded: what is taken over is not kept for the import.
LoadedOnly(scope) ==
  IF ~Claims(scope) THEN cache
  ELSE [cache EXCEPT ![Local] = EmptyCache,
                     ![scope].snapshot = cache[Local].snapshot]

\* The caches once this scope is loaded.
Loaded(scope) ==
  LET local == cache[Local].snapshot IN
  IF ~Claims(scope) THEN cache
  ELSE [cache EXCEPT ![Local] = EmptyCache,
                     ![scope] = [snapshot |-> local, outbox |-> <<>>,
                                 legacy |-> local]]

Claim(scope) ==
  IF ~Claims(scope) THEN UNCHANGED claimVars
  ELSE /\ owner' = scope
       /\ moved' = [moved EXCEPT ![scope] = cache[Local].snapshot]

-----------------------------------------------------------------------------
(***************************************************************************)
(* The user: changes, signing in and out, coming back to the app.          *)
(***************************************************************************)

\* addFavoriteTrack ... removeTrackFromPlaylist: the operation is queued; a
\* playlist to create gets an id of its own.
Tap(r) ==
  /\ Len(queue) < MaxQueue /\ taps < MaxChanges
  /\ r.op = "create_playlist" => r.playlist \in fresh
  /\ fresh' = IF r.op = "create_playlist" THEN fresh \ {r.playlist} ELSE fresh
  /\ taps' = taps + 1
  /\ queue' = Append(queue, ChangeOp(r))
  /\ UNCHANGED <<server, sessionVars, opening, cacheVars, sync, others,
                 resolved>>

\* The session store and _switchToSession: the screen is emptied and the
\* load of the new scope queued behind whatever waits.
SwitchTo(scope) ==
  /\ session' = scope /\ expired' = FALSE
  /\ active' = scope
  /\ IF scope = active THEN UNCHANGED <<shown, queue>>
     ELSE shown' = EmptySnapshot /\ queue' = Append(queue, LoadOp(scope))

\* Signing in, or out again.
Switch(scope) ==
  /\ scope # session /\ Local \in {scope, session}
  /\ Len(queue) < MaxQueue
  /\ \/ sync = Idle
     \/ scope = Local /\ "busy_sign_out" \in Faults
     \/ scope # Local /\ (scope = sync.scope \/ "busy_sign_in" \in Faults)
  /\ SwitchTo(scope)
  /\ UNCHANGED <<server, opening, cache, claimVars, sync, bounds, issued,
                 resolved>>

\* didChangeAppLifecycleState(resumed), and a pull to refresh.
Resume ==
  /\ active # Local
  /\ Len(queue) < MaxQueue
  /\ queue' = Append(queue, SyncOp(active))
  /\ UNCHANGED <<server, sessionVars, opening, cacheVars, sync, bounds,
                 resolved>>

\* The app is started again: the session was saved, build() begins with its
\* scope, and operations that waited are gone.
Start ==
  /\ active' = session
  /\ opening' = Opening("load", session, EmptySnapshot)
  /\ shown' = Loading
  /\ queue' = <<>>
  /\ sync' = Idle
  /\ UNCHANGED <<server, session, expired, bounds, issued, resolved>>

Crash ==
  /\ "crash" \in Faults
  /\ UNCHANGED <<cache, claimVars>>
  /\ Start

-----------------------------------------------------------------------------
(***************************************************************************)
(* build() awaits its load outside of the queue, and reads before anything *)
(* that is queued meanwhile.  The session may change in both waits; what   *)
(* build() returns becomes the state even then, while the synchronisation  *)
(* it schedules is that of the scope that is active by now.                *)
(***************************************************************************)
BuildLoads ==
  /\ opening.step = "load"
  /\ LET scope  == opening.scope
         caches == Loaded(scope)
     IN  /\ cache' = caches
         /\ Claim(scope)
         /\ opening' = Opening("return", scope, caches[scope].snapshot)
  /\ UNCHANGED <<server, sessionVars, shown, queue, sync, bounds, issued,
                 resolved>>

BuildReturns ==
  /\ opening.step = "return"
  /\ shown' = opening.read
  /\ queue' = queue \o Scheduled(active)
  /\ opening' = IF opening.scope = active /\ opening.read = cache[active].snapshot
                THEN Opening("done", opening.scope, EmptySnapshot)
                ELSE [opening EXCEPT !.step = "late"]
  /\ UNCHANGED <<server, sessionVars, cache, claimVars, sync, bounds, issued,
                 resolved>>

-----------------------------------------------------------------------------
(***************************************************************************)
(* Operations leave the queue in order, when the one before has ended.  A  *)
(* change waits for the first state ("await future"): what build() returns *)
(* or what is set before it.                                               *)
(***************************************************************************)
NextOp(kind) == /\ opening.step # "load" /\ sync = Idle
                /\ queue # <<>> /\ Head(queue).kind = kind

NextChange == NextOp("change") /\ shown # Loading

\* The end comes between the writes of a first load: the owner is set, the
\* local collections may be removed, the account's cache is not written.
CrashInClaim ==
  /\ "claim_crash" \in Faults
  /\ \E scope \in Scopes :
       /\ \/ opening.step = "load" /\ scope = opening.scope
          \/ NextChange /\ scope = active
          \/ NextOp("load") /\ scope = Head(queue).scope
       /\ Claims(scope)
       /\ owner' = scope
  /\ cache' \in {cache, [cache EXCEPT ![Local] = EmptyCache]}
  /\ UNCHANGED moved
  /\ Start

\* A change runs for the scope that is active when its turn comes.
RunChange ==
  /\ NextChange
  /\ Claim(active)
  /\ LET r      == Head(queue).request
         caches == Loaded(active)
         before == caches[active]
         after  == Optimistic(before.snapshot, r)
         remote == active # Local
     IN  IF after = before.snapshot
         THEN queue' = Tail(queue) /\ cache' = caches /\ UNCHANGED <<shown, issued>>
         ELSE /\ queue' = Tail(queue) \o Scheduled(active)
              /\ Commit(caches, active,
                        [before EXCEPT !.snapshot = after,
                           !.outbox = IF remote THEN Append(@, r) ELSE @])
              /\ issued' = IF remote
                           THEN [issued EXCEPT ![active] = Append(@, r)]
                           ELSE issued
  /\ UNCHANGED <<server, sessionVars, opening, sync, bounds, resolved>>

\* Mutant of FirstStep: the import is not looked for.
FirstStepFetch(caches, scope) == [scope |-> scope, step |-> "fetch"]

\* The first exchange of a synchronisation: the import that is due, if any.
FirstStep(caches, scope) ==
  [scope |-> scope,
   step  |-> IF caches[scope].legacy # EmptySnapshot THEN "import" ELSE "fetch"]

\* Mutant of RunSync: also for a scope that is no longer active.
RunSyncAnyway ==
  /\ NextOp("sync")
  /\ queue' = Tail(queue)
  /\ sync' = FirstStep(cache, Head(queue).scope)
  /\ UNCHANGED <<server, sessionVars, opening, cacheVars, bounds, resolved>>

\* _syncScope returns at once for a scope that is no longer active.
RunSync ==
  /\ NextOp("sync")
  /\ queue' = Tail(queue)
  /\ sync' = IF Head(queue).scope = active
             THEN FirstStep(cache, active) ELSE Idle
  /\ UNCHANGED <<server, sessionVars, opening, cacheVars, bounds, resolved>>

\* The load of a switch: also for a scope that is no longer active.
RunLoad ==
  /\ NextOp("load")
  /\ queue' = Tail(queue)
  /\ LET scope  == Head(queue).scope
         caches == Loaded(scope)
     IN  /\ cache' = caches
         /\ Claim(scope)
         /\ IF scope # active THEN UNCHANGED <<shown, sync>>
            ELSE /\ shown' = caches[scope].snapshot
                 /\ sync' = IF scope = Local THEN Idle
                            ELSE FirstStep(caches, scope)
  /\ UNCHANGED <<server, sessionVars, opening, bounds, issued, resolved>>

-----------------------------------------------------------------------------
(***************************************************************************)
(* The synchronisation of sync.scope.  A request carries the token that is *)
(* stored when it is sent, so it reaches the account of the session, which *)
(* need no longer be the scope's.                                          *)
(***************************************************************************)
Outbox == cache[sync.scope].outbox

\* Save what changes of the synchronised cache.
Save(new) == Commit(cache, sync.scope, new)

\* What the synchronisation sends next that may change the account.
Outgoing == IF sync.step = "import"
            THEN ImportRequest(cache[sync.scope].legacy) ELSE Head(Outbox)

Authorized == session # Local /\ ~expired

\* Mutant of Continue: an empty outbox is not looked for.
ContinuePushing(outbox) == sync' = [sync EXCEPT !.step = "push"]

\* The loop over the outbox, and what follows it.
Continue(outbox) ==
  sync' = [sync EXCEPT !.step = IF outbox = <<>> THEN "confirm" ELSE "push"]

\* A failure that is not permanent ends the synchronisation.
GiveUp == sync' = Idle

\* A 401 for a stored token removes it and signs the user out.
SignedOut ==
  IF session = Local THEN UNCHANGED <<sessionVars, queue, shown>>
  ELSE SwitchTo(Local)

\* The legacy collections are imported before anything is fetched.  A
\* refusal, permanent or not, ends the synchronisation.
Import ==
  /\ sync.step = "import"
  /\ Authorized
  /\ LET outcome == Apply(server[session], Outgoing) IN
     /\ server' = [server EXCEPT ![session] = outcome.user]
     /\ IF outcome.status \in {"changed", "unchanged"}
        THEN /\ Save([cache[sync.scope] EXCEPT !.legacy = EmptySnapshot])
             /\ sync' = [sync EXCEPT !.step = "fetch"]
        ELSE GiveUp /\ UNCHANGED <<cache, shown>>
  /\ UNCHANGED <<sessionVars, opening, claimVars, queue, bounds, issued,
                 resolved>>

\* Mutant of Fetch: the answer is saved without the outbox laid over it.
FetchPlain ==
  /\ sync.step \in {"fetch", "refetch", "confirm"}
  /\ Authorized
  /\ Save([cache[sync.scope] EXCEPT !.snapshot = SnapshotOf(server[session])])
  /\ IF sync.step = "confirm" THEN GiveUp ELSE Continue(Outbox)
  /\ UNCHANGED <<server, sessionVars, opening, claimVars, queue, bounds,
                 issued, resolved>>

\* Fetched, the outbox laid over the answer, and saved.
Fetch ==
  /\ sync.step \in {"fetch", "refetch", "confirm"}
  /\ Authorized
  /\ Save([cache[sync.scope] EXCEPT
             !.snapshot = ApplyOutbox(SnapshotOf(server[session]), Outbox)])
  /\ IF sync.step = "confirm" THEN GiveUp ELSE Continue(Outbox)
  /\ UNCHANGED <<server, sessionVars, opening, claimVars, queue, bounds,
                 issued, resolved>>

\* An import or a fetch without a session that the server accepts.
FetchUnauthorized ==
  /\ sync.step \in {"import", "fetch", "refetch", "confirm"}
  /\ ~Authorized
  /\ SignedOut
  /\ GiveUp
  /\ UNCHANGED <<server, opening, cache, claimVars, bounds, issued, resolved>>

\* The head of the outbox is sent, answered, and dropped unless the answer
\* is transient; after a rejection the account is fetched again.
Push ==
  /\ sync.step = "push"
  /\ Authorized
  /\ LET outcome == Apply(server[session], Outgoing)
         verdict == Verdict(Outgoing, outcome.status)
     IN  /\ server' = [server EXCEPT ![session] = outcome.user]
         /\ IF verdict = "retry"
            THEN GiveUp /\ UNCHANGED <<cacheVars, resolved>>
            ELSE /\ Save([cache[sync.scope] EXCEPT !.outbox = Tail(@)])
                 /\ IF verdict = "done" THEN Continue(Tail(Outbox))
                    ELSE sync' = [sync EXCEPT !.step = "refetch"]
                 /\ resolved' = IF session = sync.scope
                                THEN [resolved EXCEPT ![session] = @ + 1]
                                ELSE resolved
                 /\ UNCHANGED <<claimVars, issued>>
  /\ UNCHANGED <<sessionVars, opening, queue, bounds>>

\* 401 is a permanent client failure like any other: the item is dropped.
PushUnauthorized ==
  /\ sync.step = "push"
  /\ ~Authorized
  /\ cache' = [cache EXCEPT ![sync.scope].outbox = Tail(@)]
  /\ SignedOut
  /\ sync' = [sync EXCEPT !.step = "refetch"]
  /\ UNCHANGED <<server, opening, claimVars, bounds, issued, resolved>>

\* Mutant of LoseRequest: a transient failure drops the item it was about.
LoseRequestAndItem ==
  /\ "lost" \in Faults
  /\ sync.step \in Steps
  /\ cache' = IF sync.step = "push"
              THEN [cache EXCEPT ![sync.scope].outbox = Tail(@)] ELSE cache
  /\ GiveUp
  /\ UNCHANGED <<server, sessionVars, opening, claimVars, shown, issued,
                 queue, bounds, resolved>>

\* A request that does not arrive, or whose answer does not.
LoseRequest ==
  /\ "lost" \in Faults
  /\ sync.step \in Steps
  /\ GiveUp
  /\ UNCHANGED <<server, sessionVars, opening, cacheVars, queue, bounds,
                 resolved>>

LoseAnswer ==
  /\ "lost" \in Faults
  /\ sync.step \in {"import", "push"} /\ Authorized
  /\ server' = [server EXCEPT ![session] = Apply(@, Outgoing).user]
  /\ GiveUp
  /\ UNCHANGED <<sessionVars, opening, cacheVars, queue, bounds, resolved>>

-----------------------------------------------------------------------------
(***************************************************************************)
(* The rest of the world.                                                  *)
(***************************************************************************)
OtherDevice(a, r) ==
  /\ others < MaxOther
  /\ Apply(server[a], r).status = "changed"
  /\ server' = [server EXCEPT ![a] = Apply(@, r).user]
  /\ others' = others + 1
  /\ UNCHANGED <<sessionVars, opening, cacheVars, queue, sync, fresh, taps,
                 resolved>>

\* The session is revoked or runs out on the server.
Expire ==
  /\ "expiry" \in Faults
  /\ session # Local /\ ~expired
  /\ expired' = TRUE
  /\ UNCHANGED <<server, session, active, opening, cacheVars, queue, sync,
                 bounds, resolved>>

SyncSteps == \/ Import \/ Fetch \/ FetchUnauthorized \/ Push \/ PushUnauthorized
             \/ LoseRequest \/ LoseAnswer

Next ==
  \/ \E r \in Changes : Tap(r)
  \/ \E scope \in Scopes : Switch(scope)
  \/ Resume \/ Crash \/ CrashInClaim
  \/ BuildLoads \/ BuildReturns
  \/ RunChange \/ RunSync \/ RunLoad
  \/ SyncSteps
  \/ \E a \in Accounts, r \in OtherChanges : OtherDevice(a, r)
  \/ Expire

Spec == Init /\ [][Next]_vars

(***************************************************************************)
(* Fairness: build() ends and queued operations run; the user comes back   *)
(* to the app again and again; an exchange that is tried again and again   *)
(* is answered.                                                            *)
(***************************************************************************)
FairSpec ==
  /\ Spec
  /\ WF_vars(BuildLoads) /\ WF_vars(BuildReturns)
  /\ WF_vars(RunChange) /\ WF_vars(RunSync) /\ WF_vars(RunLoad)
  /\ WF_vars(FetchUnauthorized) /\ WF_vars(PushUnauthorized)
  /\ SF_vars(Resume) /\ SF_vars(Import) /\ SF_vars(Fetch) /\ SF_vars(Push)

-----------------------------------------------------------------------------
(***************************************************************************)
(* Properties.                                                             *)
(***************************************************************************)

\* Every variable has its type.
TypeOK ==
  /\ server \in [Accounts -> UserData]
  /\ session \in Scopes /\ active \in Scopes /\ expired \in BOOLEAN
  /\ cache \in [Scopes -> [snapshot : Snapshot, outbox : Seq(Changes),
                         legacy : Snapshot]]
  /\ owner \in Scopes /\ moved \in [Accounts -> Snapshot]
  /\ opening \in [step : {"load", "return", "done", "late"}, scope : Scopes,
                  read : Snapshot]
  /\ shown \in Snapshot \cup {Loading}
  /\ \A i \in DOMAIN queue :
       queue[i] \in [kind : {"change"}, request : Changes, seen : Scopes]
                    \cup [kind : {"sync", "load"}, scope : Scopes]
  /\ sync \in [scope : Accounts, step : Steps] \cup {Idle}
  /\ sync.step = "push" => Outbox # <<>>
  /\ fresh \subseteq PlaylistIds
  /\ taps \in 0..MaxChanges /\ others \in 0..MaxOther
  /\ issued \in [Accounts -> Seq(Changes)]
  /\ resolved \in [Accounts -> Nat]

\* "The locally persisted optimistic state and outbox remain available"
\* (_syncScope): of the changes made for an account, exactly those that its
\* own server has not answered are in its outbox, in order.  None is lost,
\* repeated or overtaken, whatever was lost, rejected or interrupted.
OutboxIsUnresolved ==
  \A a \in Accounts :
    cache[a].outbox = SubSeq(issued[a], resolved[a] + 1, Len(issued[a]))

\* The snapshot shows what the item asked for: of a playlist that has been
\* deleted, anywhere, it has nothing to show.
Listed(snapshot, id) == {p \in Range(snapshot.playlists) : p.id = id}

Visible(snapshot, r) ==
  CASE r.op = "add_favorite"    -> Contains(snapshot.favorites, r.track)
    [] r.op = "remove_favorite" -> ~Contains(snapshot.favorites, r.track)
    [] r.op = "create_playlist" -> Listed(snapshot, r.playlist) # {}
    [] r.op = "delete_playlist" -> Listed(snapshot, r.playlist) = {}
    [] r.op = "rename_playlist" ->
         \A p \in Listed(snapshot, r.playlist) : p.name = r.name
    [] r.op = "add_track" ->
         \A p \in Listed(snapshot, r.playlist) : Contains(p.tracks, r.track)
    [] r.op = "remove_track" ->
         \A p \in Listed(snapshot, r.playlist) : ~Contains(p.tracks, r.track)

\* A later item decides about the same thing: the favorite, whether there is
\* the playlist, its name, or the track in it.  A new playlist has a name and
\* no tracks.
Supersedes(later, r) ==
  \/ /\ {later.op, r.op} \subseteq {"add_favorite", "remove_favorite"}
     /\ later.track = r.track
  \/ /\ {later.op, r.op} \subseteq {"create_playlist", "delete_playlist"}
     /\ later.playlist = r.playlist
  \/ /\ later.op \in {"create_playlist", "rename_playlist"}
     /\ r.op = "rename_playlist" /\ later.playlist = r.playlist
  \/ /\ later.op = "create_playlist" /\ r.op = "add_track"
     /\ later.playlist = r.playlist
  \/ /\ {later.op, r.op} \subseteq {"add_track", "remove_track"}
     /\ later.playlist = r.playlist /\ later.track = r.track

AllVisible(snapshot, outbox) ==
  \A i \in DOMAIN outbox :
    \/ Visible(snapshot, outbox[i])
    \/ \E j \in DOMAIN outbox : i < j /\ Supersedes(outbox[j], outbox[i])

\* What the user changed and the server has not answered stays visible in
\* the account's cache, whatever a fetch brought in from other devices: the
\* last pending item about each thing is what the cache shows.
PendingStaysVisible ==
  \A a \in Accounts : AllVisible(cache[a].snapshot, cache[a].outbox)

\* An account that starts with the local collections it took over, and the
\* effect of a sequence of changes on it.
Imported(a) == Apply(EmptyUser, ImportRequest(moved[a])).user

EffectOf(a, changes) ==
  FoldLeft(LAMBDA user, r : Apply(user, r).user, Imported(a), changes)

\* With one device and limits that are not reached: the server holds the
\* local collections the account took over and the effect of the changes up
\* to the head of the outbox, or through it (its answer was lost), and the
\* device shows the effect of all of them.  Retries, of the import too, add
\* nothing, and nothing is applied out of order or before the import.
ServerHoldsPrefix ==
  \A a \in Accounts :
    LET answered == Len(issued[a]) - Len(cache[a].outbox) IN
    /\ \/ cache[a].legacy # EmptySnapshot /\ server[a] = EmptyUser
       \/ \E n \in answered..Len(issued[a]) :
            /\ n <= IF cache[a].legacy # EmptySnapshot THEN 0 ELSE answered + 1
            /\ server[a] = EffectOf(a, SubSeq(issued[a], 1, n))
    /\ cache[a].snapshot = SnapshotOf(EffectOf(a, issued[a]))

\* "isolates each server account cache" (collections_controller_test.dart):
\* an account's cache is filled only from that account.  This does not hold when
\* somebody else signs in during a synchronisation.
CachesAreIsolated == [][Fetch /\ cache' # cache => sync.scope = session]_vars

\* A synchronisation begins for the account that is signed in, and changes and
\* reads no other, whenever the session ends, by the user or by the server,
\* whatever waits, is lost or interrupted.  Excepted is only what happens once
\* somebody else has signed in during it: it goes on with their token.
AccountsAreIsolated ==
  [][/\ sync = Idle /\ sync' # Idle => sync'.scope = session
     /\ session \in {sync.scope, Local} =>
          /\ \A a \in Accounts :
               server'[a] # server[a] => sync.scope = a \/ others' # others
          /\ Fetch /\ cache' # cache => sync.scope = session]_vars

\* A change reaches the account whose collections the user saw when making
\* it, although it may wait behind a synchronisation for its turn.  This does
\* not hold: it is made in the account that is active when its turn comes.
ChangesReachTheirAccount ==
  [][(RunChange /\ cache' # cache) => Head(queue).seen = active]_vars

\* The screen shows what is kept for the active scope, or that it loads.
\* Until the load that a switch queued has run it may be empty; without an
\* account it may still show the local collections that an account is taking
\* over.  Nothing that ends after a switch shows one scope's collections in
\* another, with one exception: a build() that a switch, or a synchronisation,
\* has overtaken shows what it read until the next load or commit.
ScreenIsCurrent ==
  \/ shown = cache[active].snapshot
  \/ shown = Loading /\ opening.step \in {"load", "return"}
  \/ /\ \E i \in DOMAIN queue : queue[i] = LoadOp(active)
     /\ shown = EmptySnapshot \/ active = Local
  \/ opening.step = "late" /\ shown = opening.read

\* "migrates legacy data once": collections leave the local scope by a change
\* the user made there, or into the cache of the account that owns them now,
\* where they wait for the import.  Excepted is the end of the app between the
\* writes of a first load, which loses them.
LocalIsHandedOver ==
  [][cache'[Local] # cache[Local] =>
       \/ RunChange /\ active = Local
       \/ owner' # Local /\ cache'[owner'].legacy = cache[Local].snapshot
       \/ CrashInClaim]_vars

\* The server will refuse the import, or answer 409 to the head of the outbox:
\* the playlist it creates exists under another name.
Blocked(a) ==
  IF cache[a].legacy # EmptySnapshot
  THEN Apply(server[a], ImportRequest(cache[a].legacy)).status
         \notin {"changed", "unchanged"}
  ELSE /\ cache[a].outbox # <<>>
       /\ Apply(server[a], Head(cache[a].outbox)).status = "conflict"

\* In the end nothing is pending for the signed-in account, and the device
\* shows what the server holds.  There are two exceptions: 409 counts as
\* transient, so the items behind a conflict are never sent; and an import
\* the server refuses for good is tried again for ever, with nothing sent.
EventuallyInStep ==
  <>[](session # Local =>
         \/ Blocked(session)
         \/ /\ cache[session].outbox = <<>>
            /\ cache[session].snapshot = SnapshotOf(server[session]))
=============================================================================
