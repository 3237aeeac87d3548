# LyraNest: the formal model

TLA+ modules of the LyraNest music system (a Go server, a Flutter player, a
web player), the TLC runs that check them on small instances, and theorems
about them that TLAPS checks. Everything is translated from the source under
`src/`; `PROJECT.json` names, for every definition, the lines it models.

## 1. The system and its parts

| Part | State | Operations | What is hard | What makes it correct |
|---|---|---|---|---|
| User data store (`server/internal/userdata`) | one document for all accounts in memory, the same in `user-data-v1.json` | add/remove favorites, create/rename/delete playlists, add/remove playlist tracks, import, playback mode, listening events | crashes and failures inside a write, unsynced renames, retried requests, limits | an answer survives; the file can always be loaded; revisions go forward; retries and imports are harmless |
| Personal handlers (`server/internal/httpapi/personal.go`) | none | map requests and errors | - | statuses the client can tell apart |
| Collections synchronisation (player, `features/collections`) | a cache and an outbox per account and for "no account", the owner of the first collections, the screen, the operation queue | seven kinds of change, sign in and out, refresh, resume, legacy import, fetch, push | other devices, lost answers, crashes, session switched or expired during a synchronisation, rejected items | nothing the user did is lost, repeated or overtaken; accounts do not mix; the screen is that of the account; in the end device and server agree |
| Account and session service (`server/internal/auth`) | account, sessions, login failures, key, file | register, login, authenticate, revoke | sessions that expire, unsynced files, races of registration | one account; a revoked session stays revoked |
| Session of the player (`features/auth`, `core/network`) | stored session, server address, state | verify, sign in and out, 401, change of server | answers that arrive after the session has changed | a newer session is never overwritten by an older answer |
| Library scan and track store (`server/internal/library`, `store`) | tracks in memory and in a file, status of the scan | scan, status, browse | a scan during a scan, reading while it replaces | one scan at a time; status and tracks agree |
| Offline downloads (player, `features/offline`) | tasks, files, index, quota | download, pause, resume, delete, quota, restore | work that goes on after pause, index and files against crashes, concurrent writers of the index | a completed entry has its file; a paused task can be resumed; usage stays within the quota |
| Player and queue (`features/player`) | queue, position in it, shuffle order, status | select, next, previous, play next, move, remove, play, pause, stop, seek, completion | an open or a play that is overtaken; events that arrive late | the status is that of the last command; shuffle visits every track once |
| Listening tracker and outbox (`features/listening`) | the running play, stored events, the flush under way | start, pause, stop, complete, flush | account switches, lost answers, refusals | an event is sent until it is taken, and counted once |
| Sleep timer (`features/player/application/sleep_timer`) | the timer | start, cancel, extend, expire | firing after cancel | playback stops only when the last timer says so |
| System media, desktop lyrics | projections of the player | - | late platform calls | - |
| Collections of the web app (`hooks/useCollections.ts`, `utils/collectionState.ts`) | per account a cache and an outbox in local storage; what is shown; the loop that pushes | mark, create, add, delete; sign in and out; push, fetch; import of older data | answers that come after the account has changed, refusals, lost answers, reloads, two tabs | no change is lost, no account sees another's, the outbox drains |
| Player of the web app (`hooks/useAudioPlayer.tsx`, `utils/playback.ts`) | queue and place, current track, the element, its object URL, the last request | choose, next, previous, play next, modes, media events | streams that overtake each other, events of an element that was replaced | the source is of the current track; no URL leaks; loading ends |
| Listening reports of the web app (`hooks/useListeningEvents.ts`, `utils/listening.ts`) | the running play, the outbox per account | count, record, flush | seeks, account switches, lost answers | counted once, for the right account, no more than was heard |
| Session and shell of the web app (`App.tsx`, `components/AuthPage.tsx`) | the token (shared by the tabs), the view, the form, the list | first check, register, login, logout, 401 | late answers, another tab, half a registration | sessions end for a reason; no blank page; nothing waits forever |
| Pages and drawers of the web app (`pages/`, `components/`) | list, status, scan, shelves, drawers | load, scan, open, search, apply | answers out of order, a scan under way while the status is read | a quiet page shows what the server has; every page says one true thing |
| Library page of the web app (`pages/LibraryPage.tsx`, `components/TrackTable.tsx`) | section, search, order, menu, toast | browse, play, mark, edit | state drawn earlier than it is used | one body; the played table is the queue |
| Streaming, artwork, metadata, lyrics, browsing | none | reads | - | - |

How they interact: the player and the web player call the server over HTTP
with the token of the session. Every exchange ends in the auth service, then
in the store. In the player, the session drives the collections, the listening
outbox and the downloads (each keeps its data per account), and the API client
signs the user out when a request with a token is answered 401. The web app
has the same parts as hooks of one React component tree: `App` holds session,
list and pages, and hands the API, the user and callbacks to the hooks.

The repository has two copies of the web app, `apps/web/src` and
`apps/web/web/src`, that differ in `App.tsx`, the listening reports and the pages
of discovery and report. The maps of WebCollectionState, WebCollections,
WebPlayer, WebSession, WebAnswers and WebLibrary name the first, those of WebListening,
WebLyrics, WebScreens and WebPages the second, which alone has all of that code
in use.

## 2. Modules

```
Collections            what a request does to an account (pure operators)
   |-- UserDataStore   the document, its file, failures, crashes, restarts
   |     |-- DurableUserData      what the store promises (abstract)
   |     |-- UserDataStoreProofs  its theorems
   |     `-- MCUserDataStore      instances for TLC
   `-- CollectionsSnapshot        what the player keeps of it, and its outbox
         |                        applied to that (pure operators)
         |-- CollectionsProofs    what merges, requests and outboxes compute;
         |                        for the proofs above and below
         `-- CollectionsSync      device(s), caches, outboxes, session,
               |                  network, server
               |-- CollectionsSyncProofs
               `-- MCCollectionsSync
PlayOrder              queue, current track and shuffle history (pure operators)
   `-- PlayQueue       the edits of the user, next and previous, the saved copy
         |-- PlayQueueProofs
         `-- MCPlayQueue
Collections
   `-- WebCollectionState         collections in the browser (pure operators)
         |-- WebCollections       tabs, storage, outbox, requests, other devices
         |     `-- MCWebCollections
         `-- WebLibrary           the library page over list, collections, queue
               |-- WebAnswers     what the client makes of answers (pure operators)
               `-- MCWebLibrary
WebPlayer              queue, element, streams
   |-- WebPlayerProofs
   `-- MCWebPlayer
WebListening           tracker, outbox, server's count
   |-- WebListeningProofs
   `-- MCWebListening
WebSession             tabs, token, form, list, server
   |-- WebSessionProofs
   `-- MCWebSession
WebLyrics              lines of a lyrics file (pure operators)
   `-- WebScreens      what a page or drawer draws (pure operators)
         `-- WebPages  list, scan, shelves, management page, drawers
               `-- MCWebPages
SequenceLemmas         lists without repeats, prefixes, induction up to a bound
```

**Collections** is the algorithmic part of `store.go` as the handlers call it:
`Apply(user, request)` gives the account after the request and the status of
the answer (`changed`, `unchanged`, `not_found`, `conflict`, `data_limit`, ...).
Names, ids and tracks are model values; trimming and lower-casing of names
are left out (the requests the model makes are already normal).

**UserDataStore** has a write in the steps that can fail or be cut short:
`BeginWrite` (lock, clone, change, validate, `phase = "writing"`),
`RenameFile` (temporary file written and renamed, `phase = "renamed"`),
`Publish` (directory synced, memory replaced, answered), and the ways out:
`Abandon` (refused before or by the write), `FailWrite`, `FailDirSync` (the
rename stays although the error is answered). `Crash` keeps the file,
`PowerLoss` chooses any content in `recoverable` (a rename counts as durable
once a directory sync succeeded), `Restart` loads what is there. The lock is the
`phase`: a second change cannot begin while one is written, as with `s.mu`.
`answered` and `refused` are history variables, for the properties only.

**DurableUserData** has two variables, what is served and what the next
start will find, and the actions a client may rely on: a change of one account
by one whole request, or a restart. `UserDataStore!ImplementsDurable` is the
refinement, with the document in the role of the first (the file while the
server is down) and the file in that of the second.

**CollectionsSnapshot** is `_applyOutbox` of the player: `Optimistic` is what one
item of the outbox makes of the collections on the device, where nothing can be
refused. `Without` is Dart's `where` that leaves some values out, as a fold.

**CollectionsSync** is the whole way from the screen to the account on the
server. `queue` is `_operationTail`, `sync` the running synchronisation with
the exchange it waits for (`import`, `fetch`, `push`, `refetch` after a
rejection, `confirm` after the last push); one exchange and the commit that
follows it are one step. The session is separate from the active scope, as in
the code: `Authorized` looks at the token that is stored when the request
is sent. `build()` stands outside of the queue: `opening` says how far it is, `BuildLoads`
is its read of the cache, `BuildReturns` what becomes the screen after it, also when a
switch (`SwitchTo`) or a synchronisation has come in between; a change waits for it
(`NextChange`). A load of the repository, with the writes by which the first account
takes over the local collections, is one step, or ends the app between two of them
(`CrashInClaim`). `fresh` has the playlist ids not used yet (the app makes them from
time and randomness). The server is `Collections!Apply`, and the durable
store of the other module stands for it: an answered request is kept.

**PlayOrder** has one operator per method of `player_controller.dart` that
touches the queue: what it does up to its first `await`, on a record of the
fields it touches. Dart's list positions are counted from 1 here, and `-1`
is 0. A track stands for its id, so replacing a track by newer data under the
same id is no change. `NextOf` is a set because the random source may draw any
of what remains.

**PlayQueue** makes actions of them and adds the saved copy: `Write` is
`_markQueueChanged` with `_persistQueue`, an element of `saves` is a write that waits in
`_queuePersistence`, `Save` is the end of the first one, or its failure, which the code
swallows. `restoring` stands for `restoreQueue` being under way with the
`_queueRevision` it began with; `Restore` may find nothing, as it does when the load
fails or the saved queue cannot be read. `ClearQueue` may have a `stop()` that will
fail: `clearing` is then what its catch awaits, and `ClearFails` the catch. `unsaved` is
history: it remembers that the newest write failed. `Crash` is the end of the app; the
shuffle history is not saved, and neither is what is current. `setQueue` takes lists
without repeats: they are library lists, albums and playlists, none of which has a track
twice.

The modules of the web app follow one rule: JavaScript runs a handler up to
its next `await` in one step, and a request is a record that is sent, served and
answered in steps of their own, so that everything else may happen in between
and requests overtake each other.

**WebCollections** has a call of `flushOutbox` or `refresh` for every request in
flight, with the account (`activeUserKey`) and the session it carries; `Receive`
is all the code after the await: `Handled` says what is stored, `NextCall` where
the loop goes on. `raced` and `open` are history. `Busy` is the guard of what is
fair; that it is `ENABLED` of it is part of `CollectionsAreSound`.

**WebPlayer** has the `<audio>` elements as small machines: a source, pending
promises of `play()`, events not yet delivered. `listener` tells the copies
of `App` apart: one passes `useAudioPlayer` the same function in every render,
the other a new one, so that the effect in `Reset` runs after each step.

**WebListening** counts time in units: a unit of playback, an event of the element, a
choice or a seek are each a step. The server has receipts per account, by the id of the
event (their limit of 50,000 is left out); `refusing` is what it refuses at the moment,
which `Refuse` and `Accept` change at will: an event whose time is ahead of the server's
clock, one list or document that is full, a write that fails. `Serve` refuses a whole
batch for one such event. `current` is the track that is shown, `sounding` the one whose
source the element has: a stream that fails (`StreamFails`), or has not come, leaves
them apart. An id is random in the code and names the account and the number of the
event here. `CountBatch` is the loop of `RecordEvents`, one `CountOnce` after the other.

**WebSession** has one token for all tabs, and per tab the page, its form and
its list. `FormParts` is what `AuthPage` draws; `Refused` is what a 401 does in the
API client, followed by what the caller does with the error and, on a form whose mode
it changes, the effect that clears the error again.

**WebPages** has one record per part of the state of `App`, `ManagementPage`,
`LyricsDrawer` and `ScrapeDrawer`; `WebScreens` says which parts of each are drawn
for it. `mixed` remembers of which kinds (list, status, candidates) the answer that comes
last may be an old one: because requests of the kind overlap, because a scan goes on that
the page does not await (its answer was lost, or the page was left and entered again), or
because a refresh after a scan was lost. The next request of the kind that is sent alone
clears it. The properties except just these.

**WebLibrary** draws late: `drawn` is what the page shows of the collections,
`cache` what the hook holds; `Reset` is the effect of `useAudioPlayer` after a render of
the copy whose listener is new each time. **WebAnswers** has the `normalize...` functions of
the API client; they are checked by the named assumptions of MCWebLibrary, over
every answer of a small set.

## 3. Runs

All tracks, playlists, names and accounts are model values. The bounds are the
constants `Max...`; a guard that names a `Max...` of the model (not of the
code) says so where the constant is declared.

| Run | Question | Instance |
|---|---|---|
| `store_one_user` | every file that is left can be loaded, retries and imports are harmless, no track twice, limits cannot make the file unreadable | one account, every request, three revisions, limits within reach (3 favorites, 2 playlists, 3 tracks, 7 entries), failing writes and syncs, crashes |
| `store_faults` | the same against a loss of power, and `DurableUserData` is implemented | two accounts in one document, two revisions each, up to two unsynced renames, failing writes and syncs |
| `sync_one_device` | the outbox is what is unanswered; the server holds a prefix of what the user did, the screen all of it | two accounts, seven kinds of change, local collections to import, three changes, lost answers, crashes, no switch during a synchronisation |
| `sync_other_device` | pending changes stay visible; in the end all agree | another device makes two of five kinds of change, limits 1, lost answers |
| `sync_screen` | the screen is that of the active scope, or of a `build()` that was overtaken; a synchronisation touches no other account until somebody else signs in; the local collections reach their owner | two accounts, two changes, every fault, sign-ins and sign-outs at any moment (2,983,231 states) |
| `play_queue` | the current track keeps its place under edits, no track twice, the last edit is what is saved; shuffle plays each track once per round, previous undoes next, the history fits the queue | three tracks, queues of three, two waiting writes, a history of 4, so that rounds of two and three tracks end before, at and after its overflow, failing writes, loads and clearings, restarts (558,724 states) |
| `web_collections` | no change is lost but in the fetch after a refusal; accounts stay apart; the outbox drains unless a 409 blocks it | two accounts, one tab, two requests in flight, two changes, one of another device (which deletes the playlist or renames it), two sign-ins, one loss or expiry, one older favorite (1,393,631 states) |
| `web_player` | source, place and queue fit the current track; play next comes next; loading ends | three tracks, three clicks, two streams in flight, one failure, one sign-in or reload, both listeners |
| `web_listening` | counted once, for the right account, no more than sounded, in the end unless refused | two accounts, two tracks of two units, three units played, gaps of one, two choices or seeks, streams that fail, batches of one, one loss, one change of account, one track refused for a while or for good (1,369,940 states) |
| `web_session` | no page blank or loading for nothing; sessions end for a reason; all settles | two tabs, two requests in flight, two sessions, one fault, three clicks |
| `web_pages` | quiet pages show what the server has; screens are true; nothing loads or scans for ever but the status of a scan that is not awaited | two tracks and albums, two findings of a scan, two requests in flight, four clicks, so that the management page is left during a scan and entered again, one fault (1,660,440 states) |
| `web_library` | one body, the played table is the queue | three tracks, two answers, one playlist, four clicks, two lists, one change of another device |

Why the bounds are enough: the store looks at one request and one account at
a time, so two accounts, two tracks and two playlists show every combination
of "this one" and "another one"; limits of 1 to 3 are reached from both sides;
three revisions allow a failed write between two successful ones. In the
synchronisation one rejected or lost item, one in front of it and one behind it
need three changes; `MaxQueue` bounds only what the *user* adds to the queue,
so it never hides an operation of the app itself.

An edit of the queue looks at the current position, one other position and
the end: with three tracks each of them can be before, at and behind the others. Two
waiting writes are enough for one to fail behind, and one before, another.
The 100 entries of the shuffle history are the constant `MaxHistory`, 4 in the
run and any number from 2 on in the proofs.

In the web app two requests in flight are the fewest that can overtake each other; they
are also the refreshes of list and status that a scan awaits. Two sign-ins are a switch of
accounts, or the same account again. Four clicks on the library page open a section, search
or order it, and play; on the management page they enter it, start a scan, leave it and
come back. One fault at a time is enough to end a loop at each of its awaits, since the
model lets it happen at all of them. `MaxBatch` is 1, so that an outbox of two needs two
requests.

Properties that except a case, because the code does not do better there (section 5):
`OnlyARefusalLosesChanges` the changes in `raced`; the two `OutboxDrains` a head that the
server refuses or answers 409 (`Blocked`); `PagesAreCurrent` and
`ScreensAreTrue` what is in `mixed`; `ScreensAreTrue` and `PagesSettle` the status of a
scan whose end nobody awaits (`ScansEndlessly`); `ScreenIsCurrent` a `build()` that was
overtaken; `AccountsAreIsolated` what follows a sign-in of somebody else during a
synchronisation, and `LocalIsHandedOver` a crash inside a first load; `SavedIsQueue` a newest write that failed (`unsaved`) and `HistoryFollows` an
empty queue; `ReportedWasPlayed` one gap per choice. `LoadingEnds` is
about the copy with one listener, until the first sign-out, reload or lost stream.

Fairness of the web modules: a request is answered or fails (the client gives
up after 15 s), timers fire, the element delivers its events. Each module states it
as weak fairness of those steps together. The user, other devices, lost requests and
expiry are not fair. `WebLibrary` states no fairness: it has no property that needs it.

Fairness of CollectionsSync (`FairSpec`, used by `EventuallyInStep` only): `build()`
ends and operations in the queue run (the app's event loop); the user comes back to the
app again and again (strong fairness of `Resume`, which the queue's bound may disable);
an exchange that is tried again and again is answered once (strong fairness of `Import`,
`Fetch` and `Push`: the network does not lose every request). No fairness is assumed of
changes, switches, crashes, losses and other devices. All of them that could go on for
ever are bounded.

## 4. What is proved

`UserDataStoreProofs` proves, for every set of accounts, requests, tracks and
names, every limit and every set of faults (`StoreAssumption`,
`CollectionsAssumption`):

| Theorem | Statement |
|---|---|
| `TypeCorrect` | `Spec => []TypeOK` |
| `RestartAlwaysSucceeds` | `Spec => []RestartSucceeds` |
| `AnswersAreDurable` | `Spec => []AnsweredIsDurable` |
| `AnswersAlwaysGoForward` | `Spec => AnswersGoForward` |
| `Refinement` | `Spec => ImplementsDurable` |
| `NoTrackIsKeptTwice` | `Spec => []NoTrackTwice` |
| `RetriesAreHarmless` | `Spec => []RetryIsHarmless` |
| `ImportsOnlyAdd` | `Spec => []ImportOnlyAdds` |

The argument for the first five is one inductive invariant, `IInv`:

- `TypeOK`;
- `WriteInv`: while a write is under way, the new document is the served one
  with one account a revision further, valid and within the size limit, and
  without a write it is the served one;
- `FileInv`: every content the file may have after a loss of power, and the
  file itself, can be loaded;
- `OneKindOfStop => OrderInv`: what was answered is not ahead of what is served,
  nor of any content that can be found by the next start. It needs the
  assumption that crashes and losses of power do not both happen: a crash lets the
  next start serve a rename that was never synced, and a later loss of power can
  undo it. This is what the code does (`load` never syncs the directory), and it
  is why `AnsweredIsDurable` and `AnswersGoForward` are stated under
  `OneKindOfStop`.

None of the first two properties is inductive alone: `RestartSucceeds` needs to
know of the document being written that it was validated, `AnsweredIsDurable`
how it relates to the served one. The lemmas about `Apply` (it keeps the
revision, an accepted result has its type) are shared by all steps.

The last three are about what the accounts hold. `ContentInv` says that no list names a
track twice and no account has two playlists of one id, in the document that is served, in
the one being written, and in every content a restart may find: without the last, a
restart could bring back what was never checked, for `validateDocument` does not look for
repeated tracks. `CollectionsProofs` has what a request then does: one lemma
`...Applies` per request says what it changes and that its retry changes nothing. For an
import these rest on the folds `AppendMissing` and `MergedPlaylists`. All folds of
Collections and CollectionsSnapshot (append, merge, keep, the outbox on the device, the
log on the server) are told apart by a kind (`FoldStep`), shown at once to
have a run (`FoldRun`), and reasoned about along it, number by number, with
`HoldsUpTo` of SequenceLemmas: induction over the numbers up to a bound as a statement about
a set, which needs no operator as a parameter.

`PlayQueueProofs` proves, for every set of tracks, all lists without repeats,
every `MaxHistory` from 2 on and queues of any length (`OrderAssumption`,
`QueueAssumption`):

| Theorem | Statement |
|---|---|
| `TypeCorrect` | `Spec => []TypeOK` |
| `CurrentAlwaysInQueue` | `Spec => []CurrentInQueue` |
| `QueueNeverRepeats` | `Spec => []QueueHasNoRepeats` |
| `HistoryAlwaysFollows` | `Spec => []HistoryFollows` |
| `QueueIsSaved` | `Spec => []SavedIsQueue` |
| `RoundPlaysEveryTrackOnce` | `Spec => []EveryTrackOncePerRound` |
| `PreviousAlwaysUndoesNext` | `Spec => []PreviousUndoesNext` |

Its `IInv` says that the queue is `Fit` (type, no repeats, `CurrentFits`, `HistoryFits`,
`RoundFits`), that neither the saved list nor one that waits has a repeat (it comes back
with `Restore`), and `SavesFit`: the last write that waits is the queue, unless it, or a
clearing, has failed. Nothing is assumed of the writes and loads. `HistoryFits` and
`RoundFits` are for a queue that is not empty: a clearing that fails late leaves the
history of the queue that it empties, until the next edit. The proof has three layers:
what `IndexOf`, `InsertAt` and `RemoveAt` do to a list without repeats; one lemma per
operator of PlayOrder (an edit that knows where the current track has come to, followed
by a new round, is `Fit`); one step per action. `HistoryFits` needs the conjunct that
the last position of the history is not one still to be drawn, or the next draw might
repeat it. A by-product is that `_ensureShuffleHistory` never has anything to repair in
shuffle mode (`EnsuredFollowable`).

`RoundFits`, the round of shuffle, counts what remains: a draw takes one position from the
remaining ones and puts it at the end of the history, whose overflow drops the
other end, so the drawn ones are its last entries as long as it is long enough.

`CollectionsSyncProofs` proves, for every set of accounts, changes, other devices' changes
and bounds:

| Theorem | Statement |
|---|---|
| `ScreenStaysCurrent` | `Spec => []ScreenIsCurrent` |
| `NoChangeIsLostOrRepeated` | `Quiet` implies `Spec => []OutboxIsUnresolved` |
| `AccountsStayApart` | `Spec => AccountsAreIsolated` |
| `LocalCollectionsAreKept` | `Spec => LocalIsHandedOver` |
| `EveryVariableIsTyped` | `Spec => []TypeOK` |
| `PendingAlwaysVisible` | `Spec => []PendingStaysVisible` |
| `ServerFollowsTheLog` | `Quiet` and `MaxOther = 0` imply `Spec /\ []BelowLimits => []ServerHoldsPrefix` |
| `ServerFollowsFewChanges` | `Quiet`, `MaxOther = 0` and `FewChanges` imply `Spec => []ServerHoldsPrefix` |

`ScreenInv` is about the queue of operations: the last load in it is that of the active
scope, and as long as no account owns the collections of the device, no synchronisation
comes before the load of an account, which is when the screen of an account is still
empty; of `build()` it says (`OpeningOK`) which screen each of its steps can meet. It
assumes nothing of the faults. `SettledInv` adds the outboxes: before that first load
nothing was queued for any account, so that it starts no outbox anew that holds
something. `Quiet` says that `Faults` has neither switches during a synchronisation nor
expiry; with them `OutboxIsUnresolved` fails (section 5). Lost requests and answers,
crashes, other devices and refused items are all there.

`AccountsStayApart` assumes nothing of the faults either: a synchronisation begins for the
account that is signed in, since `ScreenInv` has session and active scope agree
(`SyncKeepsScope`), and what it exchanges is with whoever is signed in
(`AuthorizedIsOwn`), which is its account until somebody else signs in.
`LocalCollectionsAreKept` needs no more than the types: a load changes the local
collections only when it writes them into the cache of their new owner.

`TypeInv` adds the types of the collections to `ScreenInv`. They rest on
`CollectionsProofs`: a request makes an account of an account, a change or a whole outbox
a snapshot of a snapshot, whatever repetitions are in them.

`VisibleInv` is `PendingStaysVisible` with types. The property says that of the pending
items about one thing (a favorite, whether a playlist is there, its name, a track in it)
the last decides what the cache shows. `ItemShows` is its step: an item shows what it
asks for, and hides no earlier one that it does not supersede. So an outbox laid over
*any* account shows itself (`OutboxShows`), which is why other devices, refusals and
limits do no harm. That laying the outbox over the snapshot again would not change it is
more than the code does: favorites that were removed and added again may come in another
order.

`PrefixInv` is about the only device of its accounts. `AccountOK` says of one account
that the changes queued for it, carried out one by one on what it took over, meet no
full list; that the device shows the effect of all of them; and that the server holds
the effect of the answered ones, or of one more, whose answer was lost. While the import
is due the server holds nothing, or the import already, and `ImportFirst` has it sent
before anything else. The steps need three facts about single requests, all in
`CollectionsProofs`: the device and the server make the same of a change
(`ChangeAgrees`), a change or an import that is sent twice counts once (`TwiceIsOnce`,
`ImportHandsOver`), and the rest of the outbox laid over what the server holds is what
is shown (`PendingCompletes`), so that a fetch changes nothing. The hypotheses are those
of the property: what another device does is not in the log, and at a limit the server
refuses what the device shows already. `BelowLimits` says that no list the device keeps
is full. `FewChanges` makes that a statement about constants: when `MaxChanges` is less
than each limit, `SizesFit` holds, by which no list is longer than the number of changes
carried out, and those that wait in the queue are not among them.

`WebSessionProofs` (any number of tabs, requests, sessions and faults):

| Theorem | Statement |
|---|---|
| `PagesStayWhole` | `Spec => []PagesAreWhole` |
| `NothingEndsWithoutReason` | `Spec => SessionsEndForAReason` |

`PageOK` carries it: while `bootstrapAuth` runs, its request is the only one of the page,
so no other answer changes the view under it; in the app a request for the list is under
way whenever the list is said to load. `SessionAssumption` says that `None` is no number
and no answer.

`WebPlayerProofs` (any tracks, lists, clicks, faults and sign-ins, both listeners):

| Theorem | Statement |
|---|---|
| `PlayerStaysSound` | `Spec => []PlayerIsSound` |
| `ChosenNextIsNext` | `Spec => PlayNextIsNext` |

`CoreInv` is about requests and elements: one request at most is the latest, it is for the
current track and, once the element has a source, for that element; elements that
are not made yet have no source. `QueueInv` is about queue and place, which needs that
lists have no repeats (`PlayerAssumption`: a page lists a track once, and
`readQueue` drops what a saved queue repeats). `ChosenNextIsNext` counts in the list
without the chosen track (`CurrentInRest`): there the current track has moved up by one if
the chosen one stood before it, and the place is one too far.

`WebListeningProofs` (any accounts, tracks, logs and bounds):

| Theorem | Statement |
|---|---|
| `ReportsAlwaysCounted` | `Spec => []ReportsAreCounted` |
| `NothingUnheardIsReported` | `Spec => []ReportedWasPlayed` |

`OutboxInv` has, for each account, that its outbox is the end of what was recorded and
what comes before it is counted (`AccountOK`), that a batch that was served is counted, that
one that is waited for is still first in the outbox of its account (`CallOK`), and
that at most one is waited for (`OneLoop`): this is why dropping as many events as were
sent is dropping those events, although the outbox may have been left and read again in
between. The second theorem compares sums over logs of any length with the time
played while that track was the current one, and a gap for each choice of it (`Allowed`);
its `ListenedInv` says what would be reported at any moment (`Due`) and that the track that
is shown is the tracked one. It has no hypothesis: whatever is chosen while another
track sounds, and whichever streams fail.

What only TLC checks, and why:
- liveness (`EventuallyInStep`, `LoadingEnds`, `OutboxDrains` of two modules,
  `EverythingSettles`, `PagesSettle`) and `CollectionsAreSound`, which speaks of
  `ENABLED`: out of the prover's reach;
- `OnlyARefusalLosesChanges` of WebCollections: `SelectSeq` stands in its way, of which
  tlapm knows nothing; it would have to be a fold first, as in CollectionsSnapshot;
- `PagesAreCurrent` and `ScreensAreTrue` of WebPages, `PageIsWhole` and
  `PlayedTableIsTheQueue` of WebLibrary: not attempted yet.

## 5. Where the code does not do what it says

Statements that do not hold. Those with a name are definitions of the modules; adding them
to the run in brackets, with the change named, shows a counterexample.

Server and player:
- `FailedWriteStaysInvisible` (`store_one_user`): `write()` returns the error of the
  directory sync after the rename (`store.go:727`); the next start serves the
  change that was refused. `store_test.go:335` expects a failed persistence to
  leave the snapshot unchanged.
- `CachesAreIsolated` (`sync_screen`): a synchronisation goes on with the token of
  whoever signs in meanwhile, and fills the cache of the account before from theirs
  (`collections_controller.dart:508`). The test "isolates each server account cache"
  (`collections_controller_test.dart:130`) changes no session during a synchronisation.
  `AccountsAreIsolated` excepts it.
- `OutboxIsUnresolved`, with expiry (`sync_screen`): a 401 counts as permanent and drops the head of
  the outbox (`collections_controller.dart:539`; the comment at line 574 promises that
  it remains).
- The end of the app inside the first load loses the local collections
  (`collections_repository.dart:190`): the last case of `LocalIsHandedOver`.
- `ChangesReachTheirAccount` (`sync_screen`): a change that waits behind a
  synchronisation is made in the account that is active when its turn comes (line 144).
- A `build()` that a switch of accounts overtakes shows the collections of the scope of
  before until the next load or commit (line 106), and one that a synchronisation overtakes
  those of before it: the last case of `ScreenIsCurrent`.
- A first load that is under way twice, in `build()` and in a switch, is not modelled.
- A write of the queue that fails is not tried again, so the next start finds an older
  queue (`player_controller.dart:858`); a `stop()` that fails in `clearQueue` empties the
  queue once more, also one that was chosen since, and neither saves that nor resets the
  shuffle history (line 405).
- `EventuallyInStep` names the two ways to stay behind for ever: a `409` at the head,
  and an import that the server refuses.

Web app, collections (`web_collections`):
- `NoChangeIsLost`: the outbox is filtered before the fetch that follows a refusal, and
  stored after it (`useCollections.ts:168`); and two tabs overwrite each other's outbox
  (`Tabs` with two elements).
- `OutboxDrains`, but for `Blocked`: the answer to the creation of a playlist is lost and
  another device renames it; the repeated creation is answered 409 (`store.go:211`), which
  counts as temporary (`useCollections.ts:28`), so that it and all behind it stay for ever.
- `ShownIsServed`: a list that was asked for before a change may be answered after it, and
  is stored (`useCollections.ts:200`).

Web app, player:
- In `apps/web/src` the listener is a new function in each render (`App.tsx:291`), so the
  effect at `useAudioPlayer.tsx:136` resets the player after every step: what is chosen
  never sounds (`LoadingEnds` without `listener = "same"`).
- After a stream that failed, choosing the same track again does not ask for it again
  (lines 169 and 200), and play waits for a source that does not come.
- "Play next" of a track that stood before the current one comes one later, behind the
  track that follows (line 313): the second case of `PlayNextIsNext`.
- When a track ends while another is being loaded, that one is skipped (line 394).

Web app, listening:
- While the stream of a chosen track loads, and after it has failed, the source of the
  track before sounds on under the name of the chosen one, and is counted for it
  (`web/web/src/hooks/useAudioPlayer.tsx:170`, `194`). `ReportedWasPlayed` therefore
  speaks of what sounded while a track was the current one, not of its own sound.
- The tracker starts at 0 although the element may stand elsewhere (line 87): up to a gap
  of 12 s may count that nobody heard, once for each choice.
- What was heard before a sign-out is recorded for the next account: the tracker keeps its
  references over it.
- An event that the server goes on refusing (the clock of the device was ahead,
  `store.go:852`; a list or the document is full, line 464) stays first in the outbox
  and blocks all behind it: `Blocked` in `OutboxDrains`.

Web app, session (`web_session`): `SessionSurvives`: a 401 of one page removes the token
another has stored since (`App.tsx:120`). A registration whose login fails leaves the
form of registration, which the server then refuses (`AuthPage.tsx:53`).

Web app, pages: answers for the list that overtake each other leave the older one
(`App.tsx:226`); the management page says for ever that the server scans, and keeps the
button from being clicked until its status is refreshed by hand, when it read the status
during a scan whose answer it lost, or that an earlier visit of the page began, or when the
refresh after the scan failed or was overtaken (`ManagementPage.tsx:82`, 141, 206:
`ScansEndlessly`); a lyrics file that has tag lines only gives a drawer without a word
(`LyricsDrawer.tsx:107`); the candidates of a search arrive in the drawer of another track
(`ScrapeDrawer.tsx:88`); an error of a shelf stays beside data that came later; the
card of a scan says that list and status were refreshed whether or not they were.
The toast and the hook decide by different states of the collections (`App.tsx:367`),
and favorites that a search hides are said not to exist (`LibraryPage.tsx:124`).

## 6. Plan

Next: theorems about WebPages (`PagesAreCurrent`, one part of its state at a time) and
WebCollections (`OnlyARefusalLosesChanges`, with `SelectSeq` written as a fold first).
Then, in this order: the account service with its file and limits; the session of the
player with its verification; `OfflineDownloads` (tasks, files, index, crashes); the
media backend under PlayOrder; the listening outbox of the player; the sleep timer.
Abstract specifications worth stating: a session register (newest
write wins), an exactly-once event log, and a downloads table without files.

Not modelled, and not planned: layout, styles, platform runners, streaming, artwork
and metadata parsing (no protocol, or pure I/O); in the web app positions and
volume, the support page, the search of the discovery page and the check of the
server's health.
