--------------------------- MODULE WebCollections ---------------------------
(***************************************************************************)
(* Favorites and playlists of the web player: the hook useCollections      *)
(* (apps/web/src/hooks/useCollections.ts) in every tab of one browser,     *)
(* the local storage the tabs share, and the server's answers.             *)
(*                                                                         *)
(* A tab runs one thread of JavaScript: a handler runs to its next await   *)
(* in one step, and everything else goes on before the answer is           *)
(* delivered.  A call is a request the hook awaits: the server may take    *)
(* it at any time, its answer comes at any time after that, calls overtake *)
(* each other, and the tab may have changed the account meanwhile.         *)
(***************************************************************************)
EXTENDS WebCollectionState

CONSTANTS
  Accounts,         \* accounts of the server
  None,             \* no account
  Tabs,             \* tabs of the browser
  Calls,            \* slots for the requests in flight, 1 .. n
  LegacyFavorites,  \* favorites stored before there were accounts
  LegacyPlaylists,  \* playlists stored before there were accounts
  NewNames,         \* names the user gives to new playlists
  OtherChanges,     \* requests of another device of an account
  MaxChanges,       \* bound on the changes the user makes
  MaxOther,         \* bound on the changes of other devices
  MaxSignIns,       \* bound on the sign-ins, reloads of a tab included
  MaxFailures       \* bound on the requests or answers that are lost

ASSUME WebAssumption ==
  /\ None \notin Accounts
  /\ Calls \subseteq Nat
  /\ {MaxChanges, MaxOther, MaxSignIns, MaxFailures} \subseteq Nat
  /\ NewNames \subseteq Names /\ OtherChanges \subseteq Request

VARIABLES
  server,     \* the accounts on the server
  stored,     \* local storage: cache and outbox of each account
  owner,      \* local storage: LEGACY_OWNER_KEY, or None
  imported,   \* local storage: accounts with LEGACY_IMPORTED set
  token,      \* local storage: the session the requests carry, or NoToken
  revoked,    \* sessions the server no longer accepts
  user,       \* userKeyRef of each tab, or None
  cache,      \* cacheRef of each tab
  flushing,   \* flushingRef of each tab
  calls,      \* the requests in flight
  items,      \* number of outbox items created so far
  maker,      \* the account that chose a playlist id, None when nobody has
  bounds,     \* how often the bounded things happened
  open,       \* history: items the server has not answered for good
  raced       \* history: items made while a call "relist" was in flight, and
              \* those whose refusal was a 401

tabVars  == <<user, cache, flushing>>
diskVars == <<stored, owner, imported>>
authVars == <<token, revoked>>
history  == <<open, raced>>
vars == <<server, diskVars, authVars, tabVars, calls, items, maker, bounds,
          history>>

EmptyCache == [collections |-> <<>>, pending |-> <<>>]

NoToken == [user |-> None, n |-> 0]

(***************************************************************************)
(* A call: "list" is the one of remaker, "push" and "relist" are those of  *)
(* flushOutbox.  "user" is its activeUserKey, "token" the session it       *)
(* carries, and "pending" what a relist will leave in the outbox.          *)
(***************************************************************************)
NoCall  == [tab |-> None]
NoItem  == [id |-> 0]
Waiting == [status |-> "waiting"]
Failed  == [status |-> "failed"]      \* no status, 5xx, 408 or 429

Call(tab, u, t, kind, item, pending) ==
  [tab |-> tab, user |-> u, token |-> t, kind |-> kind, item |-> item,
   pending |-> pending, answer |-> Waiting]

InFlight(c, kind) == calls[c] # NoCall /\ calls[c].kind = kind

\* The free slot that is used next: they are all alike.
NextSlot(c) ==
  calls[c] = NoCall /\ \A d \in Calls : calls[d] = NoCall => c <= d

Counted(what) == bounds' = [bounds EXCEPT ![what] = @ + 1]

-----------------------------------------------------------------------------
Init ==
  /\ server = [u \in Accounts |-> EmptyUser]
  /\ stored = [u \in Accounts |-> EmptyCache]
  /\ owner = None /\ imported = {}
  /\ token = NoToken /\ revoked = {}
  /\ user = [tab \in Tabs |-> None]
  /\ cache = [tab \in Tabs |-> EmptyCache]
  /\ flushing = [tab \in Tabs |-> FALSE]
  /\ calls = [c \in Calls |-> NoCall]
  /\ items = 0 /\ maker = [id \in PlaylistIds |-> None]
  /\ bounds = [changes |-> 0, others |-> 0, signIns |-> 0, failures |-> 0]
  /\ open = [u \in Accounts |-> {}]
  /\ raced = {}

\* persist: the tab and the local storage of its account get this cache.
Persist(tab, new) ==
  /\ cache' = [cache EXCEPT ![tab] = new]
  /\ stored' = [stored EXCEPT ![user[tab]] =
                  [collections |-> NormalCollections(new.collections),
                   pending     |-> NormalOutbox(new.pending)]]

\* flushOutbox up to its first await: the call it makes, NoCall when a loop
\* runs already or nothing waits.
PushHead(tab, new) ==
  IF flushing[tab] \/ new.pending = <<>> THEN NoCall
  ELSE Call(tab, user[tab], token, "push", Head(new.pending), <<>>)

-----------------------------------------------------------------------------
\* claimLegacyCollectionImport: the older data is still this account's.
ClaimLegacy(u) ==
  /\ u \notin imported
  /\ owner \in {None, u}
  /\ LegacyFavorites # <<>> \/ LegacyPlaylists # <<>>

ImportRequest == [op |-> "import", favorites |-> LegacyFavorites,
                  playlists |-> LegacyPlaylists]

\* readCollectionCache, then the import unless one waits already.
LoadedCache(u) ==
  LET read   == [collections |-> NormalCollections(stored[u].collections),
                 pending     |-> NormalOutbox(stored[u].pending)]
      adds   == /\ ClaimLegacy(u)
                /\ \A i \in DOMAIN read.pending :
                     read.pending[i].request.op # "import"
      import == [id |-> items + 1, by |-> u, request |-> ImportRequest]
  IN  IF ~adds THEN read
      ELSE [collections |->
              IF read.collections # <<>> THEN read.collections
              ELSE ApplyOperations(<<>>, <<import>>),
            pending |-> Append(read.pending, import)]

(***************************************************************************)
(* The effect of a new user key, with a user: the outbox and the cache of  *)
(* the account are read, and the account is fetched.  flushingRef is set   *)
(* back even if a loop of an earlier sign-in has not ended.  A page that   *)
(* is loaded takes the session of the local storage if it is still good.   *)
(***************************************************************************)
SignIn(tab, u, c) ==
  /\ user[tab] = None /\ bounds.signIns < MaxSignIns /\ NextSlot(c)
  /\ Counted("signIns")
  /\ token.user \in {None, u} \/ token.n \in revoked
  /\ token' = IF token.user = u /\ token.n \notin revoked THEN token
              ELSE [user |-> u, n |-> bounds.signIns + 1]
  /\ user' = [user EXCEPT ![tab] = u]
  /\ flushing' = [flushing EXCEPT ![tab] = FALSE]
  /\ LET loaded == LoadedCache(u)
         added  == Len(loaded.pending) > Len(stored[u].pending)
     IN  /\ cache' = [cache EXCEPT ![tab] = loaded]
         /\ stored' = [stored EXCEPT ![u] = loaded]
         /\ items' = IF added THEN items + 1 ELSE items
         /\ open' = IF added THEN [open EXCEPT ![u] = @ \cup {items + 1}]
                    ELSE open
  /\ owner' = IF ClaimLegacy(u) THEN u ELSE owner
  /\ calls' = [calls EXCEPT ![c] = Call(tab, u, token', "list", NoItem, <<>>)]
  /\ UNCHANGED <<server, imported, revoked, maker, raced>>

\* The same effect without a user.
SignedOut(tab) ==
  /\ user' = [user EXCEPT ![tab] = None]
  /\ cache' = [cache EXCEPT ![tab] = EmptyCache]
  /\ flushing' = [flushing EXCEPT ![tab] = FALSE]

\* logout: the server is asked first, and the token goes whatever it says.
SignOut(tab) ==
  /\ user[tab] # None
  /\ SignedOut(tab)
  /\ token' = NoToken
  /\ revoked' \in {revoked, revoked \cup {token.n}}
  /\ UNCHANGED <<server, diskVars, calls, items, maker, bounds,
                 history>>

\* The page is left: its calls have nobody to answer, but a change that was
\* sent may still reach the server.
Leave(tab) ==
  /\ user[tab] # None
  /\ SignedOut(tab)
  /\ calls' = [c \in Calls |->
                 IF calls[c].tab # tab THEN calls[c]
                 ELSE IF calls[c].answer # Waiting \/ calls[c].kind # "push"
                 THEN NoCall
                 ELSE [calls[c] EXCEPT !.kind = "gone"]]
  /\ UNCHANGED <<server, diskVars, authVars, items, maker, bounds, history>>

\* The session ends on the server.
Expire ==
  /\ token # NoToken /\ token.n \notin revoked
  /\ bounds.failures < MaxFailures
  /\ revoked' = revoked \cup {token.n}
  /\ Counted("failures")
  /\ UNCHANGED <<server, diskVars, token, tabVars, calls, items, maker, history>>

-----------------------------------------------------------------------------
\* A change: applied to the cache, queued, stored, and pushed.
Change(tab, r, c) ==
  LET u    == user[tab]
      item == [id |-> items + 1, by |-> u, request |-> r]
      new  == [collections |-> ApplyOperations(cache[tab].collections, <<item>>),
               pending     |-> Append(cache[tab].pending, item)]
      push == PushHead(tab, new)
  IN  /\ u # None /\ bounds.changes < MaxChanges /\ NextSlot(c)
      /\ Persist(tab, new)
      /\ items' = items + 1
      /\ calls' = [calls EXCEPT ![c] = push]
      /\ flushing' = [flushing EXCEPT ![tab] = @ \/ push # NoCall]
      /\ open' = [open EXCEPT ![u] = @ \cup {items + 1}]
      /\ raced' = IF \E d \in Calls : /\ InFlight(d, "relist")
                                      /\ calls[d].tab = tab
                  THEN raced \cup {items + 1} ELSE raced
      /\ Counted("changes")
      /\ UNCHANGED <<server, owner, imported, authVars, user>>

ToggleFavorite(tab, track, c) ==
  /\ Change(tab, [op |-> IF Contains(FavoriteTrackIds(cache[tab].collections),
                                     track)
                         THEN "remove_favorite" ELSE "add_favorite",
                  track |-> track], c)
  /\ UNCHANGED maker

\* makeLocalPlaylist: the browser chooses the id.
NewPlaylist(tab, id, name, c) ==
  /\ maker[id] = None
  /\ Change(tab, [op |-> "create_playlist", playlist |-> id, name |-> name], c)
  /\ maker' = [maker EXCEPT ![id] = user[tab]]

AddTrackToPlaylist(tab, track, id, c) ==
  /\ \E i \in DOMAIN cache[tab].collections :
       /\ cache[tab].collections[i].id = id
       /\ ~Contains(cache[tab].collections[i].tracks, track)
  /\ Change(tab, [op |-> "add_track", playlist |-> id, track |-> track], c)
  /\ UNCHANGED maker

RemovePlaylist(tab, id, c) ==
  /\ HasCollection(cache[tab].collections, id)
  /\ Change(tab, [op |-> "delete_playlist", playlist |-> id], c)
  /\ UNCHANGED maker

\* The timer of 30 seconds, and the browser being online again.
Retry(tab, c) ==
  /\ user[tab] # None /\ NextSlot(c) /\ ~flushing[tab]
  /\ cache[tab].pending # <<>>
  /\ UNCHANGED <<bounds, items, server, diskVars, authVars, user, cache, maker,
                 history>>
  /\ calls' = [calls EXCEPT ![c] = PushHead(tab, cache[tab])]
  /\ flushing' = [flushing EXCEPT ![tab] = TRUE]

-----------------------------------------------------------------------------
\* What the server makes of a request, for the account whose session the
\* request carries: what it holds then, and its answer.
Served(call) ==
  IF call.token = NoToken \/ call.token.n \in revoked
  THEN [server |-> server, answer |-> [status |-> "unauthorized"]]
  ELSE LET u == call.token.user IN
       IF call.item = NoItem \/ call.kind = "relist"
       THEN [server |-> server,
             answer |-> [status |-> "ok", user |-> server[u]]]
       ELSE LET done == Apply(server[u], call.item.request) IN
            [server |-> [server EXCEPT ![u] = done.user],
             answer |-> IF done.status \in {"changed", "unchanged"}
                        THEN [status |-> "ok", user |-> done.user]
                        ELSE [status |-> done.status]]

\* The server takes a request of this browser.
Serve(c) ==
  /\ calls[c] # NoCall /\ calls[c].answer = Waiting
  /\ \E served \in {Served(calls[c])} :
       /\ server' = served.server
       /\ calls' = [calls EXCEPT ![c] =
            IF @.kind = "gone" THEN NoCall
            ELSE [@ EXCEPT !.answer = served.answer]]
       /\ open' = IF \/ served.answer.status \in {"unauthorized", "conflict"}
                      \/ calls[c].kind = "relist"
                   THEN open
                   ELSE [open EXCEPT ![calls[c].user] =
                           @ \ {calls[c].item.id}]
  /\ UNCHANGED <<diskVars, authVars, tabVars, items, maker, bounds, raced>>

\* A request that is not taken, or an answer that is lost.
Lose(c) ==
  /\ calls[c] # NoCall /\ calls[c].kind # "gone" /\ calls[c].answer # Failed
  /\ bounds.failures < MaxFailures
  /\ calls' = [calls EXCEPT ![c].answer = Failed]
  /\ Counted("failures")
  /\ UNCHANGED <<server, diskVars, authVars, tabVars, items, maker, history>>

\* Another device of the account.
OtherDevice(u, r) ==
  /\ bounds.others < MaxOther
  /\ Apply(server[u], r).status = "changed"
  /\ server' = [server EXCEPT ![u] = Apply(server[u], r).user]
  /\ Counted("others")
  /\ UNCHANGED <<diskVars, authVars, tabVars, calls, items, maker, history>>

-----------------------------------------------------------------------------
\* The outbox without an item that is done with.
Remaining(pending, item) == SelectSeq(pending, LAMBDA i : i.id # item.id)

\* A push that the server has done: a created playlist takes the place of
\* the local one, and the answer is laid under what still waits.
AfterPush(known, item, remote) ==
  LET made == CollectionsFromSnapshot(remote)
      Created(c) == c.id = item.request.playlist
      next == IF item.request.op # "create_playlist" THEN known
              ELSE ReplaceCollectionId(known, item.request.playlist,
                                       made[SelectInSeq(made, Created)])
  IN  ApplySnapshot(remote, Remaining(next.pending, item))

\* What a handler leaves: a cache to persist or not, and where it goes on:
\* at the head of the loop, with a relist, or not at all.
Return         == [persists |-> FALSE, cache |-> EmptyCache, then |-> "return"]
Persists(new, then) == [persists |-> TRUE, cache |-> new, then |-> then]

\* Mutants of Retryable: a request that got no answer is given up, and a
\* refusal is tried again.
RetryableConflict(status) == status = "conflict"
RetryableRefusal(status) == status # "unauthorized"

\* isRetryableCollectionOutboxError
Retryable(status) == status \in {"failed", "conflict"}

\* Mutant of Handled: refresh and the loop do not compare the account.
HandledForAnyone(call) ==
  LET tab == call.tab
      ok  == call.answer.status = "ok"
      now == cache[tab]
  IN  CASE user[tab] = None -> Return
        [] call.kind = "list" /\ ok ->
             Persists(ApplySnapshot(call.answer.user, now.pending),
                      IF flushing[tab] THEN "return" ELSE "loop")
        [] call.kind = "push" /\ ok ->
             Persists(AfterPush(now, call.item, call.answer.user), "loop")
        [] OTHER -> Return

(***************************************************************************)
(* What the code does after an await.  The account is compared first.      *)
(* After a refusal the account is fetched again, and the outbox of before, *)
(* without the refused item, is stored with the answer, or without one.    *)
(***************************************************************************)
Handled(call) ==
  LET tab == call.tab
      status == call.answer.status
      now == cache[tab]
  IN  CASE user[tab] # call.user -> Return
        [] call.kind = "list" /\ status = "ok" ->
             Persists(ApplySnapshot(call.answer.user, now.pending),
                      IF flushing[tab] THEN "return" ELSE "loop")
        [] call.kind = "push" /\ status = "ok" ->
             Persists(AfterPush(now, call.item, call.answer.user), "loop")
        [] call.kind = "push" /\ status # "ok" /\ ~Retryable(status) ->
             [Return EXCEPT !.then = "relist"]
        [] call.kind = "relist" /\ status = "ok" ->
             Persists(ApplySnapshot(call.answer.user, call.pending), "loop")
        [] call.kind = "relist" /\ status # "ok" ->
             Persists([now EXCEPT !.pending = call.pending], "loop")
        [] OTHER -> Return

\* The call that the thread of this call goes on with; t is the token the
\* local storage holds by then.
NextCall(call, t, h) ==
  CASE h.then = "loop" /\ h.cache.pending # <<>> ->
         Call(call.tab, user[call.tab], t, "push", Head(h.cache.pending), <<>>)
    [] h.then = "relist" ->
         Call(call.tab, call.user, t, "relist", call.item,
              Remaining(cache[call.tab].pending, call.item))
    [] OTHER -> NoCall

(***************************************************************************)
(* An answer is delivered.  A 401 removes the token, whichever session it  *)
(* is of, before the code after the await runs; the page is rendered, and  *)
(* the tab signed out, after it.  A loop that ends sets flushingRef back,  *)
(* whichever sign-in it is of.                                             *)
(***************************************************************************)
Receive(c) ==
  /\ calls[c] # NoCall /\ calls[c].answer # Waiting /\ calls[c].kind # "gone"
  /\ UNCHANGED <<bounds, items, server, owner, revoked, maker, open>>
  /\ LET call  == calls[c]
         tab   == call.tab
         out   == call.answer.status = "unauthorized" /\ token # NoToken
         t     == IF out THEN NoToken ELSE token
     IN  \E h \in {Handled(call)} : \E next \in {NextCall(call, t, h)} :
         /\ token' = t
         /\ calls' = [calls EXCEPT ![c] = next]
         /\ stored' = IF h.persists
                      THEN [stored EXCEPT ![user[tab]] = h.cache] ELSE stored
         /\ user' = [user EXCEPT ![tab] = IF out THEN None ELSE @]
         /\ cache' = [cache EXCEPT ![tab] =
              IF out THEN EmptyCache ELSE IF h.persists THEN h.cache ELSE @]
         /\ flushing' = [flushing EXCEPT ![tab] =
              ~out /\ (next # NoCall \/ (@ /\ call.kind = "list"))]
         /\ imported' =
              IF /\ call.kind = "push" /\ h.persists
                 /\ call.item.request.op = "import"
              THEN imported \cup {call.user} ELSE imported
         /\ raced' = IF call.kind = "push" /\ out THEN raced \cup {call.item.id}
                     ELSE raced

\* The request of a page that was left does not reach the server.
Forget(c) ==
  /\ InFlight(c, "gone")
  /\ UNCHANGED <<bounds, items, tabVars, server, diskVars, authVars, maker,
                 history>>
  /\ calls' = [calls EXCEPT ![c] = NoCall]

-----------------------------------------------------------------------------
UserStep(tab, c) ==
  \/ \E u \in Accounts : SignIn(tab, u, c)
  \/ \E track \in Tracks : ToggleFavorite(tab, track, c)
  \/ \E id \in PlaylistIds, name \in NewNames : NewPlaylist(tab, id, name, c)
  \/ \E track \in Tracks, id \in PlaylistIds :
       AddTrackToPlaylist(tab, track, id, c)
  \/ \E id \in PlaylistIds : RemovePlaylist(tab, id, c)

Next ==
  \/ \E tab \in Tabs : SignOut(tab) \/ Leave(tab)
  \/ \E tab \in Tabs, c \in Calls : UserStep(tab, c) \/ Retry(tab, c)
  \/ \E c \in Calls : Serve(c) \/ Lose(c) \/ Receive(c) \/ Forget(c)
  \/ \E u \in Accounts, r \in OtherChanges : OtherDevice(u, r)
  \/ Expire

(***************************************************************************)
(* Requests are served and their answers delivered, in any order, and the  *)
(* timer fires.  What the user does, and the failures, are not fair.       *)
(***************************************************************************)
Deliver == \E c \in Calls : Serve(c) \/ Receive(c) \/ Forget(c)

Timer == \E tab \in Tabs, c \in Calls : Retry(tab, c)

\* ENABLED <<Deliver \/ Timer>>_vars, written out: TLC takes far longer to
\* find it by the actions.
Busy ==
  \/ \E c \in Calls : calls[c] # NoCall
  \/ \E tab \in Tabs :
       user[tab] # None /\ ~flushing[tab] /\ cache[tab].pending # <<>>

\* WF_vars(Deliver \/ Timer)
Fairness == []<>~Busy \/ []<><<Deliver \/ Timer>>_vars

Spec == Init /\ [][Next]_vars /\ Fairness

-----------------------------------------------------------------------------
Ids(pending) == {pending[i].id : i \in DOMAIN pending}

Item == [id : Nat, by : Accounts, request : Request]

CacheType == [collections : Seq(MusicCollection), pending : Seq(Item)]

\* The shape of the state; no collection is listed twice, nor a track in it.
TypeOK ==
  /\ stored \in [Accounts -> CacheType] /\ cache \in [Tabs -> CacheType]
  /\ \A tab \in Tabs :
       NormalCollections(cache[tab].collections) = cache[tab].collections
  /\ owner \in Accounts \cup {None} /\ imported \subseteq Accounts
  /\ user \in [Tabs -> Accounts \cup {None}]
  /\ flushing \in [Tabs -> BOOLEAN]
  /\ \A c \in Calls : calls[c] # NoCall =>
       /\ calls[c].tab \in Tabs /\ calls[c].user \in Accounts
       /\ calls[c].kind \in {"list", "push", "relist", "gone"}
       /\ calls[c].pending \in Seq(Item)
  /\ \A u \in Accounts : ValidUser(server[u])

\* What Fairness takes for ENABLED.
BusyIsEnabled == Busy <=> ENABLED <<Deliver \/ Timer>>_vars

(***************************************************************************)
(* A change the server has not answered for good waits in the local        *)
(* storage of its account, whatever is lost, reloaded or signed out.  This *)
(* does not hold: see the next definition, and two tabs.                   *)
(***************************************************************************)
NoChangeIsLost == \A u \in Accounts : open[u] \subseteq Ids(stored[u].pending)

(***************************************************************************)
(* The same but for two races with the fetch that follows a refusal: a     *)
(* change made meanwhile, and a change refused because the session ended,  *)
(* when the user signs in again before that fetch is answered.             *)
(***************************************************************************)
OnlyARefusalLosesChanges ==
  \A u \in Accounts : open[u] \ raced \subseteq Ids(stored[u].pending)

(***************************************************************************)
(* What waits is what is shown: for a track, or a playlist, the last       *)
(* change in the outbox decides, whatever snapshot came in last.           *)
(***************************************************************************)
LastOn(pending, track) ==
  SelectLastInSeq(pending, LAMBDA item :
    /\ item.request.op \in {"add_favorite", "remove_favorite"}
    /\ item.request.track = track)

PendingIsShown ==
  \A tab \in Tabs :
    LET pending == cache[tab].pending
        shown   == cache[tab].collections
    IN  /\ \A track \in Tracks :
             LET last == LastOn(pending, track) IN
             last # 0 => (Contains(FavoriteTrackIds(shown), track)
                            <=> pending[last].request.op = "add_favorite")
        /\ \A i \in DOMAIN pending :
             pending[i].request.op = "delete_playlist" =>
               ~HasCollection(shown, pending[i].request.playlist)

(***************************************************************************)
(* What is stored for an account, and shown to it, was made by it: the     *)
(* items of the outbox, and the playlists.                                 *)
(***************************************************************************)
MadeBy(u, known) ==
  /\ \A i \in DOMAIN known.pending : known.pending[i].by = u
  /\ \A i \in DOMAIN known.collections :
       LET id == known.collections[i].id IN
       id \in PlaylistIds => maker[id] \in {u, None}

AccountsAreApart ==
  /\ \A u \in Accounts : MadeBy(u, stored[u])
  /\ \A tab \in Tabs : user[tab] # None => MadeBy(user[tab], cache[tab])

(***************************************************************************)
(* When nothing waits and no call is in flight, a signed-in tab shows what *)
(* the server has, if no other device changes the account.  This does not  *)
(* hold: a list that was asked for before a change may come after it.      *)
(***************************************************************************)
ShownIsServed ==
  \A tab \in Tabs :
    /\ user[tab] # None /\ cache[tab].pending = <<>>
    /\ \A c \in Calls : calls[c] = NoCall
    => cache[tab].collections = CollectionsFromSnapshot(server[user[tab]])

\* Data from before there were accounts is offered by one account only.
OneLegacyOwner ==
  \A u, v \in Accounts :
    /\ u \in imported => u = owner
    /\ \A i \in DOMAIN stored[u].pending :
         stored[u].pending[i].request.op = "import" => u = owner

(***************************************************************************)
(* Whatever answers overtake one another, and whoever signs in meanwhile:  *)
(* what waits is shown, no account sees or sends what another made, data   *)
(* from before there were accounts goes to one account, and no collection  *)
(* or track is listed twice (useCollections.ts, collectionState.ts).       *)
(***************************************************************************)
CollectionsAreSound ==
  TypeOK /\ PendingIsShown /\ AccountsAreApart /\ OneLegacyOwner /\ BusyIsEnabled

(***************************************************************************)
(* The server holds a playlist of this id under another name: the creation *)
(* of it was done and its answer lost, and another device has renamed it   *)
(* since.  A 409 is tried again for ever (isRetryableCollectionOutboxError *)
(* and store.go, CreatePlaylistWithID), and nothing behind it is sent.     *)
(***************************************************************************)
Blocked(tab) ==
  /\ cache[tab].pending # <<>> /\ user[tab] # None
  /\ Apply(server[user[tab]], Head(cache[tab].pending).request).status
       = "conflict"

(***************************************************************************)
(* A user who stays signed in sees the outbox go empty, whatever is        *)
(* refused, lost or changed by another device: only a creation that comes  *)
(* back as a conflict can hold it up, and then it does for good.           *)
(***************************************************************************)
OutboxDrains ==
  \A tab \in Tabs :
    <>[](user[tab] # None /\ token # NoToken /\ token.n \notin revoked)
      => <>[](cache[tab].pending = <<>>) \/ <>[]Blocked(tab)
=============================================================================
