----------------------- MODULE CollectionsSyncProofs -----------------------
(***************************************************************************)
(* Proofs about CollectionsSync, for every set of accounts, changes and    *)
(* limits: what is on the screen after any interleaving of switches,       *)
(* changes, synchronisations, losses and crashes; that every pending       *)
(* change stays visible through all of them; that no account is changed by *)
(* another's synchronisation unless somebody else signs in during it; that *)
(* the local collections are kept unless the app ends inside a first load; *)
(* and, on a device whose session does not end in a synchronisation, that  *)
(* no change is lost or repeated, and the server holds the effect of a     *)
(* prefix of the changes.                                                  *)
(***************************************************************************)
EXTENDS CollectionsSync, CollectionsProofs, TLAPS

-----------------------------------------------------------------------------
(***************************************************************************)
(* The queue of operations.                                                *)
(***************************************************************************)

\* What waits in the queue: only accounts are synchronised.
Operation == [kind : {"change"}, request : Changes, seen : Scopes]
             \cup [kind : {"sync"}, scope : Accounts]
             \cup [kind : {"load"}, scope : Scopes]

HasLoad(q, s) == \E i \in DOMAIN q : q[i] = LoadOp(s)

\* Every load that waits is, or is followed by, the load of s.
LoadsEndWith(q, s) ==
  \A i \in DOMAIN q : q[i].kind = "load" =>
    \E j \in DOMAIN q : i <= j /\ q[j] = LoadOp(s)

\* Every synchronisation that waits comes after the load of an account.
SyncsAfterClaim(q) ==
  \A i \in DOMAIN q : q[i].kind = "sync" =>
    \E j \in DOMAIN q : j < i /\ q[j].kind = "load" /\ q[j].scope # Local

\* A queue with one more operation at its end.
LEMMA AppendedAt ==
  ASSUME NEW q \in Seq(Operation), NEW op \in Operation
  PROVE  /\ Append(q, op) \in Seq(Operation)
         /\ DOMAIN Append(q, op) = 1..Len(q) + 1
         /\ DOMAIN q = 1..Len(q) /\ Len(q) \in Nat
         /\ \A i \in 1..Len(q) : Append(q, op)[i] = q[i]
         /\ Append(q, op)[Len(q) + 1] = op
  OBVIOUS

\* A queue without its first operation.
LEMMA TailAt ==
  ASSUME NEW q \in Seq(Operation), q # <<>>
  PROVE  /\ Tail(q) \in Seq(Operation)
         /\ Head(q) = q[1] /\ Head(q) \in Operation
         /\ DOMAIN Tail(q) = 1..Len(q) - 1
         /\ DOMAIN q = 1..Len(q) /\ Len(q) \in Nat \ {0}
         /\ \A i \in 1..Len(q) - 1 : Tail(q)[i] = q[i + 1]
  OBVIOUS

\* The empty queue obeys both rules.
LEMMA EmptyQueue ==
  ASSUME NEW s
  PROVE  <<>> \in Seq(Operation) /\ LoadsEndWith(<<>>, s)
         /\ SyncsAfterClaim(<<>>)
  BY DEF LoadsEndWith, SyncsAfterClaim

\* A load that is not first in the queue stays in it.
LEMMA LoadRemains ==
  ASSUME NEW q \in Seq(Operation), q # <<>>, NEW s,
         HasLoad(q, s), Head(q) # LoadOp(s)
  PROVE  HasLoad(Tail(q), s)
<1>1. PICK i \in DOMAIN q : q[i] = LoadOp(s)
  BY DEF HasLoad
<1>2. i \in 1..Len(q) /\ i # 1
  BY <1>1, TailAt
<1>3. i - 1 \in DOMAIN Tail(q) /\ (i - 1) + 1 = i
  BY <1>2, TailAt
<1>4. Tail(q)[i - 1] = q[i]
  BY <1>3, TailAt
<1> QED BY <1>1, <1>3, <1>4 DEF HasLoad

\* The first operation leaves: the last load is still the one of the scope.
LEMMA TailEndsWith ==
  ASSUME NEW q \in Seq(Operation), q # <<>>, NEW s, LoadsEndWith(q, s)
  PROVE  LoadsEndWith(Tail(q), s)
<1> SUFFICES ASSUME NEW i \in DOMAIN Tail(q), Tail(q)[i].kind = "load"
             PROVE  \E j \in DOMAIN Tail(q) : i <= j /\ Tail(q)[j] = LoadOp(s)
  BY DEF LoadsEndWith
<1>1. i \in 1..Len(q) - 1 /\ i + 1 \in DOMAIN q /\ q[i + 1].kind = "load"
  BY TailAt
<1>2. PICK j \in DOMAIN q : i + 1 <= j /\ q[j] = LoadOp(s)
  BY <1>1 DEF LoadsEndWith
<1>3. j - 1 \in DOMAIN Tail(q) /\ i <= j - 1 /\ (j - 1) + 1 = j
  BY <1>1, <1>2, TailAt
<1>4. Tail(q)[j - 1] = q[j]
  BY <1>3, TailAt
<1> QED BY <1>2, <1>3, <1>4

\* What is first, if it is not the load of an account, is no sync, and the
\* syncs behind it still come after such a load.
LEMMA TailAfterClaim ==
  ASSUME NEW q \in Seq(Operation), q # <<>>, SyncsAfterClaim(q),
         Head(q).kind = "load" => Head(q).scope = Local
  PROVE  SyncsAfterClaim(Tail(q)) /\ Head(q).kind # "sync"
<1>0. Head(q).kind # "sync"
  <2> SUFFICES ASSUME Head(q).kind = "sync" PROVE FALSE
    OBVIOUS
  <2>1. 1 \in DOMAIN q /\ q[1].kind = "sync"
    BY TailAt
  <2>2. PICK j \in DOMAIN q : j < 1
    BY <2>1 DEF SyncsAfterClaim
  <2> QED BY <2>2, TailAt
<1>s. SUFFICES ASSUME NEW i \in DOMAIN Tail(q), Tail(q)[i].kind = "sync"
               PROVE  \E j \in DOMAIN Tail(q) : j < i
                         /\ Tail(q)[j].kind = "load" /\ Tail(q)[j].scope # Local
  BY <1>0 DEF SyncsAfterClaim
<1>1. i \in 1..Len(q) - 1 /\ i + 1 \in DOMAIN q /\ q[i + 1].kind = "sync"
  BY TailAt, <1>s
<1>2. PICK j \in DOMAIN q : j < i + 1 /\ q[j].kind = "load" /\ q[j].scope # Local
  BY <1>1 DEF SyncsAfterClaim
<1>3. j # 1
  BY <1>2, TailAt
<1>4. j - 1 \in DOMAIN Tail(q) /\ j - 1 < i /\ (j - 1) + 1 = j
  BY <1>1, <1>2, <1>3, TailAt
<1>5. Tail(q)[j - 1] = q[j]
  BY <1>4, TailAt
<1> QED BY <1>2, <1>4, <1>5

\* A change or a synchronisation that leaves the queue.
LEMMA TailOfOther ==
  ASSUME NEW q \in Seq(Operation), q # <<>>, Head(q).kind # "load",
         NEW s, LoadsEndWith(q, s)
  PROVE  /\ Tail(q) \in Seq(Operation)
         /\ LoadsEndWith(Tail(q), s)
         /\ SyncsAfterClaim(q) => /\ SyncsAfterClaim(Tail(q))
                                  /\ Head(q).kind # "sync"
         /\ HasLoad(q, s) => HasLoad(Tail(q), s)
<1>1. Tail(q) \in Seq(Operation) /\ LoadsEndWith(Tail(q), s)
  BY TailAt, TailEndsWith
<1>2. SyncsAfterClaim(q) => SyncsAfterClaim(Tail(q)) /\ Head(q).kind # "sync"
  BY TailAfterClaim
<1>3. Head(q) # LoadOp(s)
  BY DEF LoadOp
<1>4. HasLoad(q, s) => HasLoad(Tail(q), s)
  BY <1>3, LoadRemains
<1> QED BY <1>1, <1>2, <1>4

\* A change or a synchronisation that joins the queue.
LEMMA AppendedEndsWith ==
  ASSUME NEW q \in Seq(Operation), NEW op \in Operation, op.kind # "load",
         NEW s, LoadsEndWith(q, s)
  PROVE  LoadsEndWith(Append(q, op), s)
<1> SUFFICES ASSUME NEW i \in DOMAIN Append(q, op),
                    Append(q, op)[i].kind = "load"
             PROVE  \E j \in DOMAIN Append(q, op) :
                       i <= j /\ Append(q, op)[j] = LoadOp(s)
  BY DEF LoadsEndWith
<1>1. i \in DOMAIN q /\ q[i].kind = "load"
  <2>1. i # Len(q) + 1
    BY AppendedAt
  <2>2. i \in 1..Len(q)
    BY <2>1, AppendedAt
  <2> QED BY <2>2, AppendedAt
<1>2. PICK j \in DOMAIN q : i <= j /\ q[j] = LoadOp(s)
  BY <1>1 DEF LoadsEndWith
<1>3. j \in DOMAIN Append(q, op) /\ Append(q, op)[j] = q[j]
  BY AppendedAt
<1> QED BY <1>2, <1>3

\* The load of a switch joins the queue.
LEMMA AppendedLoad ==
  ASSUME NEW q \in Seq(Operation), NEW s \in Scopes
  PROVE  /\ LoadOp(s) \in Operation
         /\ LoadsEndWith(Append(q, LoadOp(s)), s)
         /\ HasLoad(Append(q, LoadOp(s)), s)
<1>1. LoadOp(s) \in Operation
  BY DEF Operation, LoadOp
<1>2. /\ Len(q) + 1 \in DOMAIN Append(q, LoadOp(s))
      /\ Append(q, LoadOp(s))[Len(q) + 1] = LoadOp(s)
      /\ \A i \in DOMAIN Append(q, LoadOp(s)) : i <= Len(q) + 1
  BY <1>1, AppendedAt
<1> QED BY <1>1, <1>2 DEF LoadsEndWith, HasLoad

\* A queued load stays queued.
LEMMA AppendedHasLoad ==
  ASSUME NEW q \in Seq(Operation), NEW op \in Operation, NEW s, HasLoad(q, s)
  PROVE  HasLoad(Append(q, op), s)
<1>1. PICK i \in DOMAIN q : q[i] = LoadOp(s)
  BY DEF HasLoad
<1>2. i \in DOMAIN Append(q, op) /\ Append(q, op)[i] = q[i]
  BY AppendedAt
<1> QED BY <1>1, <1>2 DEF HasLoad

\* Only a synchronisation needs an account's load in front of it.
LEMMA AppendedAfterClaim ==
  ASSUME NEW q \in Seq(Operation), NEW op \in Operation, SyncsAfterClaim(q),
         op.kind = "sync" => \E a \in Accounts : HasLoad(q, a)
  PROVE  SyncsAfterClaim(Append(q, op))
<1>s. SUFFICES ASSUME NEW i \in DOMAIN Append(q, op),
                      Append(q, op)[i].kind = "sync"
               PROVE  \E j \in DOMAIN Append(q, op) : j < i
                         /\ Append(q, op)[j].kind = "load"
                         /\ Append(q, op)[j].scope # Local
  BY DEF SyncsAfterClaim
<1>1. \A j \in DOMAIN q : j \in DOMAIN Append(q, op) /\ Append(q, op)[j] = q[j]
  BY AppendedAt
<1>2. CASE i = Len(q) + 1
  <2>1. op.kind = "sync"
    BY <1>2, <1>s, AppendedAt
  <2>2. PICK a \in Accounts : HasLoad(q, a)
    BY <2>1
  <2>3. PICK j \in DOMAIN q : q[j] = LoadOp(a)
    BY <2>2 DEF HasLoad
  <2>4. j < i
    BY <1>2, AppendedAt
  <2>5. q[j].kind = "load" /\ q[j].scope # Local
    BY <2>3, SyncAssumption DEF LoadOp
  <2> QED BY <1>1, <2>4, <2>5
<1>3. CASE i # Len(q) + 1
  <2>1. i \in DOMAIN q /\ q[i].kind = "sync"
    BY <1>3, <1>s, AppendedAt
  <2>2. PICK j \in DOMAIN q : j < i /\ q[j].kind = "load" /\ q[j].scope # Local
    BY <2>1 DEF SyncsAfterClaim
  <2> QED BY <1>1, <2>2
<1> QED BY <1>2, <1>3

-----------------------------------------------------------------------------
(***************************************************************************)
(* The caches on the device.                                               *)
(***************************************************************************)

\* What is kept for a scope has its three fields, whatever their contents.
Kept(c) == c = [snapshot |-> c.snapshot, outbox |-> c.outbox,
                legacy |-> c.legacy]

Whole(caches) == /\ caches = [s \in Scopes |-> caches[s]]
                 /\ \A s \in Scopes : Kept(caches[s])

\* A cache whose snapshot, outbox or legacy changes has the others as before.
LEMMA KeptUpdates ==
  ASSUME NEW c, Kept(c), NEW x
  PROVE  /\ Kept([c EXCEPT !.snapshot = x])
         /\ [c EXCEPT !.snapshot = x].snapshot = x
         /\ [c EXCEPT !.snapshot = x].outbox = c.outbox
         /\ Kept([c EXCEPT !.outbox = x])
         /\ [c EXCEPT !.outbox = x].snapshot = c.snapshot
         /\ [c EXCEPT !.outbox = x].outbox = x
         /\ Kept([c EXCEPT !.legacy = x])
         /\ [c EXCEPT !.legacy = x].snapshot = c.snapshot
         /\ [c EXCEPT !.legacy = x].outbox = c.outbox
  BY DEF Kept

\* Saving the cache of a scope leaves those of the others alone.
LEMMA SavedWhole ==
  ASSUME NEW caches, Whole(caches), NEW s \in Scopes, NEW new, Kept(new)
  PROVE  /\ Whole([caches EXCEPT ![s] = new])
         /\ [caches EXCEPT ![s] = new][s] = new
         /\ \A t \in Scopes : t # s => [caches EXCEPT ![s] = new][t] = caches[t]
<1> DEFINE after == [caches EXCEPT ![s] = new]
<1>1. after = [t \in Scopes |-> IF t = s THEN new ELSE caches[t]]
  BY DEF Whole
<1> QED BY <1>1 DEF Whole

\* A first load moves the local collections; any other changes nothing.
LEMMA LoadedWhole ==
  ASSUME Whole(cache), NEW s \in Scopes
  PROVE  /\ Whole(Loaded(s))
         /\ \A t \in Scopes : t \notin {s, Local} => Loaded(s)[t] = cache[t]
         /\ ~Claims(s) => Loaded(s) = cache
         /\ Claims(s) => Loaded(s)[s].outbox = <<>>
<1>1. CASE ~Claims(s)
  BY <1>1 DEF Loaded
<1>2. CASE Claims(s)
  <2> DEFINE local == cache[Local].snapshot
             taken == [snapshot |-> local, outbox |-> <<>>, legacy |-> local]
             emptied == [cache EXCEPT ![Local] = EmptyCache]
  <2>1. Loaded(s) = [emptied EXCEPT ![s] = taken]
    <3>1. s # Local
      BY <1>2 DEF Claims
    <3>2. [cache EXCEPT ![Local] = EmptyCache, ![s] = taken]
            = [emptied EXCEPT ![s] = taken]
      BY <3>1
    <3> QED BY <1>2, <3>2 DEF Loaded
  <2>2. Kept(EmptyCache) /\ Kept(taken) /\ Local \in Scopes
    BY DEF Kept, EmptyCache, Scopes
  <2>3. /\ Whole(emptied)
        /\ \A t \in Scopes : t # Local => emptied[t] = cache[t]
    BY <2>2, SavedWhole
  <2> HIDE DEF emptied, taken
  <2>4. /\ Whole([emptied EXCEPT ![s] = taken])
        /\ [emptied EXCEPT ![s] = taken][s] = taken
        /\ \A t \in Scopes : t # s =>
             [emptied EXCEPT ![s] = taken][t] = emptied[t]
    BY <2>2, <2>3, SavedWhole
  <2>5. taken.outbox = <<>>
    BY DEF taken
  <2> QED BY <1>2, <2>1, <2>3, <2>4, <2>5
<1> QED BY <1>1, <1>2

-----------------------------------------------------------------------------
(***************************************************************************)
(* The inductive invariant behind ScreenIsCurrent: the last load that      *)
(* waits is that of the active scope; as long as no account owns the       *)
(* collections of the device, nothing is synchronised before an account    *)
(* has been loaded, and the screen of an account shows nothing of it; and  *)
(* nothing runs before build() has read what it loads.                     *)
(***************************************************************************)
DeviceOK ==
  /\ session \in Scopes /\ active = session
  /\ owner \in Scopes
  /\ opening.step \in {"load", "return", "done", "late"}
  /\ opening.scope \in Scopes
  /\ opening = Opening(opening.step, opening.scope, opening.read)
  /\ Whole(cache)
  /\ queue \in Seq(Operation)
  /\ sync \in [scope : Accounts, step : Steps] \cup {Idle}

LateScreen == opening.step = "late" /\ shown = opening.read

ClaimIsDue ==
  owner = Local =>
    /\ sync = Idle
    /\ \/ opening.step = "load" /\ opening.scope # Local
       \/ /\ SyncsAfterClaim(queue)
          /\ active # Local => /\ HasLoad(queue, active)
                              /\ \/ shown \in {EmptySnapshot, Loading}
                                 \/ LateScreen

OpeningOK ==
  /\ opening.step = "load" =>
       /\ sync = Idle
       /\ shown = Loading \/ (shown = EmptySnapshot /\ HasLoad(queue, active))
  /\ opening.step = "return" /\ opening.scope # Local => owner # Local

ScreenInv == /\ DeviceOK /\ LoadsEndWith(queue, active) /\ ClaimIsDue /\ OpeningOK
             /\ ScreenIsCurrent

\* The queue when the operation of a scope schedules its synchronisation.
LEMMA ScheduledIs ==
  ASSUME NEW q \in Seq(Operation), NEW s \in Scopes
  PROVE  /\ s = Local => q \o Scheduled(s) = q
         /\ s # Local => /\ SyncOp(s) \in Operation
                         /\ SyncOp(s).kind = "sync"
                         /\ q \o Scheduled(s) = Append(q, SyncOp(s))
         /\ q \o Scheduled(s) \in Seq(Operation)
<1>1. CASE s = Local
  BY <1>1 DEF Scheduled
<1>2. CASE s # Local
  <2>1. SyncOp(s) \in Operation /\ SyncOp(s).kind = "sync"
    BY <1>2 DEF SyncOp, Operation, Scopes
  <2> HIDE DEF SyncOp
  <2>2. q \o Scheduled(s) = Append(q, SyncOp(s))
    BY <1>2, <2>1 DEF Scheduled
  <2> QED BY <1>2, <2>1, <2>2
<1> QED BY <1>1, <1>2

\* A sync that runs is of an account, and an account owns the device.
LEMMA SyncIsBusy ==
  ASSUME DeviceOK, ClaimIsDue, sync.step \in Steps
  PROVE  sync \in [scope : Accounts, step : Steps] /\ sync.scope \in Accounts
         /\ sync.scope \in Scopes /\ sync.scope # Local /\ owner # Local
<1>1. sync # Idle
  BY DEF Idle, Steps
<1> QED BY <1>1, SyncAssumption DEF DeviceOK, ClaimIsDue, Scopes

\* Saving what is kept for a scope changes the screen of that scope alone.
LEMMA SavedScreen ==
  ASSUME DeviceOK, ScreenIsCurrent, NEW s \in Scopes, NEW new, Kept(new),
         Commit(cache, s, new), UNCHANGED <<active, queue, opening>>
  PROVE  Whole(cache)' /\ ScreenIsCurrent'
<1>1. /\ Whole(cache')
      /\ cache'[s] = new
      /\ \A t \in Scopes : t # s => cache'[t] = cache[t]
  <2>1. Whole(cache)
    BY DEF DeviceOK
  <2>2. cache' = [cache EXCEPT ![s] = new]
    BY DEF Commit
  <2>3. /\ Whole([cache EXCEPT ![s] = new])
        /\ [cache EXCEPT ![s] = new][s] = new
        /\ \A t \in Scopes : t # s => [cache EXCEPT ![s] = new][t] = cache[t]
    BY <2>1, SavedWhole
  <2> QED BY <2>2, <2>3
<1>2. CASE s = active
  BY <1>1, <1>2 DEF ScreenIsCurrent, Commit
<1>3. CASE s # active
  BY <1>1, <1>3 DEF ScreenIsCurrent, Commit, DeviceOK
<1> QED BY <1>1, <1>2, <1>3

\* A switch of the session empties the screen until the load it queues.
LEMMA SwitchedScreen ==
  ASSUME DeviceOK, NEW s \in Scopes, s # active, SwitchTo(s)
  PROVE  /\ session' \in Scopes /\ active' = session'
         /\ queue' \in Seq(Operation)
         /\ LoadsEndWith(queue, active)'
         /\ SyncsAfterClaim(queue) => SyncsAfterClaim(queue)'
         /\ HasLoad(queue, active)' /\ shown' = EmptySnapshot
         /\ ScreenIsCurrent'
<1>1. /\ session' = s /\ active' = s /\ shown' = EmptySnapshot
      /\ queue' = Append(queue, LoadOp(s))
  BY DEF SwitchTo
<1>2. /\ queue \in Seq(Operation)
      /\ LoadOp(s) \in Operation /\ LoadOp(s).kind # "sync"
  BY AppendedLoad DEF DeviceOK, LoadOp
<1>3. /\ queue' \in Seq(Operation)
      /\ LoadsEndWith(queue', s) /\ HasLoad(queue', s)
  BY <1>1, <1>2, AppendedAt, AppendedLoad
<1>4. SyncsAfterClaim(queue) => SyncsAfterClaim(queue')
  BY <1>1, <1>2, AppendedAfterClaim
<1> QED BY <1>1, <1>3, <1>4 DEF ScreenIsCurrent, HasLoad

-----------------------------------------------------------------------------
\* The app starts with a screen that is right.
LEMMA ScreenInit == Init => ScreenInv
<1> SUFFICES ASSUME Init PROVE ScreenInv
  OBVIOUS
<1>1. /\ session \in Scopes /\ active = session /\ owner = Local
      /\ cache = [s \in Scopes |-> EmptyCache] /\ Local \in Scopes
      /\ opening = Opening("load", session, EmptySnapshot)
      /\ queue = <<>> /\ shown = Loading /\ sync = Idle
  BY DEF Init, Scopes
<1>2. Whole(cache)
  BY <1>1 DEF Whole, Kept, EmptyCache
<1>3. DeviceOK
  BY <1>1, <1>2, EmptyQueue DEF DeviceOK, Opening
<1>4. LoadsEndWith(queue, active) /\ SyncsAfterClaim(queue)
  BY <1>1, EmptyQueue
<1> QED BY <1>1, <1>3, <1>4
        DEF ScreenInv, ClaimIsDue, OpeningOK, ScreenIsCurrent, Opening

\* The user's actions.
LEMMA TapStep ==
  ASSUME ScreenInv, NEW r \in Changes, Tap(r)
  PROVE  ScreenInv'
<1>1. /\ queue' = Append(queue, ChangeOp(r))
      /\ UNCHANGED <<session, active, cache, owner, opening, shown, sync>>
  BY DEF Tap, sessionVars, cacheVars, claimVars
<1>2. /\ ChangeOp(r) \in Operation
      /\ ChangeOp(r).kind \notin {"load", "sync"}
      /\ queue \in Seq(Operation)
  BY DEF ScreenInv, DeviceOK, ChangeOp, Operation
<1>3. /\ queue' \in Seq(Operation)
      /\ LoadsEndWith(queue', active)
      /\ SyncsAfterClaim(queue) => SyncsAfterClaim(queue')
      /\ HasLoad(queue, active) => HasLoad(queue', active)
  BY <1>1, <1>2, AppendedAt, AppendedEndsWith, AppendedAfterClaim,
     AppendedHasLoad DEF ScreenInv
<1> QED BY <1>1, <1>3
        DEF ScreenInv, DeviceOK, ClaimIsDue, OpeningOK, LateScreen, ScreenIsCurrent,
            HasLoad

\* The user signs in or out.
LEMMA SwitchStep ==
  ASSUME ScreenInv, NEW s \in Scopes, Switch(s)
  PROVE  ScreenInv'
<1>1. SwitchTo(s) /\ s # active /\ UNCHANGED <<cache, owner, opening, sync>>
  BY DEF Switch, claimVars, ScreenInv, DeviceOK
<1> QED BY <1>1, SwitchedScreen DEF ScreenInv, DeviceOK, ClaimIsDue, OpeningOK

\* The app comes to the foreground.
LEMMA ResumeStep ==
  ASSUME ScreenInv, Resume
  PROVE  ScreenInv'
<1>1. /\ queue' = Append(queue, SyncOp(active)) /\ active \in Accounts
      /\ UNCHANGED <<session, active, cache, owner, opening, shown, sync>>
  BY DEF Resume, sessionVars, cacheVars, claimVars, ScreenInv, DeviceOK, Scopes
<1>2. /\ SyncOp(active) \in Operation /\ SyncOp(active).kind = "sync"
      /\ queue \in Seq(Operation)
  BY <1>1 DEF ScreenInv, DeviceOK, SyncOp, Operation
<1>3. /\ queue' \in Seq(Operation)
      /\ LoadsEndWith(queue', active)
      /\ HasLoad(queue, active) => HasLoad(queue', active)
  BY <1>1, <1>2, AppendedAt, AppendedEndsWith, AppendedHasLoad DEF ScreenInv
<1>4. owner = Local /\ SyncsAfterClaim(queue) /\ HasLoad(queue, active)
        => SyncsAfterClaim(queue')
  BY <1>1, <1>2, AppendedAfterClaim
<1>5. active # Local
  BY <1>1, SyncAssumption
<1>6. ClaimIsDue'
  BY <1>1, <1>3, <1>4, <1>5 DEF ScreenInv, ClaimIsDue, LateScreen
<1>7. OpeningOK' /\ ScreenIsCurrent'
  BY <1>1, <1>3 DEF ScreenInv, OpeningOK, ScreenIsCurrent, HasLoad
<1> QED BY <1>1, <1>3, <1>6, <1>7 DEF ScreenInv, DeviceOK

\* The app is started again on caches of the right shape.
LEMMA StartStep ==
  ASSUME ScreenInv, Start, Whole(cache)', owner' \in Scopes
  PROVE  ScreenInv'
<1>1. /\ session' = session /\ session \in Scopes /\ active' = session
      /\ opening' = Opening("load", session, EmptySnapshot)
      /\ shown' = Loading /\ queue' = <<>> /\ sync' = Idle
  BY DEF Start, ScreenInv, DeviceOK
<1>2. /\ queue' \in Seq(Operation)
      /\ LoadsEndWith(queue', session) /\ SyncsAfterClaim(queue')
  BY <1>1, EmptyQueue
<1>3. DeviceOK'
  BY <1>1, <1>2 DEF DeviceOK, Opening
<1> QED BY <1>1, <1>2, <1>3
        DEF ScreenInv, ClaimIsDue, OpeningOK, ScreenIsCurrent, Opening

\* The app is killed and started again.
LEMMA CrashStep ==
  ASSUME ScreenInv, Crash
  PROVE  ScreenInv'
BY StartStep DEF Crash, claimVars, ScreenInv, DeviceOK

\* The app is killed between the writes of a claim.
LEMMA CrashInClaimStep ==
  ASSUME ScreenInv, CrashInClaim
  PROVE  ScreenInv'
<1>1. /\ Start /\ owner' \in Scopes
      /\ cache' = cache \/ cache' = [cache EXCEPT ![Local] = EmptyCache]
      /\ Whole(cache)
  BY DEF CrashInClaim, ScreenInv, DeviceOK
<1>2. Kept(EmptyCache) /\ Local \in Scopes
  BY DEF Kept, EmptyCache, Scopes
<1>3. Whole(cache')
  BY <1>1, <1>2, SavedWhole
<1> QED BY <1>1, <1>3, StartStep

\* build() reads what is kept for its scope.
LEMMA BuildLoadsStep ==
  ASSUME ScreenInv, BuildLoads
  PROVE  ScreenInv'
<1> DEFINE s == opening.scope
           read == Loaded(s)[s].snapshot
<1>1. /\ opening.step = "load" /\ s \in Scopes /\ sync = Idle
      /\ cache' = Loaded(s) /\ Claim(s)
      /\ opening' = Opening("return", s, read)
      /\ UNCHANGED <<session, active, shown, queue, sync>>
      /\ Whole(cache) /\ owner \in Scopes
  BY DEF BuildLoads, ScreenInv, DeviceOK, OpeningOK, sessionVars
<1>2. /\ owner' \in Scopes
      /\ owner' = Local => s = Local /\ owner = Local
  BY <1>1 DEF Claim, Claims, claimVars
<1>3. Whole(cache')
  BY <1>1, LoadedWhole
<1> HIDE DEF s, read
<1>4. DeviceOK'
  BY <1>1, <1>2, <1>3 DEF ScreenInv, DeviceOK, Opening
<1>5. /\ opening'.step = "return" /\ opening'.scope = s
      /\ shown = Loading \/ (shown = EmptySnapshot /\ HasLoad(queue, active))
  BY <1>1 DEF Opening, ScreenInv, OpeningOK
<1>6. ClaimIsDue'
  <2> SUFFICES ASSUME owner' = Local
               PROVE  /\ sync = Idle /\ SyncsAfterClaim(queue)
                      /\ active # Local => HasLoad(queue, active)
    BY <1>1, <1>5 DEF ClaimIsDue
  <2> QED BY <1>2 DEF ScreenInv, ClaimIsDue, s
<1> QED BY <1>1, <1>2, <1>4, <1>5, <1>6
        DEF ScreenInv, OpeningOK, ScreenIsCurrent, HasLoad

\* build() returns, and schedules the synchronisation of the active scope.
LEMMA BuildReturnsStep ==
  ASSUME ScreenInv, BuildReturns
  PROVE  ScreenInv'
<1> DEFINE read == opening.read
           same == opening.scope = active /\ read = cache[active].snapshot
<1>1. /\ opening.step = "return" /\ shown' = read
      /\ queue' = queue \o Scheduled(active)
      /\ opening' = IF same THEN Opening("done", opening.scope, EmptySnapshot)
                    ELSE Opening("late", opening.scope, read)
      /\ UNCHANGED <<session, active, cache, owner, sync>>
      /\ active \in Scopes /\ queue \in Seq(Operation)
  <2>1. [opening EXCEPT !.step = "late"] = Opening("late", opening.scope, read)
    <3>1. opening = Opening(opening.step, opening.scope, opening.read)
      BY DEF ScreenInv, DeviceOK
    <3> QED BY <3>1 DEF Opening
  <2> QED BY <2>1 DEF BuildReturns, ScreenInv, DeviceOK, sessionVars, claimVars
<1>2. /\ opening'.scope = opening.scope
      /\ IF same THEN opening'.step = "done"
         ELSE opening'.step = "late" /\ opening'.read = read
  BY <1>1 DEF Opening
<1>3. /\ queue' \in Seq(Operation)
      /\ LoadsEndWith(queue', active)
      /\ SyncsAfterClaim(queue) /\ (active # Local => HasLoad(queue, active))
           => SyncsAfterClaim(queue')
      /\ HasLoad(queue, active) => HasLoad(queue', active)
  <2>1. CASE active = Local
    BY <1>1, <2>1, ScheduledIs DEF ScreenInv
  <2>2. CASE active # Local
    <3> DEFINE op == SyncOp(active)
    <3>0. /\ op \in Operation /\ op.kind = "sync"
          /\ queue \o Scheduled(active) = Append(queue, op)
      <4>1. active \in Scopes /\ queue \in Seq(Operation)
        BY DEF ScreenInv, DeviceOK
      <4> HIDE DEF op
      <4>2. /\ SyncOp(active) \in Operation /\ SyncOp(active).kind = "sync"
            /\ queue \o Scheduled(active) = Append(queue, SyncOp(active))
        BY <2>2, <4>1, ScheduledIs
      <4> QED BY <4>2 DEF op
    <3> HIDE DEF op, read, same
    <3>1. /\ op \in Operation /\ op.kind = "sync" /\ queue' = Append(queue, op)
          /\ LoadsEndWith(queue, active)
      <4>1. queue' = queue \o Scheduled(active)
        BY <1>1
      <4>2. LoadsEndWith(queue, active)
        BY DEF ScreenInv
      <4> QED BY <3>0, <4>1, <4>2
    <3>2. LoadsEndWith(queue', active)
      BY <1>1, <3>1, AppendedEndsWith
    <3>3. HasLoad(queue, active) => HasLoad(queue', active)
      BY <1>1, <3>1, AppendedHasLoad
    <3>4. SyncsAfterClaim(queue) /\ HasLoad(queue, active)
            => SyncsAfterClaim(queue')
      <4>1. active \in Accounts
        BY <1>1, <2>2 DEF Scopes
      <4> QED BY <1>1, <3>1, <4>1, AppendedAfterClaim
    <3>5. queue' \in Seq(Operation)
      BY <1>1, <3>1, AppendProperties
    <3> QED BY <2>2, <3>2, <3>3, <3>4, <3>5
  <2> QED BY <2>1, <2>2
<1> HIDE DEF read, same
<1>4. DeviceOK'
  BY <1>1, <1>2, <1>3 DEF ScreenInv, DeviceOK, Opening
<1>5. ScreenIsCurrent'
  BY <1>1, <1>2 DEF ScreenIsCurrent, same
<1>6. ClaimIsDue'
  <2> SUFFICES ASSUME owner = Local
               PROVE  /\ sync = Idle /\ SyncsAfterClaim(queue')
                      /\ active # Local => HasLoad(queue', active) /\ LateScreen'
    BY <1>1 DEF ClaimIsDue
  <2>1. opening.scope = Local
    BY <1>1 DEF ScreenInv, OpeningOK
  <2>2. /\ sync = Idle /\ SyncsAfterClaim(queue)
        /\ active # Local => HasLoad(queue, active)
    BY <1>1 DEF ScreenInv, ClaimIsDue
  <2> QED BY <1>1, <1>2, <1>3, <2>1, <2>2 DEF LateScreen, same
<1> QED BY <1>1, <1>2, <1>3, <1>4, <1>5, <1>6 DEF ScreenInv, OpeningOK

\* The operations that leave the queue.
LEMMA RunChangeStep ==
  ASSUME ScreenInv, RunChange
  PROVE  ScreenInv'
<1> DEFINE caches == Loaded(active)
           before == caches[active]
           after == Optimistic(before.snapshot, Head(queue).request)
           remote == active # Local
           new == [before EXCEPT !.snapshot = after,
                     !.outbox = IF remote
                                THEN Append(@, Head(queue).request) ELSE @]
<1>1. /\ queue # <<>> /\ Head(queue).kind = "change" /\ sync = Idle
      /\ Claim(active) /\ active \in Scopes /\ owner \in Scopes
      /\ queue \in Seq(Operation) /\ Whole(cache)
      /\ LoadsEndWith(queue, active)
      /\ opening.step # "load" /\ shown # Loading
      /\ UNCHANGED <<session, active, opening, sync>>
  BY DEF RunChange, NextChange, NextOp, ScreenInv, DeviceOK, sessionVars
<1>2. /\ Tail(queue) \in Seq(Operation)
      /\ LoadsEndWith(Tail(queue), active)
      /\ SyncsAfterClaim(queue) => SyncsAfterClaim(Tail(queue))
      /\ HasLoad(queue, active) => HasLoad(Tail(queue), active)
  <2> HIDE DEF caches, before, after, remote, new
  <2>1. Head(queue).kind # "load"
    BY <1>1
  <2> QED BY <1>1, <2>1, TailOfOther
<1>3. /\ owner' \in Scopes /\ (owner' = Local => active = Local /\ owner = Local)
      /\ ~Claims(active) => owner' = owner
  BY <1>1 DEF Claim, Claims, claimVars
<1>4. /\ Whole(caches)
      /\ ~Claims(active) => caches = cache
  BY <1>1, LoadedWhole
<1>5. Kept(before)
  BY <1>1, <1>4 DEF Whole
<1>6. CASE after = before.snapshot
  <2>1. queue' = Tail(queue) /\ cache' = caches /\ shown' = shown
    BY <1>6 DEF RunChange
  <2>2. CASE Claims(active)
    <3>1. HasLoad(queue, active) /\ (shown = EmptySnapshot \/ LateScreen)
      <4> HIDE DEF caches, before, after, remote, new
      <4> QED BY <1>1, <2>2 DEF Claims, ScreenInv, ClaimIsDue
    <3>2. ScreenIsCurrent'
      BY <1>1, <1>2, <2>1, <3>1 DEF ScreenIsCurrent, HasLoad, LateScreen
    <3>3. owner' # Local
      BY <1>3, <2>2 DEF Claims
    <3> QED BY <1>1, <1>2, <1>3, <1>4, <2>1, <3>2, <3>3
            DEF ScreenInv, DeviceOK, ClaimIsDue, OpeningOK
  <2>3. CASE ~Claims(active)
    <3>1. cache' = cache /\ owner' = owner
      BY <1>3, <1>4, <2>1, <2>3
    <3> QED BY <1>1, <1>2, <1>3, <2>1, <3>1
            DEF ScreenInv, DeviceOK, ClaimIsDue, OpeningOK, LateScreen,
                ScreenIsCurrent, HasLoad
  <2> QED BY <2>2, <2>3
<1>7. CASE after # before.snapshot
  <2>1. queue' = Tail(queue) \o Scheduled(active) /\ Commit(caches, active, new)
    BY <1>7 DEF RunChange
  <2>2. new.snapshot = after /\ Kept(new)
    <3> DEFINE mid == [before EXCEPT !.snapshot = after]
               items == IF remote THEN Append(before.outbox, Head(queue).request)
                        ELSE before.outbox
    <3>1. new = [mid EXCEPT !.outbox = items] /\ mid.snapshot = after /\ Kept(mid)
      <4>1. Kept(mid) /\ mid.snapshot = after /\ mid.outbox = before.outbox
        <5> HIDE DEF before, after
        <5> QED BY <1>5, KeptUpdates
      <4> QED BY <4>1
    <3> HIDE DEF mid, items, new, after
    <3> QED BY <3>1, KeptUpdates
  <2> HIDE DEF new, caches
  <2>3. Whole(cache') /\ cache'[active] = new /\ shown' = new.snapshot
    <3>1. cache' = [caches EXCEPT ![active] = new] /\ shown' = new.snapshot
      BY <2>1 DEF Commit
    <3>2. /\ Whole([caches EXCEPT ![active] = new])
          /\ [caches EXCEPT ![active] = new][active] = new
      BY <1>1, <1>4, <2>2, SavedWhole
    <3> QED BY <3>1, <3>2
  <2>4. /\ queue' \in Seq(Operation)
        /\ LoadsEndWith(queue', active)
        /\ owner' = Local => SyncsAfterClaim(queue')
    <3>1. CASE active = Local
      BY <1>1, <1>2, <1>3, <2>1, <3>1, ScheduledIs DEF ScreenInv, ClaimIsDue
    <3>2. CASE active # Local
      BY <1>1, <1>2, <1>3, <2>1, <3>2, ScheduledIs, AppendedEndsWith
    <3> QED BY <3>1, <3>2
  <2> QED BY <1>1, <1>3, <2>3, <2>4
          DEF ScreenInv, DeviceOK, ClaimIsDue, OpeningOK, ScreenIsCurrent
<1> QED BY <1>6, <1>7

\* A sync starts at one of its steps.
LEMMA FirstStepType ==
  ASSUME NEW caches, NEW s \in Accounts
  PROVE  FirstStep(caches, s) \in [scope : Accounts, step : Steps]
  BY DEF FirstStep, Steps

\* A queued sync starts.
LEMMA RunSyncStep ==
  ASSUME ScreenInv, RunSync
  PROVE  ScreenInv'
<1>1. /\ queue # <<>> /\ Head(queue).kind = "sync" /\ queue' = Tail(queue)
      /\ queue \in Seq(Operation) /\ LoadsEndWith(queue, active)
      /\ sync' = IF Head(queue).scope = active THEN FirstStep(cache, active) ELSE Idle
      /\ UNCHANGED <<session, active, cache, owner, opening, shown>>
      /\ opening.step # "load"
  BY DEF RunSync, NextOp, ScreenInv, DeviceOK, sessionVars, cacheVars, claimVars
<1>2. Head(queue).scope \in Accounts
  <2>1. Head(queue) \in Operation
    BY <1>1, TailAt
  <2> QED BY <1>1, <2>1 DEF Operation
<1>3. sync' \in [scope : Accounts, step : Steps] \cup {Idle}
  BY <1>1, <1>2, FirstStepType
<1>4. Head(queue).kind # "load"
  BY <1>1
<1>5. /\ Tail(queue) \in Seq(Operation)
      /\ LoadsEndWith(Tail(queue), active)
      /\ ~SyncsAfterClaim(queue)
      /\ HasLoad(queue, active) => HasLoad(Tail(queue), active)
  BY <1>1, <1>4, TailOfOther
<1>6. owner # Local
  BY <1>1, <1>5 DEF ScreenInv, ClaimIsDue
<1> QED BY <1>1, <1>3, <1>5, <1>6
        DEF ScreenInv, DeviceOK, ClaimIsDue, OpeningOK, ScreenIsCurrent, HasLoad

\* A queued load runs.
LEMMA RunLoadStep ==
  ASSUME ScreenInv, RunLoad
  PROVE  ScreenInv'
<1> DEFINE s == Head(queue).scope
           caches == Loaded(s)
<1>1. /\ queue # <<>> /\ Head(queue).kind = "load" /\ sync = Idle
      /\ queue' = Tail(queue) /\ cache' = caches /\ Claim(s)
      /\ queue \in Seq(Operation) /\ LoadsEndWith(queue, active)
      /\ Whole(cache) /\ owner \in Scopes /\ opening.step # "load"
      /\ UNCHANGED <<session, active, opening>>
  BY DEF RunLoad, NextOp, ScreenInv, DeviceOK, sessionVars
<1>2. s \in Scopes /\ Head(queue) = LoadOp(s)
  <2>1. Head(queue) \in [kind : {"load"}, scope : Scopes]
    BY <1>1, TailAt DEF Operation
  <2> QED BY <2>1 DEF LoadOp
<1>3. IF s # active THEN UNCHANGED <<shown, sync>>
      ELSE /\ shown' = caches[s].snapshot
           /\ sync' = IF s = Local THEN Idle ELSE FirstStep(caches, s)
  BY DEF RunLoad
<1>4. /\ owner' \in Scopes
      /\ owner' = Local => s = Local /\ owner = Local
      /\ ~Claims(s) => owner' = owner
  BY <1>1, <1>2 DEF Claim, Claims, claimVars
<1>5. /\ Whole(caches)
      /\ \A t \in Scopes : t \notin {s, Local} => caches[t] = cache[t]
      /\ ~Claims(s) => caches = cache
  BY <1>1, <1>2, LoadedWhole
<1>6. /\ Tail(queue) \in Seq(Operation)
      /\ LoadsEndWith(Tail(queue), active)
      /\ owner' = Local => SyncsAfterClaim(Tail(queue))
  <2>1. Tail(queue) \in Seq(Operation) /\ LoadsEndWith(Tail(queue), active)
    BY <1>1, TailAt, TailEndsWith
  <2>2. ASSUME owner' = Local PROVE SyncsAfterClaim(Tail(queue))
    <3>1. SyncsAfterClaim(queue) /\ Head(queue).scope = Local
      BY <1>1, <1>4, <2>2 DEF ScreenInv, ClaimIsDue
    <3> QED BY <1>1, <3>1, TailAfterClaim
  <2> QED BY <2>1, <2>2
<1> HIDE DEF s, caches
<1>7. CASE s = active
  <2>1. sync' \in [scope : Accounts, step : Steps] \cup {Idle}
    BY <1>2, <1>3, <1>7, FirstStepType DEF Scopes
  <2>2. owner' = Local => active = Local /\ sync' = Idle
    BY <1>3, <1>4, <1>7
  <2>3. ScreenIsCurrent'
    BY <1>1, <1>3, <1>7 DEF ScreenIsCurrent
  <2> QED BY <1>1, <1>4, <1>5, <1>6, <2>1, <2>2, <2>3
          DEF ScreenInv, DeviceOK, ClaimIsDue, OpeningOK
<1>8. CASE s # active
  <2>1. Head(queue) # LoadOp(active)
    BY <1>2, <1>8 DEF LoadOp
  <2>2. HasLoad(queue, active) => HasLoad(Tail(queue), active)
    BY <1>1, <2>1, LoadRemains
  <2>3. HasLoad(queue, active)
    <3>1. 1 \in DOMAIN queue /\ queue[1].kind = "load"
      BY <1>1, TailAt
    <3> QED BY <1>1, <3>1 DEF LoadsEndWith, HasLoad
  <2>4. ScreenIsCurrent'
    <3>1. CASE active = Local
      BY <1>1, <2>2, <2>3, <3>1 DEF ScreenIsCurrent, HasLoad
    <3>2. CASE active # Local
      <4>1. cache'[active] = cache[active] /\ shown' = shown
        BY <1>1, <1>3, <1>5, <1>8, <3>2 DEF ScreenInv, DeviceOK
      <4> QED BY <1>1, <2>2, <2>3, <3>2, <4>1
              DEF ScreenInv, ScreenIsCurrent, HasLoad
    <3> QED BY <3>1, <3>2
  <2>5. sync' = Idle /\ shown' = shown
    BY <1>1, <1>3, <1>8
  <2>6. owner' = Local /\ active # Local =>
          shown \in {EmptySnapshot, Loading} \/ LateScreen
    BY <1>1, <1>4 DEF ScreenInv, ClaimIsDue
  <2> QED BY <1>1, <1>4, <1>5, <1>6, <2>2, <2>3, <2>4, <2>5, <2>6
          DEF ScreenInv, DeviceOK, ClaimIsDue, OpeningOK, LateScreen
<1> QED BY <1>7, <1>8

\* The synchronisation.
LEMMA NextStepType ==
  ASSUME sync \in [scope : Accounts, step : Steps], NEW step \in Steps
  PROVE  [sync EXCEPT !.step = step] \in [scope : Accounts, step : Steps]
  OBVIOUS

\* An exchange that saves the synchronised cache, or leaves the caches alone.
LEMMA SavingStep ==
  ASSUME ScreenInv, sync.step \in Steps,
         \/ \E new : Kept(new) /\ Commit(cache, sync.scope, new)
         \/ UNCHANGED <<cache, shown>>,
         UNCHANGED <<session, active, owner, opening, queue>>,
         sync' \in [scope : Accounts, step : Steps] \cup {Idle}
  PROVE  ScreenInv'
<1>1. sync.scope \in Scopes /\ owner # Local /\ opening.step # "load"
  BY SyncIsBusy DEF ScreenInv, OpeningOK, Idle, Steps
<1>2. Whole(cache)' /\ ScreenIsCurrent'
  <2>1. CASE UNCHANGED <<cache, shown>>
    BY <2>1 DEF ScreenInv, DeviceOK, ScreenIsCurrent
  <2>2. ASSUME NEW new, Kept(new), Commit(cache, sync.scope, new)
        PROVE  Whole(cache)' /\ ScreenIsCurrent'
    BY <1>1, <2>2, SavedScreen DEF ScreenInv
  <2> QED BY <2>1, <2>2
<1> QED BY <1>1, <1>2 DEF ScreenInv, DeviceOK, ClaimIsDue, OpeningOK

\* What the account takes over is imported by the server.
LEMMA ImportStep ==
  ASSUME ScreenInv, Import
  PROVE  ScreenInv'
<1>1. /\ sync.step \in Steps
      /\ UNCHANGED <<session, active, owner, opening, queue>>
      /\ \/ /\ Save([cache[sync.scope] EXCEPT !.legacy = EmptySnapshot])
            /\ sync' = [sync EXCEPT !.step = "fetch"]
         \/ sync' = Idle /\ UNCHANGED <<cache, shown>>
  BY DEF Import, Steps, GiveUp, sessionVars, claimVars
<1>2. /\ Kept([cache[sync.scope] EXCEPT !.legacy = EmptySnapshot])
      /\ [sync EXCEPT !.step = "fetch"] \in [scope : Accounts, step : Steps]
  <2>1. sync.scope \in Scopes /\ sync \in [scope : Accounts, step : Steps]
    BY <1>1, SyncIsBusy DEF ScreenInv
  <2>2. Kept(cache[sync.scope])
    BY <2>1 DEF ScreenInv, DeviceOK, Whole
  <2> QED BY <2>1, <2>2, KeptUpdates DEF Steps
<1>3. sync' \in [scope : Accounts, step : Steps] \cup {Idle}
  BY <1>1, <1>2
<1>4. \/ \E new : Kept(new) /\ Commit(cache, sync.scope, new)
      \/ UNCHANGED <<cache, shown>>
  BY <1>1, <1>2 DEF Save
<1> QED BY <1>1, <1>3, <1>4, SavingStep

\* A sync goes on to one of its steps.
LEMMA ContinueType ==
  ASSUME sync \in [scope : Accounts, step : Steps], NEW outbox, Continue(outbox)
  PROVE  sync' \in [scope : Accounts, step : Steps]
  BY NextStepType DEF Continue, Steps

\* The collections of the server are fetched.
LEMMA FetchStep ==
  ASSUME ScreenInv, Fetch
  PROVE  ScreenInv'
<1> DEFINE fetched == ApplyOutbox(SnapshotOf(server[session]), Outbox)
           new == [cache[sync.scope] EXCEPT !.snapshot = fetched]
<1>1. /\ sync.step \in Steps
      /\ UNCHANGED <<session, active, owner, opening, queue>>
      /\ Save(new) /\ (sync' = Idle \/ Continue(Outbox))
  BY DEF Fetch, Steps, GiveUp, sessionVars, claimVars
<1>2. sync.scope \in Scopes /\ sync \in [scope : Accounts, step : Steps]
  BY <1>1, SyncIsBusy DEF ScreenInv
<1>3. Kept(new)
  <2>1. Kept(cache[sync.scope])
    BY <1>2 DEF ScreenInv, DeviceOK, Whole
  <2> HIDE DEF fetched
  <2> QED BY <2>1, KeptUpdates
<1>4. sync' \in [scope : Accounts, step : Steps] \cup {Idle}
  BY <1>1, <1>2, ContinueType
<1> HIDE DEF new
<1>5. \E x : Kept(x) /\ Commit(cache, sync.scope, x)
  BY <1>1, <1>3 DEF Save
<1> QED BY <1>1, <1>4, <1>5, SavingStep

\* The first change of the outbox is answered.
LEMMA PushStep ==
  ASSUME ScreenInv, Push
  PROVE  ScreenInv'
<1> DEFINE new == [cache[sync.scope] EXCEPT !.outbox = Tail(@)]
<1>1. /\ sync.step \in Steps
      /\ UNCHANGED <<session, active, owner, opening, queue>>
      /\ \/ sync' = Idle /\ UNCHANGED <<cache, shown>>
         \/ Save(new) /\ \/ Continue(Tail(Outbox))
                         \/ sync' = [sync EXCEPT !.step = "refetch"]
  BY DEF Push, Steps, GiveUp, sessionVars, claimVars, cacheVars
<1>2. sync.scope \in Scopes /\ sync \in [scope : Accounts, step : Steps]
  BY <1>1, SyncIsBusy DEF ScreenInv
<1>3. Kept(new)
  <2>1. Kept(cache[sync.scope])
    BY <1>2 DEF ScreenInv, DeviceOK, Whole
  <2> QED BY <2>1, KeptUpdates
<1>4. sync' \in [scope : Accounts, step : Steps] \cup {Idle}
  BY <1>1, <1>2, ContinueType, NextStepType DEF Steps
<1> HIDE DEF new
<1>5. \/ \E x : Kept(x) /\ Commit(cache, sync.scope, x)
      \/ UNCHANGED <<cache, shown>>
  BY <1>1, <1>3 DEF Save
<1> QED BY <1>1, <1>4, <1>5, SavingStep

\* A 401 signs the user out, if somebody is signed in.
LEMMA UnauthorizedStep ==
  ASSUME ScreenInv, sync.step \in Steps, SignedOut, UNCHANGED <<owner, opening>>,
         Whole(cache)', cache'[active].snapshot = cache[active].snapshot,
         sync' \in [scope : Accounts, step : Steps] \cup {Idle}
  PROVE  ScreenInv'
<1>1. owner # Local /\ DeviceOK /\ Local \in Scopes /\ opening.step # "load"
  BY SyncIsBusy DEF ScreenInv, Scopes, OpeningOK, Idle, Steps
<1>2. CASE session = Local
  BY <1>1, <1>2 DEF SignedOut, sessionVars, ScreenInv, DeviceOK, ClaimIsDue,
                    OpeningOK, ScreenIsCurrent
<1>3. CASE session # Local
  <2>1. SwitchTo(Local) /\ Local # active
    BY <1>1, <1>3 DEF SignedOut, DeviceOK
  <2>2. /\ session' \in Scopes /\ active' = session'
        /\ queue' \in Seq(Operation)
        /\ LoadsEndWith(queue, active)' /\ ScreenIsCurrent'
    BY <1>1, <2>1, SwitchedScreen
  <2> QED BY <1>1, <2>2 DEF ScreenInv, DeviceOK, ClaimIsDue, OpeningOK
<1> QED BY <1>2, <1>3

\* The server refuses the session when it is asked for the collections.
LEMMA FetchUnauthorizedStep ==
  ASSUME ScreenInv, FetchUnauthorized
  PROVE  ScreenInv'
<1>1. /\ sync.step \in Steps /\ SignedOut /\ sync' = Idle
      /\ UNCHANGED <<cache, owner, opening>>
  BY DEF FetchUnauthorized, Steps, GiveUp, claimVars
<1>2. Whole(cache)'
  BY <1>1 DEF ScreenInv, DeviceOK
<1> QED BY <1>1, <1>2, UnauthorizedStep

\* The server refuses the session when it is sent a change.
LEMMA PushUnauthorizedStep ==
  ASSUME ScreenInv, PushUnauthorized
  PROVE  ScreenInv'
<1> DEFINE s == sync.scope
           new == [cache[s] EXCEPT !.outbox = Tail(@)]
<1>1. /\ sync.step \in Steps /\ SignedOut /\ UNCHANGED <<owner, opening>>
      /\ cache' = [cache EXCEPT ![s] = new]
      /\ sync' = [sync EXCEPT !.step = "refetch"]
  BY DEF PushUnauthorized, Steps, claimVars
<1>2. s \in Scopes /\ sync \in [scope : Accounts, step : Steps]
  BY <1>1, SyncIsBusy DEF ScreenInv
<1>3. Whole(cache) /\ active \in Scopes
  BY DEF ScreenInv, DeviceOK
<1>4. Kept(new) /\ new.snapshot = cache[s].snapshot
  BY <1>2, <1>3, KeptUpdates DEF Whole
<1> HIDE DEF new, s
<1>5. /\ Whole([cache EXCEPT ![s] = new])
      /\ [cache EXCEPT ![s] = new][s] = new
      /\ \A t \in Scopes : t # s => [cache EXCEPT ![s] = new][t] = cache[t]
  BY <1>2, <1>3, <1>4, SavedWhole
<1>6. Whole(cache)' /\ cache'[active].snapshot = cache[active].snapshot
  BY <1>1, <1>3, <1>4, <1>5
<1>7. sync' \in [scope : Accounts, step : Steps]
  BY <1>1, <1>2, NextStepType DEF Steps
<1> QED BY <1>1, <1>6, <1>7, UnauthorizedStep

\* Every step keeps the screen right.
LEMMA ScreenNext == ScreenInv /\ [Next]_vars => ScreenInv'
<1> SUFFICES ASSUME ScreenInv, [Next]_vars PROVE ScreenInv'
  OBVIOUS
<1>1. CASE \E r \in Changes : Tap(r)
  BY <1>1, TapStep
<1>2. CASE \E s \in Scopes : Switch(s)
  BY <1>2, SwitchStep
<1>3. CASE Resume \/ Crash \/ CrashInClaim
  BY <1>3, ResumeStep, CrashStep, CrashInClaimStep
<1>4. CASE RunChange \/ RunSync \/ RunLoad
  BY <1>4, RunChangeStep, RunSyncStep, RunLoadStep
<1>0. CASE BuildLoads \/ BuildReturns
  BY <1>0, BuildLoadsStep, BuildReturnsStep
<1>5. CASE Import \/ Fetch \/ FetchUnauthorized \/ Push \/ PushUnauthorized
  BY <1>5, ImportStep, FetchStep, FetchUnauthorizedStep, PushStep,
     PushUnauthorizedStep
<1>6. CASE LoseRequest \/ LoseAnswer
  <2>1. /\ sync.step \in Steps /\ sync' = Idle
        /\ UNCHANGED <<cache, shown>>
        /\ UNCHANGED <<session, active, owner, opening, queue>>
    BY <1>6 DEF LoseRequest, LoseAnswer, Steps, GiveUp, sessionVars, cacheVars,
                claimVars
  <2> QED BY <2>1, SavingStep
<1>7. CASE \/ \E a \in Accounts, r \in OtherChanges : OtherDevice(a, r)
           \/ Expire \/ UNCHANGED vars
  <2>1. UNCHANGED <<session, active, cache, owner, opening, shown, queue, sync>>
    BY <1>7 DEF OtherDevice, Expire, vars, sessionVars, cacheVars, claimVars
  <2> QED BY <2>1 DEF ScreenInv, DeviceOK, ClaimIsDue, OpeningOK, LateScreen,
                      ScreenIsCurrent
<1> QED BY <1>0, <1>1, <1>2, <1>3, <1>4, <1>5, <1>6, <1>7 DEF Next, SyncSteps

\* The screen is right in every state.
LEMMA ScreenInvariance == Spec => []ScreenInv
  BY ScreenInit, ScreenNext, PTL DEF Spec

\* Whatever waits, fails or is interrupted, and whenever the user signs in or
\* out, the screen shows what is kept for the active scope, loads, is empty
\* until that scope is loaded, or shows to nobody but the user without an
\* account what an account is taking over; or a build() that something else has
\* overtaken shows what it had read (CollectionsController, build, _commit).
THEOREM ScreenStaysCurrent == Spec => []ScreenIsCurrent
<1>1. ScreenInv => ScreenIsCurrent
  BY DEF ScreenInv
<1> QED BY <1>1, ScreenInvariance, PTL

-----------------------------------------------------------------------------
(***************************************************************************)
(* A device whose session does not end in a synchronisation: an item that  *)
(* is then answered with 401 is dropped, so that without this the property *)
(* below fails.                                                            *)
(***************************************************************************)
Quiet == Faults \cap {"busy_sign_out", "expiry"} = {}

SessionOK ==
  /\ expired = FALSE
  /\ sync # Idle => sync.scope = active
  /\ sync.step = "push" => Outbox # <<>>

\* The outboxes, and the histories they are compared with.  Nothing was
\* queued for any account until one owns the device's collections: this is
\* why a first load, which starts an outbox anew, drops nothing.
OutboxesOK ==
  /\ issued \in [Accounts -> Seq(Changes)]
  /\ resolved \in [Accounts -> Nat]
  /\ \A a \in Accounts : resolved[a] <= Len(issued[a])
  /\ owner = Local => \A a \in Accounts : issued[a] = <<>>
  /\ OutboxIsUnresolved

SettledInv ==
  /\ ScreenInv /\ SessionOK /\ OutboxesOK
  /\ server = [a \in Accounts |-> server[a]] /\ others \in Nat

\* What is left of an empty sequence is empty.
LEMMA NothingPending ==
  ASSUME NEW s, s = <<>>, NEW k \in Nat
  PROVE  SubSeq(s, k + 1, Len(s)) = <<>> /\ Len(s) = 0
<1>1. SubSeq(<<>>, k + 1, Len(<<>>)) = <<>> /\ Len(<<>>) = 0
  OBVIOUS
<1> QED BY <1>1

\* A change that is queued is pending at the end.
LEMMA PendingGrows ==
  ASSUME NEW s \in Seq(Changes), NEW k \in Nat, k <= Len(s), NEW r \in Changes
  PROVE  /\ Append(SubSeq(s, k + 1, Len(s)), r)
              = SubSeq(Append(s, r), k + 1, Len(Append(s, r)))
         /\ Append(s, r) \in Seq(Changes) /\ k <= Len(Append(s, r))
<1> DEFINE n == Len(s)
           old == SubSeq(s, k + 1, n)
           new == SubSeq(Append(s, r), k + 1, n + 1)
<1>1. /\ Append(s, r) \in Seq(Changes) /\ Len(Append(s, r)) = n + 1
      /\ n \in Nat
      /\ \A i \in 1..n : Append(s, r)[i] = s[i]
      /\ Append(s, r)[n + 1] = r
  OBVIOUS
<1>2. /\ old \in Seq(Changes) /\ Len(old) = n - k
      /\ \A i \in 1..n - k : old[i] = s[k + i]
  OBVIOUS
<1>3. /\ new \in Seq(Changes) /\ Len(new) = n - k + 1
      /\ \A i \in 1..n - k + 1 : new[i] = Append(s, r)[k + i]
  BY <1>1
<1> HIDE DEF old, new, n
<1>4. /\ Append(old, r) \in Seq(Changes) /\ Len(Append(old, r)) = n - k + 1
      /\ \A i \in 1..n - k : Append(old, r)[i] = old[i]
      /\ Append(old, r)[n - k + 1] = r
  BY <1>1, <1>2
<1>5. ASSUME NEW i \in 1..n - k + 1 PROVE Append(old, r)[i] = new[i]
  <2>1. CASE i = n - k + 1
    <3>1. k + i = n + 1
      BY <1>1, <2>1
    <3> QED BY <1>1, <1>3, <1>4, <2>1, <3>1
  <2>2. CASE i # n - k + 1
    <3>1. i \in 1..n - k /\ k + i \in 1..n
      BY <1>1, <2>2
    <3> QED BY <1>1, <1>2, <1>3, <1>4, <3>1
  <2> QED BY <2>1, <2>2
<1>6. Append(old, r) = new
  BY <1>1, <1>3, <1>4, <1>5
<1> QED BY <1>1, <1>6 DEF old, new, n

\* What the server answers was pending at the head.
LEMMA PendingShrinks ==
  ASSUME NEW s \in Seq(Changes), NEW k \in Nat, k <= Len(s),
         SubSeq(s, k + 1, Len(s)) # <<>>
  PROVE  /\ k + 1 <= Len(s)
         /\ Tail(SubSeq(s, k + 1, Len(s))) = SubSeq(s, (k + 1) + 1, Len(s))
<1> DEFINE n == Len(s)
           old == SubSeq(s, k + 1, n)
           new == SubSeq(s, (k + 1) + 1, n)
<1>1. /\ n \in Nat /\ old \in Seq(Changes) /\ Len(old) = n - k
      /\ \A i \in 1..n - k : old[i] = s[k + i]
  OBVIOUS
<1>2. k + 1 <= n
  BY <1>1
<1>3. /\ new \in Seq(Changes) /\ Len(new) = n - k - 1
      /\ \A i \in 1..n - k - 1 : new[i] = s[k + 1 + i]
  <2> DEFINE m == (k + 1) + 1
  <2>1. m \in Nat \ {0} /\ m <= n + 1 /\ n - m + 1 = n - k - 1
        /\ \A i \in 1..n - k - 1 : m + i - 1 = k + 1 + i
    BY <1>1, <1>2
  <2>2. new = SubSeq(s, m, n)
    OBVIOUS
  <2> HIDE DEF m, new
  <2>3. /\ SubSeq(s, m, n) \in Seq(Changes) /\ Len(SubSeq(s, m, n)) = n - m + 1
        /\ \A i \in 1..n - m + 1 : SubSeq(s, m, n)[i] = s[m + i - 1]
    BY <2>1
  <2>4. n - m + 1 = n - k - 1
    BY <2>1
  <2>5. ASSUME NEW i \in 1..n - k - 1 PROVE new[i] = s[k + 1 + i]
    BY <2>1, <2>2, <2>3
  <2> QED BY <2>2, <2>3, <2>4, <2>5
<1> HIDE DEF old, new, n
<1>4. old # <<>>
  BY DEF old, n
<1>5. /\ Tail(old) \in Seq(Changes) /\ Len(Tail(old)) = n - k - 1
      /\ \A i \in 1..n - k - 1 : Tail(old)[i] = old[i + 1]
  BY <1>1, <1>2, <1>4
<1>6. ASSUME NEW i \in 1..n - k - 1 PROVE Tail(old)[i] = new[i]
  <2>1. i + 1 \in 1..n - k /\ k + (i + 1) = k + 1 + i
    BY <1>1
  <2> QED BY <1>1, <1>3, <1>5, <2>1
<1>7. Tail(old) = new
  <2>1. Len(Tail(old)) = Len(new)
    BY <1>3, <1>5
  <2>2. \A i \in 1..Len(Tail(old)) : Tail(old)[i] = new[i]
    BY <1>5, <1>6
  <2> QED BY <1>3, <1>5, <2>1, <2>2, SeqEqual
<1> QED BY <1>2, <1>7 DEF old, new, n

\* The app starts with nothing to send.
LEMMA SettledInit == Init => SettledInv
<1> SUFFICES ASSUME Init PROVE SettledInv
  OBVIOUS
<1>1. /\ issued = [a \in Accounts |-> <<>>] /\ resolved = [a \in Accounts |-> 0]
      /\ cache = [s \in Scopes |-> EmptyCache] /\ others = 0
      /\ server = [a \in Accounts |-> EmptyUser]
      /\ expired = FALSE /\ sync = Idle
  BY DEF Init
<1>3. \A a \in Accounts : cache[a].outbox = <<>>
  BY <1>1 DEF EmptyCache, Scopes
<1>4. OutboxesOK
  <2>1. \A a \in Accounts : issued[a] = <<>> /\ resolved[a] = 0
    BY <1>1
  <2>2. issued \in [Accounts -> Seq(Changes)] /\ resolved \in [Accounts -> Nat]
    BY <1>1
  <2>3. ASSUME NEW a \in Accounts
        PROVE  /\ resolved[a] <= Len(issued[a])
               /\ cache[a].outbox
                    = SubSeq(issued[a], resolved[a] + 1, Len(issued[a]))
    <3>1. /\ SubSeq(issued[a], resolved[a] + 1, Len(issued[a])) = <<>>
          /\ Len(issued[a]) = 0
      BY <2>1, <2>2, NothingPending
    <3>2. resolved[a] <= Len(issued[a])
      BY <2>1, <3>1
    <3>3. cache[a].outbox = SubSeq(issued[a], resolved[a] + 1, Len(issued[a]))
      BY <1>3, <3>1
    <3> QED BY <3>2, <3>3
  <2> QED BY <2>1, <2>2, <2>3 DEF OutboxesOK, OutboxIsUnresolved
<1>5. SessionOK
  BY <1>1 DEF SessionOK, Idle
<1> QED BY <1>1, <1>4, <1>5, ScreenInit DEF SettledInv

\* A step after which an outbox is as it was, or was never used.
LEMMA OutboxesKept ==
  ASSUME OutboxesOK, UNCHANGED <<issued, resolved>>,
         owner' = Local => owner = Local,
         \A a \in Accounts :
           \/ cache'[a].outbox = cache[a].outbox
           \/ owner = Local /\ cache'[a].outbox = <<>>
  PROVE  OutboxesOK'
<1>1. ASSUME NEW a \in Accounts
      PROVE  cache'[a].outbox
               = SubSeq(issued[a], resolved[a] + 1, Len(issued[a]))
  <2>1. cache[a].outbox = SubSeq(issued[a], resolved[a] + 1, Len(issued[a]))
    BY DEF OutboxesOK, OutboxIsUnresolved
  <2>2. CASE owner = Local /\ cache'[a].outbox = <<>>
    <3>1. issued[a] = <<>> /\ resolved[a] \in Nat
      BY <2>2 DEF OutboxesOK
    <3> QED BY <2>2, <3>1, NothingPending
  <2> QED BY <2>1, <2>2
<1> QED BY <1>1 DEF OutboxesOK, OutboxIsUnresolved

\* The repository's load takes over an unused outbox only.
LEMMA LoadedOutboxes ==
  ASSUME ScreenInv, OutboxesOK, NEW s \in Scopes, NEW a \in Accounts
  PROVE  Loaded(s)[a].outbox
           = SubSeq(issued[a], resolved[a] + 1, Len(issued[a]))
<1>1. cache[a].outbox = SubSeq(issued[a], resolved[a] + 1, Len(issued[a]))
  BY DEF OutboxesOK, OutboxIsUnresolved
<1>2. a \in Scopes /\ a # Local /\ Whole(cache)
  BY SyncAssumption DEF Scopes, ScreenInv, DeviceOK
<1>3. CASE a # s \/ ~Claims(s)
  <2>1. Loaded(s)[a] = cache[a]
    BY <1>2, <1>3, LoadedWhole
  <2> QED BY <1>1, <2>1
<1>4. CASE a = s /\ Claims(s)
  <2>1. Loaded(s)[a].outbox = <<>>
    BY <1>2, <1>4, LoadedWhole
  <2>2. issued[a] = <<>> /\ resolved[a] \in Nat
    BY <1>4 DEF OutboxesOK, Claims
  <2> QED BY <2>1, <2>2, NothingPending
<1> QED BY <1>3, <1>4

\* Loading a scope, with the claim of the local one, keeps the outboxes.
LEMMA LoadedOK ==
  ASSUME ScreenInv, OutboxesOK, NEW s \in Scopes, cache' = Loaded(s), Claim(s),
         UNCHANGED <<issued, resolved>>
  PROVE  OutboxesOK'
<1>1. owner' = Local => owner = Local
  BY DEF Claim, Claims, claimVars
<1>2. \A a \in Accounts :
        cache'[a].outbox = SubSeq(issued[a], resolved[a] + 1, Len(issued[a]))
  BY LoadedOutboxes
<1> QED BY <1>1, <1>2 DEF OutboxesOK, OutboxIsUnresolved

\* A change of the user joins the outbox of its scope.
LEMMA RunChangeOK ==
  ASSUME ScreenInv, OutboxesOK, RunChange
  PROVE  OutboxesOK'
<1> DEFINE caches == Loaded(active)
           before == caches[active]
           r == Head(queue).request
           after == Optimistic(before.snapshot, r)
           remote == active # Local
           items == IF remote THEN Append(before.outbox, r) ELSE before.outbox
           new == [before EXCEPT !.snapshot = after, !.outbox = items]
<1>1. /\ Claim(active) /\ active \in Scopes /\ owner \in Scopes /\ Whole(cache)
      /\ UNCHANGED resolved
  BY DEF RunChange, ScreenInv, DeviceOK
<1>2. r \in Changes
  <2>1. Head(queue) \in Operation /\ Head(queue).kind = "change"
    BY TailAt DEF RunChange, NextChange, NextOp, ScreenInv, DeviceOK
  <2> QED BY <2>1 DEF Operation
<1>3. owner' = Local => active = Local /\ owner = Local
  BY <1>1 DEF Claim, Claims, claimVars
<1>4. CASE after = before.snapshot
  <2>1. cache' = caches /\ issued' = issued
    BY <1>4 DEF RunChange
  <2> QED BY <1>1, <2>1, LoadedOK
<1>5. CASE after # before.snapshot
  <2>1. /\ cache' = [caches EXCEPT ![active] = new]
        /\ issued' = IF remote THEN [issued EXCEPT ![active] = Append(@, r)]
                     ELSE issued
    BY <1>5 DEF RunChange, Commit
  <2>2. Whole(caches) /\ Kept(before)
    BY <1>1, LoadedWhole DEF Whole
  <2>3. Kept(new) /\ new.outbox = items
    <3> DEFINE mid == [before EXCEPT !.snapshot = after]
    <3>1. new = [mid EXCEPT !.outbox = items] /\ Kept(mid)
      <4>1. Kept(mid) /\ mid.outbox = before.outbox
        <5> HIDE DEF before, after
        <5> QED BY <2>2, KeptUpdates
      <4> QED BY <4>1
    <3> HIDE DEF mid, items, new, after
    <3> QED BY <3>1, KeptUpdates
  <2> HIDE DEF caches, new, after, r
  <2>4. /\ Whole([caches EXCEPT ![active] = new])
        /\ [caches EXCEPT ![active] = new][active] = new
        /\ \A t \in Scopes : t # active =>
             [caches EXCEPT ![active] = new][t] = caches[t]
    <3> HIDE DEF before, items, remote
    <3> QED BY <1>1, <2>2, <2>3, SavedWhole
  <2>5. ASSUME NEW a \in Accounts
        PROVE  caches[a].outbox
                 = SubSeq(issued[a], resolved[a] + 1, Len(issued[a]))
    BY <1>1, LoadedOutboxes DEF caches
  <2>6. CASE ~remote
    <3>1. \A a \in Accounts : a \in Scopes /\ a # active
      BY <2>6, SyncAssumption DEF Scopes
    <3>2. \A a \in Accounts : cache'[a] = caches[a]
      BY <2>1, <2>4, <3>1
    <3> QED BY <1>1, <1>3, <2>1, <2>5, <2>6, <3>2
            DEF OutboxesOK, OutboxIsUnresolved
  <2>7. CASE remote
    <3>1. active \in Accounts
      BY <1>1, <2>7 DEF Scopes
    <3>2. /\ issued[active] \in Seq(Changes) /\ resolved[active] \in Nat
          /\ resolved[active] <= Len(issued[active])
      BY <3>1 DEF OutboxesOK
    <3>3. /\ issued' \in [Accounts -> Seq(Changes)]
          /\ issued'[active] = Append(issued[active], r)
          /\ \A a \in Accounts : a # active => issued'[a] = issued[a]
      BY <1>2, <2>1, <2>7, <3>1, <3>2 DEF OutboxesOK
    <3>4. cache'[active].outbox = Append(caches[active].outbox, r)
      BY <2>1, <2>3, <2>4, <2>7
    <3>5. /\ cache'[active].outbox
               = SubSeq(issued'[active], resolved[active] + 1, Len(issued'[active]))
          /\ resolved[active] <= Len(issued'[active])
      BY <1>2, <2>5, <3>1, <3>2, <3>3, <3>4, PendingGrows
    <3>6. ASSUME NEW a \in Accounts, a # active
          PROVE  cache'[a].outbox
                   = SubSeq(issued'[a], resolved[a] + 1, Len(issued'[a]))
      BY <2>1, <2>4, <2>5, <3>3, <3>6 DEF Scopes
    <3>7. owner' # Local
      BY <1>3, <2>7
    <3>8. ASSUME NEW a \in Accounts
          PROVE  /\ resolved'[a] <= Len(issued'[a])
                 /\ cache'[a].outbox
                      = SubSeq(issued'[a], resolved'[a] + 1, Len(issued'[a]))
      <4>1. CASE a = active
        BY <1>1, <3>5, <4>1
      <4>2. CASE a # active
        BY <1>1, <3>3, <3>6, <4>2 DEF OutboxesOK
      <4> QED BY <4>1, <4>2
    <3> QED BY <1>1, <3>3, <3>7, <3>8 DEF OutboxesOK, OutboxIsUnresolved
  <2> QED BY <2>6, <2>7
<1> QED BY <1>4, <1>5

-----------------------------------------------------------------------------
(***************************************************************************)
(* Every step of such a device.                                            *)
(***************************************************************************)

\* A step of a running synchronisation is for the scope of the session.
LEMMA SyncIsSessions ==
  ASSUME SettledInv, sync.step \in Steps
  PROVE  /\ sync.scope = session /\ session \in Accounts /\ Authorized
         /\ sync \in [scope : Accounts, step : Steps] /\ owner # Local
<1>1. sync # Idle
  BY DEF Idle, Steps
<1> QED BY <1>1, SyncIsBusy
        DEF SettledInv, ScreenInv, DeviceOK, SessionOK, Authorized

\* Saving the snapshot or the legacy collections leaves the outboxes alone.
LEMMA SavedOutboxes ==
  ASSUME SettledInv, NEW s \in Scopes, NEW new, Kept(new),
         new.outbox = cache[s].outbox, Commit(cache, s, new),
         UNCHANGED <<issued, resolved, owner>>
  PROVE  OutboxesOK' /\ cache'[s].outbox = cache[s].outbox
<1>0. Whole(cache)
  BY DEF SettledInv, ScreenInv, DeviceOK
<1>1. cache' = [cache EXCEPT ![s] = new]
  BY DEF Commit
<1>2. /\ Whole([cache EXCEPT ![s] = new])
      /\ [cache EXCEPT ![s] = new][s] = new
      /\ \A t \in Scopes : t # s => [cache EXCEPT ![s] = new][t] = cache[t]
  BY <1>0, SavedWhole
<1>3. \A a \in Accounts : cache'[a].outbox = cache[a].outbox
  BY <1>1, <1>2 DEF Scopes
<1> QED BY <1>1, <1>2, <1>3, OutboxesKept DEF SettledInv

\* The answer to an import keeps the session and the outboxes.
LEMMA ImportOK ==
  ASSUME SettledInv, Import
  PROVE  SessionOK' /\ OutboxesOK'
<1>1. sync.step \in Steps /\ sync.step # "push"
  BY DEF Import, Steps
<1>2. /\ sync.scope = session /\ sync.scope \in Scopes
      /\ sync \in [scope : Accounts, step : Steps]
  BY <1>1, SyncIsSessions DEF Scopes
<1> DEFINE new == [cache[sync.scope] EXCEPT !.legacy = EmptySnapshot]
<1>3. /\ UNCHANGED <<expired, session, active, owner, issued, resolved>>
      /\ \/ Commit(cache, sync.scope, new) /\ sync' = [sync EXCEPT !.step = "fetch"]
         \/ sync' = Idle /\ cache' = cache
  BY DEF Import, Save, GiveUp, sessionVars, claimVars
<1>4. Kept(new) /\ new.outbox = cache[sync.scope].outbox
  BY <1>2, KeptUpdates DEF SettledInv, ScreenInv, DeviceOK, Whole
<1> HIDE DEF new
<1>5. OutboxesOK'
  BY <1>2, <1>3, <1>4, SavedOutboxes, OutboxesKept DEF SettledInv
<1>6. sync' # Idle => sync'.scope = sync.scope
  BY <1>2, <1>3
<1>7. sync'.step # "push"
  BY <1>2, <1>3 DEF Idle
<1> QED BY <1>1, <1>2, <1>3, <1>5, <1>6, <1>7
        DEF SessionOK, SettledInv, ScreenInv, DeviceOK

\* A sync goes on for its account, and pushes only what there is.
LEMMA ContinueIs ==
  ASSUME sync \in [scope : Accounts, step : Steps], NEW outbox, Continue(outbox)
  PROVE  /\ sync'.scope = sync.scope
         /\ sync'.step = "push" => outbox # <<>>
  BY DEF Continue

\* The answer to a fetch keeps the session and the outboxes.
LEMMA FetchOK ==
  ASSUME SettledInv, Fetch
  PROVE  SessionOK' /\ OutboxesOK'
<1>1. sync.step \in Steps
  BY DEF Fetch, Steps
<1>2. /\ sync.scope = session /\ sync.scope \in Scopes
      /\ sync \in [scope : Accounts, step : Steps]
  BY <1>1, SyncIsSessions DEF Scopes
<1> DEFINE fetched == ApplyOutbox(SnapshotOf(server[session]), Outbox)
           new == [cache[sync.scope] EXCEPT !.snapshot = fetched]
<1>3. /\ UNCHANGED <<expired, session, active, owner, issued, resolved>>
      /\ Commit(cache, sync.scope, new)
      /\ sync' = Idle \/ Continue(cache[sync.scope].outbox)
  BY DEF Fetch, Save, GiveUp, Outbox, sessionVars, claimVars
<1>4. Kept(new) /\ new.outbox = cache[sync.scope].outbox
  <2>1. Kept(cache[sync.scope])
    BY <1>2 DEF SettledInv, ScreenInv, DeviceOK, Whole
  <2> HIDE DEF fetched
  <2> QED BY <2>1, KeptUpdates
<1> HIDE DEF new
<1>5. OutboxesOK' /\ cache'[sync.scope].outbox = cache[sync.scope].outbox
  BY <1>2, <1>3, <1>4, SavedOutboxes
<1>6. CASE sync' = Idle
  BY <1>3, <1>5, <1>6 DEF SessionOK, SettledInv, Idle
<1>7. CASE Continue(cache[sync.scope].outbox)
  <2>1. /\ sync'.scope = sync.scope
        /\ sync'.step = "push" => cache[sync.scope].outbox # <<>>
    BY <1>2, <1>7, ContinueIs
  <2> QED BY <1>2, <1>3, <1>5, <2>1
          DEF SessionOK, SettledInv, ScreenInv, DeviceOK, Outbox
<1> QED BY <1>3, <1>6, <1>7

\* The head of the outbox is answered: it is resolved and no longer pending.
LEMMA PushOK ==
  ASSUME SettledInv, Push
  PROVE  SessionOK' /\ OutboxesOK'
<1> DEFINE s == sync.scope
           new == [cache[s] EXCEPT !.outbox = Tail(@)]
<1>1. sync.step \in Steps
  BY DEF Push, Steps
<1>2. /\ s = session /\ s \in Accounts /\ s \in Scopes /\ owner # Local
      /\ sync \in [scope : Accounts, step : Steps]
      /\ Whole(cache) /\ active = session
  BY <1>1, SyncIsSessions DEF Scopes, SettledInv, ScreenInv, DeviceOK
<1>3. /\ UNCHANGED <<expired, session, active>> /\ expired = FALSE
      /\ \/ sync' = Idle /\ UNCHANGED <<cache, owner, issued, resolved>>
         \/ /\ Commit(cache, s, new)
            /\ \/ Continue(Tail(cache[s].outbox))
               \/ sync' = [sync EXCEPT !.step = "refetch"]
            /\ resolved' = [resolved EXCEPT ![s] = @ + 1]
            /\ UNCHANGED <<owner, issued>>
  BY <1>2 DEF Push, GiveUp, Save, Outbox, sessionVars, claimVars, cacheVars,
              SettledInv, SessionOK
<1>4. CASE sync' = Idle /\ UNCHANGED <<cache, owner, issued, resolved>>
  <2>1. OutboxesOK'
    BY <1>4, OutboxesKept DEF SettledInv
  <2> QED BY <1>3, <1>4, <2>1 DEF SessionOK, Idle
<1>5. CASE /\ Commit(cache, s, new)
           /\ \/ Continue(Tail(cache[s].outbox))
              \/ sync' = [sync EXCEPT !.step = "refetch"]
           /\ resolved' = [resolved EXCEPT ![s] = @ + 1]
           /\ UNCHANGED <<owner, issued>>
  <2>1. /\ issued \in [Accounts -> Seq(Changes)]
        /\ resolved \in [Accounts -> Nat]
        /\ \A a \in Accounts :
             /\ resolved[a] <= Len(issued[a])
             /\ cache[a].outbox
                  = SubSeq(issued[a], resolved[a] + 1, Len(issued[a]))
    BY DEF SettledInv, OutboxesOK, OutboxIsUnresolved
  <2>2. cache[s].outbox # <<>>
    BY DEF SettledInv, SessionOK, Push, Outbox
  <2>3. Kept(new) /\ new.outbox = Tail(cache[s].outbox)
    <3>1. Kept(cache[s])
      BY <1>2 DEF Whole
    <3> QED BY <3>1, KeptUpdates
  <2>4. cache' = [cache EXCEPT ![s] = new]
    BY <1>5 DEF Commit
  <2>5. /\ sync'.scope = s
        /\ sync'.step = "push" => Tail(cache[s].outbox) # <<>>
    BY <1>2, <1>5, ContinueIs
  <2> HIDE DEF new, s
  <2>6. /\ Whole([cache EXCEPT ![s] = new])
        /\ [cache EXCEPT ![s] = new][s] = new
        /\ \A t \in Scopes : t # s => [cache EXCEPT ![s] = new][t] = cache[t]
    BY <1>2, <2>3, SavedWhole
  <2>7. /\ issued[s] \in Seq(Changes) /\ resolved[s] \in Nat
        /\ resolved[s] <= Len(issued[s])
        /\ cache[s].outbox = SubSeq(issued[s], resolved[s] + 1, Len(issued[s]))
    BY <1>2, <2>1
  <2>8. /\ resolved[s] + 1 <= Len(issued[s])
        /\ Tail(cache[s].outbox)
             = SubSeq(issued[s], (resolved[s] + 1) + 1, Len(issued[s]))
    BY <2>2, <2>7, PendingShrinks
  <2>9. /\ resolved' \in [Accounts -> Nat]
        /\ resolved'[s] = resolved[s] + 1
        /\ \A a \in Accounts : a # s => resolved'[a] = resolved[a]
    BY <1>2, <1>5, <2>1, <2>7
  <2>10. ASSUME NEW a \in Accounts
         PROVE  /\ resolved'[a] <= Len(issued[a])
                /\ cache'[a].outbox
                     = SubSeq(issued[a], resolved'[a] + 1, Len(issued[a]))
    <3>1. CASE a = s
      BY <2>3, <2>4, <2>6, <2>8, <2>9, <3>1
    <3>2. CASE a # s
      BY <2>1, <2>4, <2>6, <2>9, <3>2 DEF Scopes
    <3> QED BY <3>1, <3>2
  <2>11. OutboxesOK'
    BY <1>2, <1>5, <2>1, <2>9, <2>10 DEF OutboxesOK, OutboxIsUnresolved
  <2>12. cache'[s].outbox = Tail(cache[s].outbox)
    BY <2>3, <2>4, <2>6
  <2> QED BY <1>2, <1>3, <2>5, <2>11, <2>12 DEF SessionOK, Outbox
<1> QED BY <1>3, <1>4, <1>5

\* The steps that leave the outboxes, their histories and the caches alone.
LEMMA UntouchedOK ==
  ASSUME SettledInv, UNCHANGED <<cache, owner, issued, resolved, expired>>,
         \/ UNCHANGED <<sync, active>>
         \/ sync' = Idle
         \/ sync' = FirstStep(cache, active) /\ active' = active
  PROVE  SessionOK' /\ OutboxesOK'
<1>1. OutboxesOK'
  BY OutboxesKept DEF SettledInv
<1>2. SessionOK'
  BY DEF SettledInv, SessionOK, Outbox, Idle, FirstStep
<1> QED BY <1>1, <1>2

\* What is killed between two writes finds its outboxes as they should be.
LEMMA StartOK ==
  ASSUME SettledInv, Crash \/ CrashInClaim
  PROVE  SessionOK' /\ OutboxesOK'
<1>1. /\ sync' = Idle /\ expired' = FALSE
      /\ UNCHANGED <<issued, resolved>> /\ session \in Scopes
  BY DEF Crash, CrashInClaim, Start, SettledInv, SessionOK, ScreenInv, DeviceOK
<1>2. SessionOK'
  BY <1>1 DEF SessionOK, Idle
<1>3. CASE Crash
  <2>1. UNCHANGED <<cache, owner>>
    BY <1>3 DEF Crash, claimVars
  <2> QED BY <1>1, <1>2, <2>1, OutboxesKept DEF SettledInv
<1>4. CASE CrashInClaim
  <2>1. /\ owner' # Local
        /\ cache' = cache \/ cache' = [cache EXCEPT ![Local] = EmptyCache]
    BY <1>4 DEF CrashInClaim, Claims
  <2>2. \A a \in Accounts : cache'[a] = cache[a]
    BY <2>1, SyncAssumption DEF SettledInv, ScreenInv, DeviceOK, Whole, Scopes
  <2> QED BY <1>1, <1>2, <2>1, <2>2, OutboxesKept DEF SettledInv
<1> QED BY <1>3, <1>4

\* A load keeps the session and the outboxes.
LEMMA RunLoadOK ==
  ASSUME SettledInv, RunLoad
  PROVE  SessionOK' /\ OutboxesOK'
<1> DEFINE s == Head(queue).scope
<1>1. /\ Head(queue) \in Operation /\ Head(queue).kind = "load"
      /\ cache' = Loaded(s) /\ Claim(s) /\ sync = Idle /\ expired = FALSE
      /\ UNCHANGED <<active, expired, issued, resolved>>
      /\ \/ sync' = Idle
         \/ sync' = FirstStep(Loaded(s), s) /\ s = active
  BY TailAt DEF RunLoad, NextOp, SettledInv, SessionOK, ScreenInv, DeviceOK,
                sessionVars
<1>2. s \in Scopes
  BY <1>1 DEF Operation
<1>3. OutboxesOK'
  BY <1>1, <1>2, LoadedOK DEF SettledInv
<1>4. SessionOK'
  <2> HIDE DEF s
  <2> QED BY <1>1 DEF SessionOK, FirstStep, Idle
<1> QED BY <1>3, <1>4

\* Every step keeps the outboxes.
LEMMA SettledNext ==
  ASSUME Quiet
  PROVE  SettledInv /\ [Next]_vars => SettledInv'
<1> SUFFICES ASSUME SettledInv, [Next]_vars PROVE SettledInv'
  OBVIOUS
<1>1. ScreenInv'
  BY ScreenNext DEF SettledInv
<1>2. server' = [a \in Accounts |-> server'[a]] /\ others' \in Nat
  <2>1. \/ server' = server
        \/ \E a \in Accounts : \E u : server' = [server EXCEPT ![a] = u]
    <3>1. CASE Import \/ Push \/ LoseAnswer
      <4>1. sync.step \in Steps
        BY <3>1 DEF Import, Push, LoseAnswer, Steps
      <4>2. session \in Accounts
        BY <4>1, SyncIsSessions
      <4> QED BY <3>1, <4>2 DEF Import, Push, LoseAnswer
    <3>2. CASE \E a \in Accounts, r \in OtherChanges : OtherDevice(a, r)
      BY <3>2 DEF OtherDevice
    <3>3. CASE ~(Import \/ Push \/ LoseAnswer)
               /\ ~(\E a \in Accounts, r \in OtherChanges : OtherDevice(a, r))
      BY <3>3 DEF Next, SyncSteps, vars, Tap, Switch, Resume, Crash, CrashInClaim,
                  Start, BuildLoads, BuildReturns, RunChange, RunSync, RunLoad, Fetch, FetchUnauthorized,
                  PushUnauthorized, LoseRequest, Expire
    <3> QED BY <3>1, <3>2, <3>3
  <2>2. others' \in {others, others + 1}
    BY DEF Next, SyncSteps, vars, Tap, Switch, Resume, Crash, CrashInClaim,
           Start, BuildLoads, BuildReturns, RunChange, RunSync, RunLoad, Import, Fetch, FetchUnauthorized,
           Push, PushUnauthorized, LoseRequest, LoseAnswer, OtherDevice, Expire,
           bounds
  <2> QED BY <2>1, <2>2 DEF SettledInv
<1>3. SessionOK' /\ OutboxesOK'
  <2>1. CASE \/ \E r \in Changes : Tap(r)
             \/ Resume \/ UNCHANGED vars
             \/ \E a \in Accounts, r \in OtherChanges : OtherDevice(a, r)
    BY <2>1, UntouchedOK
       DEF Tap, Resume, OtherDevice, vars, sessionVars, cacheVars, claimVars
  <2>2. CASE \E s \in Scopes : Switch(s)
    <3>0. PICK s \in Scopes : Switch(s)
      BY <2>2
    <3>1. /\ expired' = FALSE
          /\ UNCHANGED <<cache, owner, sync, issued, resolved>>
      BY <3>0 DEF Switch, SwitchTo, claimVars
    <3>2. sync = Idle
      <4> SUFFICES ASSUME sync # Idle PROVE FALSE
        OBVIOUS
      <4>1. session = sync.scope /\ sync.scope \in Accounts
        BY DEF SettledInv, SessionOK, ScreenInv, DeviceOK
      <4>2. s = Local
        BY <3>0, <4>1, SyncAssumption DEF Switch
      <4> QED BY <3>0, <4>1, <4>2, SyncAssumption DEF Switch, Quiet
    <3> QED BY <3>1, <3>2, UntouchedOK DEF SettledInv, SessionOK
  <2>3. CASE Crash \/ CrashInClaim
    BY <2>3, StartOK
  <2>11. CASE BuildLoads
    <3>1. /\ cache' = Loaded(opening.scope) /\ Claim(opening.scope)
          /\ UNCHANGED <<issued, resolved, expired, active, sync>>
          /\ opening.scope \in Scopes /\ sync = Idle
      BY <2>11 DEF BuildLoads, SettledInv, ScreenInv, DeviceOK, OpeningOK, sessionVars
    <3>2. OutboxesOK'
      BY <3>1, LoadedOK DEF SettledInv
    <3> QED BY <3>1, <3>2 DEF SettledInv, SessionOK, Idle
  <2>12. CASE BuildReturns
    BY <2>12, UntouchedOK DEF BuildReturns, sessionVars, claimVars
  <2>4. CASE RunChange
    <3>1. OutboxesOK'
      BY <2>4, RunChangeOK DEF SettledInv
    <3>2. sync' = Idle /\ expired' = expired
      BY <2>4 DEF RunChange, NextChange, NextOp, sessionVars
    <3> QED BY <3>1, <3>2 DEF SettledInv, SessionOK, Idle
  <2>5. CASE RunSync
    <3>1. /\ UNCHANGED <<cache, owner, issued, resolved, expired, active>>
          /\ sync' \in {Idle, FirstStep(cache, active)}
      BY <2>5 DEF RunSync, sessionVars, cacheVars, claimVars
    <3> QED BY <3>1, UntouchedOK
  <2>6. CASE RunLoad
    BY <2>6, RunLoadOK
  <2>7. CASE Import \/ Fetch \/ Push
    BY <2>7, ImportOK, FetchOK, PushOK
  <2>8. CASE FetchUnauthorized \/ PushUnauthorized
    BY <2>8, SyncIsSessions DEF FetchUnauthorized, PushUnauthorized, Steps
  <2>9. CASE LoseRequest \/ LoseAnswer
    BY <2>9, UntouchedOK
       DEF LoseRequest, LoseAnswer, GiveUp, sessionVars, cacheVars, claimVars
  <2>10. CASE Expire
    BY <2>10 DEF Expire, Quiet
  <2> QED BY <2>1, <2>2, <2>3, <2>4, <2>5, <2>6, <2>7, <2>8, <2>9, <2>10,
             <2>11, <2>12 DEF Next, SyncSteps
<1> QED BY <1>1, <1>2, <1>3 DEF SettledInv

\* The outboxes are right in every state.
LEMMA SettledInvariance == ASSUME Quiet PROVE Spec => []SettledInv
  BY SettledInit, SettledNext, PTL DEF Spec

\* However requests and answers are lost and wherever the app is killed: the
\* outbox of an account holds exactly the changes made for it that its server
\* has not answered, in order (_syncScope and the repository's outbox).
THEOREM NoChangeIsLostOrRepeated ==
  ASSUME Quiet PROVE Spec => []OutboxIsUnresolved
<1>1. SettledInv => OutboxIsUnresolved
  BY DEF SettledInv, OutboxesOK
<1> QED BY <1>1, SettledInvariance, PTL

-----------------------------------------------------------------------------
(***************************************************************************)
(* Accounts, on a device where the session may end or begin at any moment: *)
(* what a synchronisation exchanges is with the account that is signed in. *)
(***************************************************************************)
ApartInv ==
  /\ ScreenInv
  /\ server = [a \in Accounts |-> server[a]] /\ others \in Nat

\* What is exchanged is exchanged with the synchronised account, unless
\* another one is signed in.
LEMMA AuthorizedIsOwn ==
  ASSUME ApartInv, sync.step \in Steps, Authorized
  PROVE  /\ session \in Accounts
         /\ session \in {sync.scope, Local} => session = sync.scope
<1> QED BY DEF ApartInv, ScreenInv, DeviceOK, Scopes, Authorized

\* A synchronisation begins for the scope of the session, and goes on with
\* the scope it has begun with.
LEMMA SyncKeepsScope ==
  ASSUME ApartInv, Next
  PROVE  \/ sync' = Idle
         \/ sync # Idle /\ sync'.scope = sync.scope
         \/ sync = Idle /\ sync'.scope = session /\ session' = session
<1>0. sync \in [scope : Accounts, step : Steps] \cup {Idle} /\ active = session
  BY DEF ApartInv, ScreenInv, DeviceOK
<1>1. CASE sync' = sync
  BY <1>1
<1>2. CASE RunSync
  BY <1>0, <1>2 DEF RunSync, NextOp, FirstStep, Idle, sessionVars
<1>3. CASE RunLoad
  BY <1>0, <1>3 DEF RunLoad, NextOp, FirstStep, Idle, sessionVars
<1>4. CASE Import \/ Fetch \/ Push \/ PushUnauthorized
  <2>1. sync.step \in Steps
    BY <1>4 DEF Import, Fetch, Push, PushUnauthorized, Steps
  <2>2. sync # Idle /\ sync \in [scope : Accounts, step : Steps]
    BY <1>0, <2>1 DEF Idle, Steps
  <2>3. sync' = Idle \/ \E step : sync' = [sync EXCEPT !.step = step]
    BY <1>4 DEF Import, Fetch, Push, PushUnauthorized, GiveUp, Continue
  <2> QED BY <2>2, <2>3
<1>5. CASE FetchUnauthorized \/ LoseRequest \/ LoseAnswer \/ Crash \/ CrashInClaim
  BY <1>5 DEF FetchUnauthorized, LoseRequest, LoseAnswer, GiveUp, Crash,
              CrashInClaim, Start
<1>6. CASE \/ \E r \in Changes : Tap(r)
           \/ \E s \in Scopes : Switch(s)
           \/ Resume \/ BuildLoads \/ BuildReturns \/ RunChange \/ Expire
           \/ \E a \in Accounts, r \in OtherChanges : OtherDevice(a, r)
  BY <1>6 DEF Tap, Switch, Resume, BuildLoads, BuildReturns, RunChange, Expire,
              OtherDevice
<1> QED BY <1>1, <1>2, <1>3, <1>4, <1>5, <1>6 DEF Next, SyncSteps

\* Which accounts a step may change.
LEMMA ServerSteps ==
  ASSUME ApartInv, Next
  PROVE  /\ \/ server' = server
            \/ others' = others + 1 /\ \E a \in Accounts : \E u :
                 server' = [server EXCEPT ![a] = u]
            \/ /\ sync.step \in Steps /\ Authorized
               /\ \E u : server' = [server EXCEPT ![session] = u]
         /\ others' \in {others, others + 1}
<1>1. CASE Import \/ Push \/ LoseAnswer
  BY <1>1 DEF Import, Push, LoseAnswer, Steps, bounds
<1>2. CASE \E a \in Accounts, r \in OtherChanges : OtherDevice(a, r)
  BY <1>2 DEF OtherDevice
<1>3. CASE ~(Import \/ Push \/ LoseAnswer)
           /\ ~(\E a \in Accounts, r \in OtherChanges : OtherDevice(a, r))
  BY <1>3 DEF Next, SyncSteps, Tap, Switch, Resume, Crash, CrashInClaim, Start,
              BuildLoads, BuildReturns, RunChange, RunSync, RunLoad, Fetch,
              FetchUnauthorized, PushUnauthorized, LoseRequest, Expire, bounds
<1> QED BY <1>1, <1>2, <1>3

\* Every step keeps the accounts typed, and the screen invariant.
LEMMA ApartNext == ApartInv /\ [Next]_vars => ApartInv'
<1> SUFFICES ASSUME ApartInv, [Next]_vars PROVE ApartInv'
  OBVIOUS
<1>1. CASE UNCHANGED vars
  BY <1>1, ScreenNext DEF ApartInv, vars
<1>2. CASE Next
  <2>1. ScreenInv'
    BY ScreenNext DEF ApartInv
  <2>2. server' = [a \in Accounts |-> server'[a]] /\ others' \in Nat
    <3>1. server' = server \/ \E a \in Accounts : \E u :
                                server' = [server EXCEPT ![a] = u]
      BY <1>2, ServerSteps, AuthorizedIsOwn
    <3> QED BY <1>2, <3>1, ServerSteps DEF ApartInv
  <2> QED BY <2>1, <2>2 DEF ApartInv
<1> QED BY <1>1, <1>2

\* Whoever signs in and out, whatever is lost or killed: a synchronisation
\* begins for the account that is signed in, and until somebody else signs in
\* it changes, and reads, no account but its own ("isolates each server
\* account cache").
THEOREM AccountsStayApart == Spec => AccountsAreIsolated
<1> DEFINE Begins == sync = Idle /\ sync' # Idle => sync'.scope = session
           Apart == session \in {sync.scope, Local} =>
                      /\ \A a \in Accounts :
                           server'[a] # server[a] => sync.scope = a \/ others' # others
                      /\ Fetch /\ cache' # cache => sync.scope = session
<1>1. Init => ApartInv
  BY ScreenInit DEF ApartInv, Init
<1>2. ApartInv /\ [Next]_vars => [Begins /\ Apart]_vars
  <2> SUFFICES ASSUME ApartInv, Next PROVE Begins /\ Apart
    OBVIOUS
  <2>1. Begins
    BY SyncKeepsScope
  <2>2. ASSUME session \in {sync.scope, Local},
               NEW a \in Accounts, server'[a] # server[a]
        PROVE  sync.scope = a \/ others' # others
    <3>1. CASE others' = others + 1
      BY <3>1 DEF ApartInv
    <3>2. CASE /\ sync.step \in Steps /\ Authorized
               /\ \E u : server' = [server EXCEPT ![session] = u]
      <4>1. session = sync.scope
        BY <2>2, <3>2, AuthorizedIsOwn
      <4>2. a = session
        BY <2>2, <3>2 DEF ApartInv
      <4> QED BY <4>1, <4>2
    <3> QED BY <2>2, <3>1, <3>2, ServerSteps
  <2>3. ASSUME session \in {sync.scope, Local}, Fetch PROVE sync.scope = session
    BY <2>3, AuthorizedIsOwn DEF Fetch, Steps
  <2> QED BY <2>1, <2>2, <2>3
<1> QED BY <1>1, <1>2, ApartNext, PTL DEF Spec, AccountsAreIsolated

-----------------------------------------------------------------------------
(***************************************************************************)
(* Types.  The screen invariant types the session, the queue and the       *)
(* synchronisation; the collections have their types because every         *)
(* request, change and outbox preserves them (CollectionsProofs).          *)
(***************************************************************************)
CacheType == [snapshot : Snapshot, outbox : Seq(Changes), legacy : Snapshot]
Screens == Snapshot \cup {Loading}

DataTyped == /\ server \in [Accounts -> UserData]
             /\ cache \in [Scopes -> CacheType]
             /\ moved \in [Accounts -> Snapshot] /\ shown \in Screens

CountersTyped == /\ expired \in BOOLEAN /\ fresh \subseteq PlaylistIds
                 /\ taps \in 0..MaxChanges /\ others \in 0..MaxOther
                 /\ issued \in [Accounts -> Seq(Changes)]
                 /\ resolved \in [Accounts -> Nat]

PushHasItem == sync.step = "push" => Outbox # <<>>

ReadTyped == opening.read \in Snapshot

TypeInv == ScreenInv /\ DataTyped /\ CountersTyped /\ PushHasItem /\ ReadTyped

\* What the user can do is a change that an outbox holds.
LEMMA ChangesAreChanges == \A r \in Changes : IsChange(r)
  BY SyncAssumption DEF IsChange

\* One field of a typed cache is replaced.
LEMMA CacheFields ==
  ASSUME NEW c \in CacheType
  PROVE  /\ c.snapshot \in Snapshot /\ c.outbox \in Seq(Changes)
         /\ c.legacy \in Snapshot
         /\ \A x \in Snapshot : /\ [c EXCEPT !.snapshot = x] \in CacheType
                                /\ [c EXCEPT !.legacy = x] \in CacheType
         /\ \A x \in Seq(Changes) : [c EXCEPT !.outbox = x] \in CacheType
BY DEF CacheType

\* The empty cache, and what a first load makes of the caches.
LEMMA LoadedTyped ==
  ASSUME cache \in [Scopes -> CacheType], NEW s \in Scopes
  PROVE  Loaded(s) \in [Scopes -> CacheType] /\ EmptyCache \in CacheType
<1>1. EmptyCache \in CacheType
  BY NothingIsNeat DEF EmptyCache, CacheType
<1>2. Local \in Scopes
  BY DEF Scopes
<1> DEFINE local == cache[Local].snapshot
           taken == [snapshot |-> local, outbox |-> <<>>, legacy |-> local]
<1>3. taken \in CacheType
  BY <1>2, CacheFields DEF CacheType
<1> HIDE DEF taken
<1>4. [cache EXCEPT ![Local] = EmptyCache, ![s] = taken] \in [Scopes -> CacheType]
  BY <1>1, <1>2, <1>3
<1> QED BY <1>1, <1>4 DEF Loaded, taken

\* The local collections that are taken over are remembered.
LEMMA ClaimTyped ==
  ASSUME DataTyped, NEW s \in Scopes, Claim(s)
  PROVE  moved' \in [Accounts -> Snapshot]
<1>1. cache[Local].snapshot \in Snapshot
  BY CacheFields DEF DataTyped, Scopes
<1> QED BY <1>1 DEF Claim, claimVars, DataTyped

\* Saving a typed cache keeps the caches and the screen typed.
LEMMA CommitTyped ==
  ASSUME NEW caches \in [Scopes -> CacheType], shown \in Screens, NEW s \in Scopes,
         NEW new \in CacheType, Commit(caches, s, new)
  PROVE  cache' \in [Scopes -> CacheType] /\ shown' \in Screens
<1>1. new.snapshot \in Snapshot
  BY CacheFields
<1> QED BY <1>1 DEF Commit, Screens

\* The app starts with every variable of its type.
LEMMA TypeInit == Init => TypeInv
<1> SUFFICES ASSUME Init PROVE TypeInv
  OBVIOUS
<1>1. EmptySnapshot \in Snapshot /\ EmptyUser \in UserData /\ EmptyCache \in CacheType
  BY NothingIsNeat DEF EmptyCache, CacheType
<1>2. DataTyped
  BY <1>1 DEF Init, DataTyped, Screens
<1>3. CountersTyped
  <2>1. <<>> \in Seq(Changes) /\ 0 \in 0..MaxChanges /\ 0 \in 0..MaxOther
    BY SyncAssumption
  <2> QED BY <2>1 DEF Init, CountersTyped
<1>4. PushHasItem
  BY DEF Init, PushHasItem, Idle
<1>5. ReadTyped
  BY <1>1 DEF Init, Opening, ReadTyped
<1> QED BY <1>2, <1>3, <1>4, <1>5, ScreenInit DEF TypeInv

\* A change of the user.
LEMMA RunChangeTyped ==
  ASSUME TypeInv, RunChange
  PROVE  DataTyped' /\ CountersTyped' /\ PushHasItem'
<1> DEFINE caches == Loaded(active)
           before == caches[active]
           r == Head(queue).request
           after == Optimistic(before.snapshot, r)
           remote == active # Local
           items == IF remote THEN Append(before.outbox, r) ELSE before.outbox
           new == [before EXCEPT !.snapshot = after, !.outbox = items]
<1>1. /\ active \in Scopes /\ DataTyped /\ CountersTyped /\ sync = Idle
      /\ Claim(active) /\ queue \in Seq(Operation)
      /\ UNCHANGED <<server, expired, fresh, taps, others, sync, resolved>>
  BY DEF TypeInv, ScreenInv, DeviceOK, RunChange, NextChange, NextOp, sessionVars,
         bounds
<1>2. r \in Changes
  <2>1. Head(queue) \in Operation /\ Head(queue).kind = "change"
    BY <1>1, TailAt DEF RunChange, NextChange, NextOp
  <2> QED BY <2>1 DEF Operation
<1>3. caches \in [Scopes -> CacheType]
  BY <1>1, LoadedTyped DEF DataTyped
<1>4. before \in CacheType
  <2> HIDE DEF caches
  <2> QED BY <1>1, <1>3
<1>5. moved' \in [Accounts -> Snapshot]
  BY <1>1, ClaimTyped
<1>6. PushHasItem'
  BY <1>1 DEF PushHasItem, Idle
<1>7. CASE after = before.snapshot
  <2>1. cache' = caches /\ UNCHANGED <<shown, issued>>
    BY <1>7 DEF RunChange
  <2> HIDE DEF caches
  <2> QED BY <1>1, <1>3, <1>5, <1>6, <2>1 DEF DataTyped, CountersTyped
<1>8. CASE after # before.snapshot
  <2>1. /\ Commit(caches, active, new)
        /\ issued' = IF remote THEN [issued EXCEPT ![active] = Append(@, r)]
                     ELSE issued
    BY <1>8 DEF RunChange
  <2> HIDE DEF caches, r
  <2>2. after \in Snapshot /\ items \in Seq(Changes)
    <3>1. before.snapshot \in Snapshot /\ before.outbox \in Seq(Changes)
      BY <1>4, CacheFields
    <3> HIDE DEF before
    <3>2. after \in Snapshot
      BY <1>2, <3>1, ChangesAreChanges, OptimisticTyped
    <3> QED BY <1>2, <3>1, <3>2
  <2>3. new \in CacheType
    <3> DEFINE mid == [before EXCEPT !.snapshot = after]
    <3> HIDE DEF before, after, items
    <3>1. mid \in CacheType
      BY <1>4, <2>2, CacheFields
    <3>2. new = [mid EXCEPT !.outbox = items]
      OBVIOUS
    <3> HIDE DEF mid, new
    <3> QED BY <2>2, <3>1, <3>2, CacheFields
  <2> HIDE DEF new
  <2>4. cache' \in [Scopes -> CacheType] /\ shown' \in Screens
    BY <1>1, <1>3, <2>1, <2>3, CommitTyped DEF DataTyped
  <2>5. issued' \in [Accounts -> Seq(Changes)]
    BY <1>1, <1>2, <2>1, AppendProperties DEF CountersTyped
  <2> QED BY <1>1, <1>5, <1>6, <2>4, <2>5 DEF DataTyped, CountersTyped
<1> QED BY <1>7, <1>8

\* The running synchronisation, its cache and the account of the session.
LEMMA RunningTyped ==
  ASSUME TypeInv, sync.step \in Steps
  PROVE  /\ sync \in [scope : Accounts, step : Steps] /\ sync.scope \in Scopes
         /\ cache[sync.scope] \in CacheType /\ Outbox \in Seq(Changes)
         /\ sync.step \in {"import", "push"} => Outgoing \in Request
         /\ Authorized => /\ session \in Accounts
                          /\ server[session] \in UserData
                          /\ SnapshotOf(server[session]) \in Snapshot
<1>1. sync \in [scope : Accounts, step : Steps] /\ sync.scope \in Scopes
  BY SyncIsBusy DEF TypeInv, ScreenInv
<1>2. cache[sync.scope] \in CacheType
  BY <1>1 DEF TypeInv, DataTyped
<1>3. Outbox \in Seq(Changes) /\ cache[sync.scope].legacy \in Snapshot
  BY <1>2, CacheFields DEF Outbox
<1>4. ASSUME sync.step = "import" PROVE Outgoing \in Request
  <2>1. Outgoing = ImportRequest(cache[sync.scope].legacy)
    BY <1>4 DEF Outgoing
  <2>2. ImportRequest(cache[sync.scope].legacy) \in Request
    BY <1>3, SnapshotTyped DEF ImportRequest, Request
  <2> QED BY <2>1, <2>2
<1>5. ASSUME sync.step = "push" PROVE Outgoing \in Request
  <2>1. Outgoing = Head(Outbox) /\ Outbox # <<>>
    BY <1>5 DEF Outgoing, TypeInv, PushHasItem
  <2>2. Head(Outbox) \in Changes
    BY <1>3, <2>1
  <2> QED BY <2>1, <2>2, SyncAssumption
<1>6. Authorized => /\ session \in Accounts /\ server[session] \in UserData
                    /\ SnapshotOf(server[session]) \in Snapshot
  BY SnapshotFields DEF Authorized, TypeInv, ScreenInv, DeviceOK, Scopes, DataTyped
<1>7. (sync.step \in {"import", "push"}) => Outgoing \in Request
  BY <1>4, <1>5
<1> QED BY <1>1, <1>2, <1>3, <1>6, <1>7

\* The account of the session after a request.
LEMMA ServedTyped ==
  ASSUME TypeInv, sync.step \in {"import", "push"}, Authorized,
         server' = [server EXCEPT ![session] = Apply(server[session], Outgoing).user]
  PROVE  server' \in [Accounts -> UserData]
<1>1. sync.step \in Steps
  BY DEF Steps
<1>2. server[session] \in UserData /\ Outgoing \in Request /\ session \in Accounts
  BY <1>1, RunningTyped
<1>3. Apply(server[session], Outgoing).user \in UserData
  BY <1>2, ApplyTyped
<1> QED BY <1>3 DEF TypeInv, DataTyped

\* The answer to an import.
LEMMA ImportTyped ==
  ASSUME TypeInv, Import
  PROVE  DataTyped' /\ CountersTyped' /\ PushHasItem'
<1> DEFINE new == [cache[sync.scope] EXCEPT !.legacy = EmptySnapshot]
<1>1. /\ sync.step \in Steps /\ sync.step = "import" /\ Authorized
      /\ server' = [server EXCEPT ![session] = Apply(server[session], Outgoing).user]
      /\ \/ Commit(cache, sync.scope, new) /\ sync' = [sync EXCEPT !.step = "fetch"]
         \/ sync' = Idle /\ UNCHANGED <<cache, shown>>
      /\ UNCHANGED <<moved, expired, fresh, taps, others, issued, resolved>>
  BY DEF Import, Steps, Save, GiveUp, sessionVars, claimVars, bounds
<1>2. /\ sync \in [scope : Accounts, step : Steps] /\ sync.scope \in Scopes
      /\ cache[sync.scope] \in CacheType
  BY <1>1, RunningTyped
<1>3. new \in CacheType
  BY <1>2, CacheFields, NothingIsNeat
<1>4. server' \in [Accounts -> UserData]
  BY <1>1, ServedTyped
<1>5. PushHasItem'
  BY <1>1, <1>2 DEF PushHasItem, Idle
<1> HIDE DEF new
<1>6. cache' \in [Scopes -> CacheType] /\ shown' \in Screens
  BY <1>1, <1>2, <1>3, CommitTyped DEF TypeInv, DataTyped
<1> QED BY <1>1, <1>4, <1>5, <1>6 DEF TypeInv, DataTyped, CountersTyped

\* The answer to a fetch.
LEMMA FetchTyped ==
  ASSUME TypeInv, Fetch
  PROVE  DataTyped' /\ CountersTyped' /\ PushHasItem'
<1> DEFINE fetched == ApplyOutbox(SnapshotOf(server[session]), Outbox)
           new == [cache[sync.scope] EXCEPT !.snapshot = fetched]
<1>1. /\ sync.step \in Steps /\ Authorized
      /\ Commit(cache, sync.scope, new)
      /\ sync' = Idle \/ Continue(Outbox)
      /\ UNCHANGED <<server, moved, expired, fresh, taps, others, issued, resolved>>
  BY DEF Fetch, Steps, Save, GiveUp, sessionVars, claimVars, bounds
<1>2. /\ sync \in [scope : Accounts, step : Steps] /\ sync.scope \in Scopes
      /\ cache[sync.scope] \in CacheType /\ Outbox \in Seq(Changes)
      /\ SnapshotOf(server[session]) \in Snapshot
  BY <1>1, RunningTyped
<1>3. fetched \in Snapshot
  BY <1>2, ChangesAreChanges, ApplyOutboxTyped
<1> HIDE DEF fetched
<1>4. new \in CacheType /\ new.outbox = Outbox
  <2>1. new.outbox = Outbox
    BY <1>2 DEF CacheType, Outbox
  <2> QED BY <1>2, <1>3, <2>1, CacheFields
<1> HIDE DEF new
<1>5. cache' \in [Scopes -> CacheType] /\ shown' \in Screens
  BY <1>1, <1>2, <1>4, CommitTyped DEF TypeInv, DataTyped
<1>6. cache'[sync.scope].outbox = Outbox
  BY <1>1, <1>2, <1>4 DEF Commit, TypeInv, DataTyped
<1>7. PushHasItem'
  <2>1. CASE sync' = Idle
    BY <2>1 DEF PushHasItem, Idle
  <2>2. CASE Continue(Outbox)
    <3>1. sync'.scope = sync.scope /\ (sync'.step = "push" => Outbox # <<>>)
      BY <1>2, <2>2, ContinueIs
    <3> QED BY <1>6, <3>1 DEF PushHasItem, Outbox
  <2> QED BY <1>1, <2>1, <2>2
<1> QED BY <1>1, <1>5, <1>7 DEF TypeInv, DataTyped, CountersTyped

\* The answer to the head of the outbox.
LEMMA PushTyped ==
  ASSUME TypeInv, Push
  PROVE  DataTyped' /\ CountersTyped' /\ PushHasItem'
<1> DEFINE new == [cache[sync.scope] EXCEPT !.outbox = Tail(@)]
<1>1. /\ sync.step \in Steps /\ sync.step = "push" /\ Authorized /\ Outbox # <<>>
      /\ server' = [server EXCEPT ![session] = Apply(server[session], Outgoing).user]
      /\ \/ sync' = Idle /\ UNCHANGED <<cache, shown, resolved>>
         \/ /\ Commit(cache, sync.scope, new)
            /\ Continue(Tail(Outbox)) \/ sync' = [sync EXCEPT !.step = "refetch"]
            /\ resolved' \in {resolved, [resolved EXCEPT ![session] = @ + 1]}
      /\ UNCHANGED <<moved, expired, fresh, taps, others, issued>>
  BY DEF Push, Steps, Save, GiveUp, sessionVars, claimVars, cacheVars, bounds,
         TypeInv, PushHasItem
<1>2. /\ sync \in [scope : Accounts, step : Steps] /\ sync.scope \in Scopes
      /\ cache[sync.scope] \in CacheType /\ Outbox \in Seq(Changes)
      /\ session \in Accounts
  BY <1>1, RunningTyped
<1>3. server' \in [Accounts -> UserData]
  BY <1>1, ServedTyped
<1>4. new \in CacheType /\ new.outbox = Tail(Outbox)
  <2>1. Tail(Outbox) \in Seq(Changes)
    BY <1>1, <1>2
  <2>2. new = [cache[sync.scope] EXCEPT !.outbox = Tail(Outbox)]
    BY DEF Outbox
  <2> HIDE DEF new
  <2>3. new.outbox = Tail(Outbox)
    BY <1>2, <2>2 DEF CacheType
  <2> QED BY <1>2, <2>1, <2>2, <2>3, CacheFields
<1> HIDE DEF new
<1>5. cache' \in [Scopes -> CacheType] /\ shown' \in Screens
  BY <1>1, <1>2, <1>4, CommitTyped DEF TypeInv, DataTyped
<1>6. resolved' \in [Accounts -> Nat]
  <2>1. resolved \in [Accounts -> Nat] /\ resolved[session] + 1 \in Nat
    BY <1>2 DEF TypeInv, CountersTyped
  <2>2. resolved' \in {resolved, [resolved EXCEPT ![session] = resolved[session] + 1]}
    BY <1>1
  <2> QED BY <2>1, <2>2
<1>7. PushHasItem'
  <2>1. CASE sync' = Idle \/ sync' = [sync EXCEPT !.step = "refetch"]
    BY <1>2, <2>1 DEF PushHasItem, Idle
  <2>2. CASE Commit(cache, sync.scope, new) /\ Continue(Tail(Outbox))
    <3>1. sync'.scope = sync.scope /\ (sync'.step = "push" => Tail(Outbox) # <<>>)
      BY <1>2, <2>2, ContinueIs
    <3>2. cache'[sync.scope].outbox = Tail(Outbox)
      BY <1>2, <1>4, <2>2 DEF Commit, TypeInv, DataTyped
    <3> QED BY <3>1, <3>2 DEF PushHasItem, Outbox
  <2> QED BY <1>1, <2>1, <2>2
<1> QED BY <1>1, <1>3, <1>5, <1>6, <1>7 DEF TypeInv, DataTyped, CountersTyped

\* The steps without an account that the server accepts, which may sign out.
LEMMA UnauthorizedTyped ==
  ASSUME TypeInv, FetchUnauthorized \/ PushUnauthorized
  PROVE  DataTyped' /\ CountersTyped' /\ PushHasItem'
<1>1. /\ sync.step \in Steps /\ SignedOut
      /\ UNCHANGED <<server, moved, fresh, taps, others, issued, resolved>>
      /\ \/ sync' = Idle /\ UNCHANGED cache
         \/ /\ sync' = [sync EXCEPT !.step = "refetch"] /\ sync.step = "push"
            /\ cache' = [cache EXCEPT ![sync.scope].outbox = Tail(@)]
  BY DEF FetchUnauthorized, PushUnauthorized, Steps, GiveUp, claimVars, bounds
<1>2. /\ sync \in [scope : Accounts, step : Steps] /\ sync.scope \in Scopes
      /\ cache[sync.scope] \in CacheType /\ Outbox \in Seq(Changes)
  BY <1>1, RunningTyped
<1>3. expired' \in BOOLEAN /\ shown' \in Screens
  BY <1>1, NothingIsNeat DEF SignedOut, SwitchTo, sessionVars, TypeInv, DataTyped,
                             CountersTyped, Screens
<1>4. cache' \in [Scopes -> CacheType]
  <2>1. CASE UNCHANGED cache
    BY <2>1 DEF TypeInv, DataTyped
  <2>2. CASE /\ cache' = [cache EXCEPT ![sync.scope].outbox = Tail(@)]
             /\ sync.step = "push"
    <3> DEFINE new == [cache[sync.scope] EXCEPT !.outbox = Tail(Outbox)]
    <3>1. Tail(Outbox) \in Seq(Changes)
      BY <1>2, <2>2 DEF TypeInv, PushHasItem
    <3>2. new \in CacheType
      BY <1>2, <3>1, CacheFields
    <3>3. cache' = [cache EXCEPT ![sync.scope] = new]
      BY <2>2 DEF Outbox
    <3> HIDE DEF new
    <3> QED BY <1>2, <3>2, <3>3 DEF TypeInv, DataTyped
  <2> QED BY <1>1, <2>1, <2>2
<1>5. PushHasItem'
  BY <1>1, <1>2 DEF PushHasItem, Idle
<1> QED BY <1>1, <1>3, <1>4, <1>5 DEF TypeInv, DataTyped, CountersTyped

\* Loads, and the end of the app.
LEMMA LoadsTyped ==
  ASSUME TypeInv, Crash \/ CrashInClaim \/ BuildLoads \/ RunLoad
  PROVE  DataTyped' /\ CountersTyped' /\ PushHasItem'
<1>1. /\ DataTyped /\ CountersTyped /\ session \in Scopes /\ Local \in Scopes
      /\ queue \in Seq(Operation)
  BY DEF TypeInv, ScreenInv, DeviceOK, Scopes
<1>2. /\ UNCHANGED <<server, expired, fresh, taps, others, issued, resolved>>
      /\ sync'.step # "push"
  <2>1. CASE Crash \/ CrashInClaim
    BY <2>1 DEF Crash, CrashInClaim, Start, bounds, Idle
  <2>2. CASE RunLoad
    BY <2>2 DEF RunLoad, NextOp, sessionVars, bounds, Idle, FirstStep
  <2>3. CASE BuildLoads
    BY <2>3 DEF BuildLoads, sessionVars, bounds, Idle, TypeInv, ScreenInv, OpeningOK
  <2> QED BY <2>1, <2>2, <2>3
<1>3. CASE Crash \/ CrashInClaim
  <2>1. /\ cache' \in {cache, [cache EXCEPT ![Local] = EmptyCache]}
        /\ shown' = Loading /\ UNCHANGED moved
    BY <1>3 DEF Crash, CrashInClaim, Start, claimVars
  <2>2. cache' \in [Scopes -> CacheType]
    BY <1>1, <2>1, LoadedTyped DEF DataTyped
  <2> QED BY <1>1, <1>2, <2>1, <2>2
          DEF DataTyped, CountersTyped, PushHasItem, Screens
<1>4. CASE BuildLoads
  <2> DEFINE s == opening.scope
  <2>1. s \in Scopes /\ cache' = Loaded(s) /\ Claim(s) /\ shown' = shown
    BY <1>4 DEF BuildLoads, TypeInv, ScreenInv, DeviceOK
  <2> HIDE DEF s
  <2>2. cache' \in [Scopes -> CacheType] /\ moved' \in [Accounts -> Snapshot]
    BY <1>1, <2>1, LoadedTyped, ClaimTyped DEF DataTyped
  <2> QED BY <1>1, <1>2, <2>1, <2>2 DEF DataTyped, CountersTyped, PushHasItem
<1>5. CASE RunLoad
  <2> DEFINE s == Head(queue).scope
  <2>1. /\ Head(queue) \in Operation /\ Head(queue).kind = "load"
        /\ cache' = Loaded(s) /\ Claim(s)
        /\ shown' = shown \/ shown' = Loaded(s)[s].snapshot
    BY <1>1, <1>5, TailAt DEF RunLoad, NextOp
  <2>2. s \in Scopes
    BY <2>1 DEF Operation
  <2> HIDE DEF s
  <2>3. cache' \in [Scopes -> CacheType] /\ moved' \in [Accounts -> Snapshot]
    BY <1>1, <2>1, <2>2, LoadedTyped, ClaimTyped DEF DataTyped
  <2>4. shown' \in Screens
    BY <1>1, <2>1, <2>2, <2>3, CacheFields DEF DataTyped, Screens
  <2> QED BY <1>1, <1>2, <2>3, <2>4 DEF DataTyped, CountersTyped, PushHasItem
<1> QED BY <1>3, <1>4, <1>5

\* What build() has read is a snapshot.
LEMMA OpeningTyped ==
  ASSUME TypeInv, Next
  PROVE  ReadTyped'
<1>1. CASE Crash \/ CrashInClaim
  BY <1>1, NothingIsNeat DEF Crash, CrashInClaim, Start, Opening, ReadTyped
<1>2. CASE BuildLoads
  <2> DEFINE s == opening.scope
  <2>1. s \in Scopes /\ opening' = Opening("return", s, Loaded(s)[s].snapshot)
    BY <1>2 DEF BuildLoads, TypeInv, ScreenInv, DeviceOK
  <2> HIDE DEF s
  <2>2. Loaded(s) \in [Scopes -> CacheType]
    BY <2>1, LoadedTyped DEF TypeInv, DataTyped
  <2>3. Loaded(s)[s].snapshot \in Snapshot
    BY <2>1, <2>2, CacheFields
  <2> QED BY <2>1, <2>3 DEF Opening, ReadTyped
<1>3. CASE BuildReturns
  <2>1. opening = Opening(opening.step, opening.scope, opening.read)
    BY DEF TypeInv, ScreenInv, DeviceOK
  <2>2. opening' = Opening("done", opening.scope, EmptySnapshot)
        \/ opening' = [opening EXCEPT !.step = "late"]
    BY <1>3 DEF BuildReturns
  <2>3. CASE opening' = [opening EXCEPT !.step = "late"]
    <3>1. opening'.read = opening.read
      BY <2>1, <2>3 DEF Opening
    <3> QED BY <3>1 DEF TypeInv, ReadTyped
  <2> QED BY <2>2, <2>3, NothingIsNeat DEF Opening, ReadTyped
<1>4. CASE ~(Crash \/ CrashInClaim \/ BuildLoads \/ BuildReturns)
  <2>1. opening' = opening
    BY <1>4 DEF Next, SyncSteps, Tap, Switch, Resume, RunChange, RunSync, RunLoad,
                Import, Fetch, FetchUnauthorized, Push, PushUnauthorized,
                LoseRequest, LoseAnswer, OtherDevice, Expire
  <2> QED BY <2>1 DEF TypeInv, ReadTyped
<1> QED BY <1>1, <1>2, <1>3, <1>4

\* A change or an import that reaches a server.
LEMMA WorldTyped ==
  ASSUME TypeInv,
         LoseAnswer \/ \E a \in Accounts, r \in OtherChanges : OtherDevice(a, r)
  PROVE  DataTyped' /\ CountersTyped' /\ PushHasItem'
<1>1. CASE LoseAnswer
  <2>1. /\ sync.step \in {"import", "push"} /\ Authorized
        /\ server' = [server EXCEPT ![session] = Apply(server[session], Outgoing).user]
        /\ UNCHANGED <<cache, moved, shown, expired, fresh, taps, others, issued,
                       resolved>>
        /\ sync' = Idle
    BY <1>1 DEF LoseAnswer, GiveUp, sessionVars, cacheVars, claimVars, bounds
  <2>2. server' \in [Accounts -> UserData]
    BY <2>1, ServedTyped
  <2> QED BY <2>1, <2>2 DEF TypeInv, DataTyped, CountersTyped, PushHasItem, Idle
<1>2. ASSUME NEW a \in Accounts, NEW r \in OtherChanges, OtherDevice(a, r)
      PROVE  DataTyped' /\ CountersTyped' /\ PushHasItem'
  <2>1. /\ server' = [server EXCEPT ![a] = Apply(server[a], r).user]
        /\ others < MaxOther /\ others' = others + 1
        /\ UNCHANGED <<cache, moved, shown, expired, fresh, taps, issued, resolved,
                       sync>>
    BY <1>2 DEF OtherDevice, sessionVars, cacheVars, claimVars
  <2>2. Apply(server[a], r).user \in UserData
    BY SyncAssumption, ApplyTyped DEF TypeInv, DataTyped
  <2>3. others' \in 0..MaxOther
    BY <2>1, SyncAssumption DEF TypeInv, CountersTyped
  <2> QED BY <2>1, <2>2, <2>3
          DEF TypeInv, DataTyped, CountersTyped, PushHasItem, Outbox
<1> QED BY <1>1, <1>2

\* Every step keeps the types.
LEMMA TypeNext == TypeInv /\ [Next]_vars => TypeInv'
<1> SUFFICES ASSUME TypeInv, [Next]_vars PROVE TypeInv'
  OBVIOUS
<1>0. ReadTyped'
  <2>1. CASE UNCHANGED vars
    BY <2>1 DEF vars, TypeInv, ReadTyped
  <2> QED BY <2>1, OpeningTyped
<1> SUFFICES DataTyped' /\ CountersTyped' /\ PushHasItem'
  BY <1>0, ScreenNext DEF TypeInv
<1>1. CASE \E r \in Changes : Tap(r)
  <2>1. /\ UNCHANGED <<server, cache, moved, shown, expired, others, issued, resolved,
                       sync>>
        /\ fresh' \subseteq fresh /\ taps < MaxChanges /\ taps' = taps + 1
    BY <1>1 DEF Tap, sessionVars, cacheVars, claimVars
  <2>2. taps' \in 0..MaxChanges
    BY <2>1, SyncAssumption DEF TypeInv, CountersTyped
  <2> QED BY <2>1, <2>2 DEF TypeInv, DataTyped, CountersTyped, PushHasItem, Outbox
<1>2. CASE (\E s \in Scopes : Switch(s)) \/ Resume \/ Expire \/ UNCHANGED vars
  <2>1. /\ UNCHANGED <<server, cache, moved, fresh, taps, others, issued, resolved,
                       sync>>
        /\ shown' \in {shown, EmptySnapshot} /\ expired' \in {expired, FALSE, TRUE}
    BY <1>2 DEF Switch, SwitchTo, Resume, Expire, vars, sessionVars, cacheVars,
                claimVars, bounds
  <2> QED BY <2>1, NothingIsNeat
          DEF TypeInv, DataTyped, CountersTyped, PushHasItem, Outbox, Screens
<1>3. CASE Crash \/ CrashInClaim \/ BuildLoads \/ RunLoad
  BY <1>3, LoadsTyped
<1>9. CASE BuildReturns
  <2>1. /\ UNCHANGED <<server, cache, moved, expired, fresh, taps, others, issued,
                       resolved, sync>>
        /\ shown' = opening.read
    BY <1>9 DEF BuildReturns, sessionVars, claimVars, bounds
  <2> QED BY <2>1 DEF TypeInv, DataTyped, CountersTyped, PushHasItem, Outbox,
                      ReadTyped, Screens
<1>4. CASE RunChange
  BY <1>4, RunChangeTyped
<1>5. CASE RunSync \/ LoseRequest
  <2>1. /\ UNCHANGED <<server, cache, moved, shown, expired, fresh, taps, others,
                       issued, resolved>>
        /\ sync'.step # "push"
    BY <1>5 DEF RunSync, LoseRequest, GiveUp, FirstStep, Idle, sessionVars,
                cacheVars, claimVars, bounds
  <2> QED BY <2>1 DEF TypeInv, DataTyped, CountersTyped, PushHasItem
<1>6. CASE Import \/ Fetch \/ Push
  BY <1>6, ImportTyped, FetchTyped, PushTyped
<1>7. CASE FetchUnauthorized \/ PushUnauthorized
  BY <1>7, UnauthorizedTyped
<1>8. CASE LoseAnswer \/ \E a \in Accounts, r \in OtherChanges : OtherDevice(a, r)
  BY <1>8, WorldTyped
<1> QED BY <1>1, <1>2, <1>3, <1>4, <1>5, <1>6, <1>7, <1>8, <1>9
        DEF Next, SyncSteps

\* The types hold in every state.
LEMMA TypeInvariance == Spec => []TypeInv
  BY TypeInit, TypeNext, PTL DEF Spec

\* Whatever other devices, losses, crashes and switches do, every variable has
\* its type, and a synchronisation that pushes has something to push.
THEOREM EveryVariableIsTyped == Spec => []TypeOK
<1>1. TypeInv => TypeOK
  <2> SUFFICES ASSUME TypeInv PROVE TypeOK
    OBVIOUS
  <2>1. \A i \in DOMAIN queue : queue[i] \in Operation
    BY DEF TypeInv, ScreenInv, DeviceOK
  <2>2. Operation \subseteq [kind : {"change"}, request : Changes, seen : Scopes]
                            \cup [kind : {"sync", "load"}, scope : Scopes]
    BY DEF Operation, Scopes
  <2>3. opening \in [step : {"load", "return", "done", "late"}, scope : Scopes,
                     read : Snapshot]
    BY DEF TypeInv, ScreenInv, DeviceOK, ReadTyped, Opening
  <2> QED BY <2>1, <2>2, <2>3
          DEF TypeInv, ScreenInv, DeviceOK, DataTyped, CountersTyped,
              PushHasItem, CacheType, TypeOK, Screens
<1> QED BY <1>1, TypeInvariance, PTL

-----------------------------------------------------------------------------
(***************************************************************************)
(* One account, on the server and on a device that is the only one.  The   *)
(* device keeps a snapshot and the legacy collections that are still to be *)
(* imported; the account took over the collections m; the changes in log   *)
(* were queued for it, and the first d of them are answered.  The server   *)
(* may be one exchange ahead: its answer was lost.                         *)
(***************************************************************************)
AccountOK(snapshot, legacy, m, log, user, d) ==
  /\ Neat(m) /\ StaysWell(UserOf(m), log)
  /\ snapshot = SnapshotOf(After(UserOf(m), log, Len(log)))
  /\ legacy \in {m, EmptySnapshot}
  /\ legacy # EmptySnapshot => d = 0 /\ user \in {EmptyUser, UserOf(m)}
  /\ legacy = EmptySnapshot =>
       \E n \in d..Len(log) : n <= d + 1 /\ user = After(UserOf(m), log, n)

\* An account without changes that took over nothing is empty on the server.
LEMMA NothingHappened ==
  ASSUME NEW s, NEW legacy, NEW user,
         AccountOK(s, legacy, EmptySnapshot, <<>>, user, 0)
  PROVE  user = EmptyUser
<1>1. legacy = EmptySnapshot
  BY DEF AccountOK
<1>2. PICK n \in 0..Len(<<>>) : user = After(UserOf(EmptySnapshot), <<>>, n)
  BY <1>1 DEF AccountOK
<1>3. n = 0 /\ <<>> \in Seq(Changes)
  BY <1>2
<1> QED BY <1>2, <1>3, AfterNothing, NothingIsNeat

\* The account that takes over the collections of the device, before and after
\* it has: nothing but them on the device, and nothing on the server.
LEMMA TakenOver ==
  ASSUME NEW m, Neat(m), Room(m)
  PROVE  AccountOK(m, m, m, <<>>, EmptyUser, 0)
<1>1. <<>> \in Seq(Changes) /\ Len(<<>>) = 0 /\ 0..0 = {0}
  OBVIOUS
<1>2. After(UserOf(m), <<>>, 0) = UserOf(m)
  BY <1>1, AfterNothing
<1>3. WellKept(UserOf(m)) /\ Room(UserOf(m)) /\ SnapshotOf(UserOf(m)) = m
  BY UserOfFields DEF Neat
<1>4. StaysWell(UserOf(m), <<>>)
  BY <1>1, <1>2, <1>3 DEF StaysWell
<1>5. m = EmptySnapshot => EmptyUser = After(UserOf(m), <<>>, 0)
  BY <1>2, NothingIsNeat
<1> QED BY <1>1, <1>2, <1>3, <1>4, <1>5 DEF AccountOK

\* A change of the user that leaves room.
LEMMA ChangeQueued ==
  ASSUME NEW s, NEW legacy, NEW m, NEW log \in Seq(Changes), NEW user,
         NEW d \in 0..Len(log), AccountOK(s, legacy, m, log, user, d),
         NEW r \in Changes, Room(Optimistic(s, r))
  PROVE  AccountOK(Optimistic(s, r), legacy, m, Append(log, r), user, d)
<1> DEFINE N == Len(log)
           more == Append(log, r)
           U(k) == After(UserOf(m), log, k)
           V(k) == After(UserOf(m), more, k)
<1>1. N \in Nat /\ more \in Seq(Changes) /\ Len(more) = N + 1
  BY LenProperties, AppendProperties
<1>2. (\A k \in 0..N : V(k) = U(k)) /\ V(N + 1) = Apply(U(N), r).user
  <2>1. PICK base : base = UserOf(m)
    OBVIOUS
  <2>2. /\ \A k \in 0..Len(log) :
             After(base, Append(log, r), k) = After(base, log, k)
        /\ After(base, Append(log, r), Len(log) + 1)
             = Apply(After(base, log, Len(log)), r).user
    BY AfterAppend
  <2> QED BY <2>1, <2>2
<1>3. /\ Neat(m) /\ s = SnapshotOf(U(N)) /\ legacy \in {m, EmptySnapshot}
      /\ \A k \in 0..N : WellKept(U(k)) /\ Room(U(k))
      /\ legacy # EmptySnapshot => d = 0 /\ user \in {EmptyUser, UserOf(m)}
      /\ legacy = EmptySnapshot =>
           \E n \in d..N : n <= d + 1 /\ user = U(n)
  BY DEF AccountOK, StaysWell
<1> HIDE DEF N, more, U, V
<1>4. N \in 0..N
  BY <1>1
<1>5. /\ WellKept(V(N + 1))
      /\ SnapshotOf(V(N + 1)) = Optimistic(s, r)
  BY <1>2, <1>3, <1>4, ChangesAreChanges, ChangeAgrees
<1>6. Room(V(N + 1))
  BY <1>5, SnapshotIsNeat
<1>7. \A k \in 0..Len(more) : WellKept(V(k)) /\ Room(V(k))
  <2> SUFFICES ASSUME NEW k \in 0..Len(more) PROVE WellKept(V(k)) /\ Room(V(k))
    OBVIOUS
  <2>1. k \in 0..N \/ k = N + 1
    BY <1>1
  <2> QED BY <1>2, <1>3, <1>5, <1>6, <2>1
<1>8. legacy = EmptySnapshot =>
        \E n \in d..Len(more) : n <= d + 1 /\ user = V(n)
  <2> SUFFICES ASSUME legacy = EmptySnapshot
               PROVE  \E n \in d..Len(more) : n <= d + 1 /\ user = V(n)
    OBVIOUS
  <2>1. PICK n \in d..N : n <= d + 1 /\ user = U(n)
    BY <1>3
  <2>2. n \in 0..N /\ n \in d..Len(more)
    BY <1>1
  <2> QED BY <1>2, <2>1, <2>2
<1> QED BY <1>1, <1>3, <1>5, <1>7, <1>8 DEF AccountOK, StaysWell, V, more

\* A fetch finds on the server, with the outbox laid over it, what is on the
\* device already.
LEMMA FetchAddsNothing ==
  ASSUME NEW s, NEW m, NEW log \in Seq(Changes), NEW user, NEW d \in 0..Len(log),
         AccountOK(s, EmptySnapshot, m, log, user, d)
  PROVE  ApplyOutbox(SnapshotOf(user), SubSeq(log, d + 1, Len(log))) = s
<1>1. PICK n \in d..Len(log) : n <= d + 1 /\ user = After(UserOf(m), log, n)
  BY DEF AccountOK
<1>2. StaysWell(UserOf(m), log)
      /\ s = SnapshotOf(After(UserOf(m), log, Len(log)))
  BY DEF AccountOK
<1> QED BY <1>1, <1>2, ChangesAreChanges, PendingCompletes

\* The head of the outbox reaches the server, for the first time or again:
\* the account has the effect of the changes through it, answered or not.
LEMMA HeadApplied ==
  ASSUME NEW s, NEW m, NEW log \in Seq(Changes), NEW user, NEW d \in 0..Len(log),
         AccountOK(s, EmptySnapshot, m, log, user, d), d < Len(log),
         NEW after, after = Apply(user, log[d + 1]).user
  PROVE  /\ AccountOK(s, EmptySnapshot, m, log, after, d)
         /\ AccountOK(s, EmptySnapshot, m, log, after, d + 1)
<1> DEFINE U(k) == After(UserOf(m), log, k)
           j == d + 1
<1>1. Len(log) \in Nat /\ j \in 1..Len(log) /\ j - 1 = d /\ j \in 0..Len(log)
  BY LenProperties
<1>2. PICK n \in d..Len(log) : n <= d + 1 /\ user = U(n)
  BY DEF AccountOK
<1>3. log[j] \in Request
  BY <1>1, ElementOfSeq, SyncAssumption
<1> HIDE DEF j
<1>4. U(j) = Apply(U(j - 1), log[j]).user
  BY <1>1, AfterOneMore
<1>5. WellKept(U(d)) /\ WellKept(U(j))
  BY <1>1 DEF AccountOK, StaysWell
<1> HIDE DEF U
<1>6. Apply(U(j), log[j]).user = U(j)
  BY <1>1, <1>3, <1>4, <1>5, TwiceIsOnce
<1>7. n = d \/ n = j
  BY <1>1, <1>2 DEF j
<1>8. after = U(j)
  BY <1>1, <1>2, <1>4, <1>6, <1>7 DEF j
<1>9. j \in d..Len(log) /\ j \in d + 1..Len(log) /\ j <= d + 1 /\ j <= (d + 1) + 1
  BY <1>1 DEF j
<1> QED BY <1>8, <1>9 DEF AccountOK, U

\* The import reaches the server, for the first time or again.
LEMMA ImportApplied ==
  ASSUME NEW s, NEW legacy, NEW m, NEW log \in Seq(Changes), NEW user, NEW d,
         AccountOK(s, legacy, m, log, user, d), legacy # EmptySnapshot,
         NEW after, after = Apply(user, ImportRequest(legacy)).user
  PROVE  /\ AccountOK(s, legacy, m, log, after, d)
         /\ AccountOK(s, EmptySnapshot, m, log, after, d)
<1>1. /\ Len(log) \in Nat /\ 0 \in 0..Len(log) /\ legacy = m /\ Neat(m)
      /\ d = 0 /\ user \in {EmptyUser, UserOf(m)}
  BY LenProperties DEF AccountOK
<1>2. After(UserOf(m), log, 0) = UserOf(m)
  BY AfterNothing
<1>3. Room(m)
  <2>1. Room(UserOf(m))
    BY <1>1, <1>2 DEF AccountOK, StaysWell
  <2> QED BY <2>1 DEF Room, UserOf
<1>4. after = UserOf(m)
  BY <1>1, <1>3, ImportHandsOver
<1> QED BY <1>1, <1>2, <1>4 DEF AccountOK

-----------------------------------------------------------------------------
(***************************************************************************)
(* All accounts.  No list on the device reaches its limit: at a limit the  *)
(* server refuses what the device has already shown.                       *)
(***************************************************************************)
BelowLimits == \A s \in Scopes : Room(cache[s].snapshot)

AccountsOK(caches, taken, logs, users, answered) ==
  \A a \in Accounts :
    AccountOK(caches[a].snapshot, caches[a].legacy, taken[a], logs[a], users[a],
              answered[a])

\* The import is sent when one is due, and before everything else.
ImportFirst ==
  sync.step \in Steps =>
    (sync.step = "import" <=> cache[sync.scope].legacy # EmptySnapshot)

PrefixOK ==
  /\ AccountsOK(cache, moved, issued, server, resolved)
  /\ Neat(cache[Local].snapshot)
  /\ owner = Local => \A a \in Accounts : moved[a] = EmptySnapshot
  /\ ImportFirst

PrefixInv == TypeInv /\ SettledInv /\ PrefixOK

\* The caches after a load.
LEMMA LoadedFields ==
  ASSUME cache \in [Scopes -> CacheType], NEW s \in Scopes, Claims(s)
  PROVE  /\ Loaded(s)[s].snapshot = cache[Local].snapshot
         /\ Loaded(s)[s].legacy = cache[Local].snapshot
         /\ Loaded(s)[Local] = EmptyCache
         /\ \A t \in Scopes : t \notin {s, Local} => Loaded(s)[t] = cache[t]
<1>1. Local \in Scopes /\ s # Local
  BY DEF Scopes, Claims
<1> DEFINE taken == [snapshot |-> cache[Local].snapshot, outbox |-> <<>>,
                     legacy |-> cache[Local].snapshot]
<1>2. Loaded(s) = [cache EXCEPT ![Local] = EmptyCache, ![s] = taken]
  BY DEF Loaded
<1>3. /\ Loaded(s)[s] = taken /\ Loaded(s)[Local] = EmptyCache
      /\ \A t \in Scopes : t \notin {s, Local} => Loaded(s)[t] = cache[t]
  <2> HIDE DEF taken
  <2> QED BY <1>1, <1>2
<1> QED BY <1>3

\* A load takes over what the local scope holds, before anything was queued.
LEMMA LoadedAccounts ==
  ASSUME PrefixInv, BelowLimits, NEW s \in Scopes, Claim(s)
  PROVE  /\ AccountsOK(Loaded(s), moved', issued, server, resolved)
         /\ Neat(Loaded(s)[Local].snapshot)
         /\ owner' = Local => \A a \in Accounts : moved'[a] = EmptySnapshot
         /\ moved' = [a \in Accounts |-> moved'[a]]
<1>1. /\ cache \in [Scopes -> CacheType] /\ moved \in [Accounts -> Snapshot]
      /\ Local \in Scopes /\ AccountsOK(cache, moved, issued, server, resolved)
      /\ Neat(cache[Local].snapshot) /\ Room(cache[Local].snapshot)
      /\ owner = Local => \A a \in Accounts : moved[a] = EmptySnapshot
  BY DEF PrefixInv, PrefixOK, TypeInv, DataTyped, Scopes, BelowLimits
<1>2. CASE ~Claims(s)
  <2>1. Loaded(s) = cache /\ moved' = moved /\ owner' = owner
    BY <1>2 DEF Loaded, Claim, claimVars
  <2> QED BY <1>1, <2>1
<1>3. CASE Claims(s)
  <2> DEFINE m == cache[Local].snapshot
  <2>1. /\ s \in Accounts /\ owner = Local /\ owner' = s /\ s # Local
        /\ moved' = [moved EXCEPT ![s] = m]
    BY <1>3, SyncAssumption DEF Claims, Claim, Scopes
  <2>2. /\ Loaded(s)[s].snapshot = m /\ Loaded(s)[s].legacy = m
        /\ Loaded(s)[Local] = EmptyCache
        /\ \A t \in Scopes : t \notin {s, Local} => Loaded(s)[t] = cache[t]
    BY <1>1, <1>3, LoadedFields
  <2>3. Neat(Loaded(s)[Local].snapshot)
    BY <2>2, NothingIsNeat DEF EmptyCache
  <2>4. issued[s] = <<>> /\ resolved[s] = 0 /\ moved[s] = EmptySnapshot
    <3>1. issued[s] = <<>> /\ resolved[s] \in Nat /\ resolved[s] <= Len(issued[s])
      BY <2>1 DEF PrefixInv, SettledInv, OutboxesOK
    <3> QED BY <1>1, <2>1, <3>1
  <2>5. server[s] = EmptyUser
    <3>1. AccountOK(cache[s].snapshot, cache[s].legacy, EmptySnapshot, <<>>,
                    server[s], 0)
      BY <1>1, <2>1, <2>4 DEF AccountsOK
    <3> QED BY <3>1, NothingHappened
  <2>6. AccountOK(m, m, m, <<>>, EmptyUser, 0)
    BY <1>1, TakenOver
  <2> HIDE DEF m
  <2>7. moved'[s] = m /\ \A a \in Accounts : a # s => moved'[a] = moved[a]
    BY <1>1, <2>1
  <2>8. ASSUME NEW a \in Accounts
        PROVE  AccountOK(Loaded(s)[a].snapshot, Loaded(s)[a].legacy, moved'[a],
                         issued[a], server[a], resolved[a])
    <3>1. CASE a = s
      BY <2>2, <2>4, <2>5, <2>6, <2>7, <3>1
    <3>2. CASE a # s
      <4>1. a \in Scopes /\ a \notin {s, Local}
        BY <3>2, SyncAssumption DEF Scopes
      <4>2. Loaded(s)[a] = cache[a] /\ moved'[a] = moved[a]
        BY <2>2, <2>7, <3>2, <4>1
      <4> QED BY <1>1, <4>2 DEF AccountsOK
    <3> QED BY <3>1, <3>2
  <2> QED BY <1>1, <2>1, <2>3, <2>8 DEF AccountsOK
<1> QED BY <1>2, <1>3

-----------------------------------------------------------------------------
\* The app starts with nothing anywhere.
LEMMA PrefixInit == Init /\ BelowLimits => PrefixInv
<1> SUFFICES ASSUME Init, BelowLimits PROVE PrefixOK
  BY TypeInit, SettledInit DEF PrefixInv
<1>1. /\ \A s \in Scopes : cache[s] = EmptyCache
      /\ \A a \in Accounts : /\ moved[a] = EmptySnapshot /\ issued[a] = <<>>
                             /\ server[a] = EmptyUser /\ resolved[a] = 0
      /\ sync = Idle
  BY DEF Init
<1>2. Local \in Scopes /\ Accounts \subseteq Scopes
  BY DEF Scopes
<1>3. \A s \in Scopes : /\ cache[s].snapshot = EmptySnapshot
                        /\ cache[s].legacy = EmptySnapshot
  BY <1>1 DEF EmptyCache
<1>4. Neat(EmptySnapshot) /\ Room(EmptySnapshot)
  BY <1>2, <1>3, NothingIsNeat DEF BelowLimits
<1>5. AccountOK(EmptySnapshot, EmptySnapshot, EmptySnapshot, <<>>, EmptyUser, 0)
  BY <1>4, TakenOver
<1>6. AccountsOK(cache, moved, issued, server, resolved)
  BY <1>1, <1>2, <1>3, <1>5 DEF AccountsOK
<1>7. ImportFirst
  BY <1>1 DEF ImportFirst, Idle, Steps
<1> QED BY <1>1, <1>2, <1>3, <1>4, <1>6, <1>7 DEF PrefixOK

\* The steps that leave the accounts alone.
LEMMA PrefixUntouched ==
  ASSUME PrefixInv, UNCHANGED <<cache, moved, owner, issued, server, resolved>>,
         sync' \in {sync, Idle, FirstStep(cache, active)}
  PROVE  PrefixOK'
<1>1. AccountsOK(cache', moved', issued', server', resolved')
  BY DEF PrefixInv, PrefixOK
<1>2. ImportFirst'
  <2>1. CASE sync' = sync
    BY <2>1 DEF PrefixInv, PrefixOK, ImportFirst
  <2>2. CASE sync' \in {Idle, FirstStep(cache, active)}
    BY <2>2 DEF ImportFirst, Idle, FirstStep, Steps
  <2> QED BY <2>1, <2>2
<1> QED BY <1>1, <1>2 DEF PrefixInv, PrefixOK

\* Loads, of build() and of a switch, and the end of the app.
LEMMA PrefixLoads ==
  ASSUME PrefixInv, BelowLimits, Crash \/ CrashInClaim \/ BuildLoads \/ RunLoad
  PROVE  PrefixOK'
<1>1. /\ PrefixOK /\ session \in Scopes /\ Local \in Scopes /\ queue \in Seq(Operation)
      /\ cache \in [Scopes -> CacheType] /\ UNCHANGED <<server, issued, resolved>>
  <2>1. UNCHANGED <<server, issued, resolved>>
    BY DEF Crash, CrashInClaim, Start, BuildLoads, RunLoad
  <2> QED BY <2>1 DEF PrefixInv, TypeInv, ScreenInv, DeviceOK, DataTyped, Scopes
<1>2. ASSUME NEW s \in Scopes, cache' = Loaded(s), Claim(s),
             sync' \in {Idle, FirstStep(Loaded(s), s)}
      PROVE  PrefixOK'
  <2>1. /\ AccountsOK(Loaded(s), moved', issued, server, resolved)
        /\ Neat(Loaded(s)[Local].snapshot)
        /\ owner' = Local => \A a \in Accounts : moved'[a] = EmptySnapshot
    BY <1>2, LoadedAccounts
  <2>2. AccountsOK(cache', moved', issued', server', resolved')
    BY <1>1, <1>2, <2>1
  <2>3. ImportFirst'
    BY <1>2 DEF ImportFirst, Idle, FirstStep, Steps
  <2> QED BY <1>2, <2>1, <2>2, <2>3 DEF PrefixOK
<1>3. CASE Crash
  BY <1>3, PrefixUntouched DEF Crash, Start, claimVars
<1>6. CASE BuildLoads
  <2>1. /\ opening.scope \in Scopes /\ sync' = Idle
        /\ cache' = Loaded(opening.scope) /\ Claim(opening.scope)
    BY <1>6 DEF BuildLoads, PrefixInv, TypeInv, ScreenInv, DeviceOK, OpeningOK
  <2> QED BY <1>2, <2>1
<1>4. CASE CrashInClaim
  <2>1. /\ cache' \in {cache, [cache EXCEPT ![Local] = EmptyCache]}
        /\ owner' # Local /\ UNCHANGED moved /\ sync' = Idle
    BY <1>4 DEF CrashInClaim, Start, Claims
  <2>2. /\ \A a \in Accounts : cache'[a] = cache[a]
        /\ cache'[Local] \in {cache[Local], EmptyCache}
    BY <1>1, <2>1, SyncAssumption DEF Scopes
  <2>3. AccountsOK(cache', moved', issued', server', resolved')
    BY <1>1, <2>1, <2>2 DEF PrefixOK, AccountsOK
  <2>4. Neat(cache'[Local].snapshot)
    BY <1>1, <2>2, NothingIsNeat DEF PrefixOK, EmptyCache
  <2>5. ImportFirst'
    BY <2>1 DEF ImportFirst, Idle, Steps
  <2> QED BY <2>1, <2>3, <2>4, <2>5 DEF PrefixOK
<1>5. CASE RunLoad
  <2> DEFINE s == Head(queue).scope
  <2>1. /\ Head(queue) \in Operation /\ Head(queue).kind = "load"
        /\ cache' = Loaded(s) /\ Claim(s)
        /\ sync' \in {Idle, FirstStep(Loaded(s), s)}
    BY <1>1, <1>5, TailAt DEF RunLoad, NextOp
  <2>2. s \in Scopes
    BY <2>1 DEF Operation
  <2> HIDE DEF s
  <2> QED BY <1>2, <2>1, <2>2
<1> QED BY <1>3, <1>4, <1>5, <1>6

\* A change of the user, in an account or without one.
LEMMA PrefixChange ==
  ASSUME PrefixInv, BelowLimits, BelowLimits', RunChange
  PROVE  PrefixOK'
<1> DEFINE caches == Loaded(active)
           before == caches[active]
           r == Head(queue).request
           after == Optimistic(before.snapshot, r)
           remote == active # Local
           items == IF remote THEN Append(before.outbox, r) ELSE before.outbox
           new == [before EXCEPT !.snapshot = after, !.outbox = items]
<1>1. /\ active \in Scopes /\ Local \in Scopes /\ queue \in Seq(Operation)
      /\ cache \in [Scopes -> CacheType] /\ issued \in [Accounts -> Seq(Changes)]
      /\ Claim(active) /\ sync = Idle /\ UNCHANGED <<server, sync, resolved>>
      /\ \A a \in Accounts : resolved[a] \in 0..Len(issued[a])
  <2>1. \A a \in Accounts : /\ resolved[a] \in Nat /\ Len(issued[a]) \in Nat
                            /\ resolved[a] <= Len(issued[a])
    BY LenProperties DEF PrefixInv, SettledInv, OutboxesOK
  <2> QED BY <2>1 DEF PrefixInv, TypeInv, ScreenInv, DeviceOK, DataTyped,
              CountersTyped, RunChange, NextChange, NextOp, Scopes
<1>2. r \in Changes
  <2>1. Head(queue) \in Operation /\ Head(queue).kind = "change"
    BY <1>1, TailAt DEF RunChange, NextChange, NextOp
  <2> QED BY <2>1 DEF Operation
<1>3. /\ caches \in [Scopes -> CacheType]
      /\ AccountsOK(caches, moved', issued, server, resolved)
      /\ Neat(caches[Local].snapshot)
      /\ owner' = Local => \A a \in Accounts : moved'[a] = EmptySnapshot
  BY <1>1, LoadedTyped, LoadedAccounts
<1>4. before \in CacheType
  <2> HIDE DEF caches
  <2> QED BY <1>1, <1>3
<1>5. ImportFirst'
  BY <1>1 DEF ImportFirst, Idle, Steps
<1>6. CASE after = before.snapshot
  <2>1. cache' = caches /\ issued' = issued
    BY <1>6 DEF RunChange
  <2>2. AccountsOK(cache', moved', issued', server', resolved')
    BY <1>1, <1>3, <2>1
  <2> QED BY <1>3, <1>5, <2>1, <2>2 DEF PrefixOK
<1>7. CASE after # before.snapshot
  <2>1. /\ cache' = [caches EXCEPT ![active] = new]
        /\ issued' = IF remote THEN [issued EXCEPT ![active] = Append(@, r)]
                     ELSE issued
    BY <1>7 DEF RunChange, Commit
  <2>2. new.snapshot = after /\ new.legacy = before.legacy
    <3> HIDE DEF before, after, items
    <3> QED BY <1>4 DEF CacheType
  <2> HIDE DEF new
  <2>3. cache'[active] = new /\ \A t \in Scopes : t # active => cache'[t] = caches[t]
    <3> HIDE DEF caches
    <3> QED BY <1>1, <1>3, <2>1
  <2>4. Room(after)
    BY <1>1, <2>2, <2>3 DEF BelowLimits
  <2>5. CASE ~remote
    <3>1. caches = cache
      BY <2>5 DEF Loaded, Claims
    <3>2. Neat(before.snapshot) /\ Room(before.snapshot)
      BY <1>1, <1>3, <2>5, <3>1 DEF BelowLimits
    <3>3. Neat(after)
      BY <1>2, <3>2, ChangesAreChanges, ChangeKeepsNeat
    <3>4. \A a \in Accounts : cache'[a] = caches[a]
      BY <2>3, <2>5, SyncAssumption DEF Scopes
    <3> HIDE DEF caches, after, before
    <3>5. AccountsOK(cache', moved', issued', server', resolved')
      BY <1>1, <1>3, <2>1, <2>5, <3>4 DEF AccountsOK
    <3>6. Neat(cache'[Local].snapshot)
      BY <2>2, <2>3, <2>5, <3>3
    <3> QED BY <1>3, <1>5, <3>5, <3>6 DEF PrefixOK
  <2>6. CASE remote
    <3>1. active \in Accounts
      BY <1>1, <2>6 DEF Scopes
    <3>2. AccountOK(before.snapshot, before.legacy, moved'[active], issued[active],
                    server[active], resolved[active])
      BY <1>3, <3>1 DEF AccountsOK
    <3> HIDE DEF r
    <3>3. AccountOK(after, before.legacy, moved'[active], Append(issued[active], r),
                    server[active], resolved[active])
      <4> HIDE DEF caches, before
      <4>1. /\ issued[active] \in Seq(Changes)
            /\ resolved[active] \in 0..Len(issued[active])
        BY <1>1, <3>1
      <4> QED BY <1>2, <2>4, <3>2, <4>1, ChangeQueued
    <3>4. /\ issued'[active] = Append(issued[active], r)
          /\ \A a \in Accounts : a # active => issued'[a] = issued[a]
      BY <1>1, <2>1, <2>6, <3>1
    <3> HIDE DEF caches, after, before
    <3>5. ASSUME NEW a \in Accounts
          PROVE  AccountOK(cache'[a].snapshot, cache'[a].legacy, moved'[a],
                           issued'[a], server'[a], resolved'[a])
      <4>1. CASE a = active
        BY <1>1, <2>2, <2>3, <3>3, <3>4, <4>1
      <4>2. CASE a # active
        <5>1. cache'[a] = caches[a] /\ issued'[a] = issued[a]
          BY <2>3, <3>4, <4>2 DEF Scopes
        <5> QED BY <1>1, <1>3, <5>1 DEF AccountsOK
      <4> QED BY <4>1, <4>2
    <3>6. AccountsOK(cache', moved', issued', server', resolved')
      BY <3>5 DEF AccountsOK
    <3>7. cache'[Local] = caches[Local]
      BY <1>1, <2>3, <2>6
    <3> QED BY <1>3, <1>5, <3>6, <3>7 DEF PrefixOK
  <2> QED BY <2>5, <2>6
<1> QED BY <1>6, <1>7

-----------------------------------------------------------------------------
\* The running synchronisation is of the account of the session, whose outbox
\* is the end of its log.
LEMMA RunningAccount ==
  ASSUME PrefixInv, sync.step \in Steps
  PROVE  /\ sync.scope = session /\ session \in Accounts /\ session # Local
         /\ sync \in [scope : Accounts, step : Steps] /\ owner # Local
         /\ cache \in [Scopes -> CacheType] /\ session \in Scopes
         /\ server \in [Accounts -> UserData] /\ resolved \in [Accounts -> Nat]
         /\ issued[session] \in Seq(Changes)
         /\ resolved[session] \in 0..Len(issued[session])
         /\ Outbox = SubSeq(issued[session], resolved[session] + 1,
                            Len(issued[session]))
         /\ AccountOK(cache[session].snapshot, cache[session].legacy, moved[session],
                      issued[session], server[session], resolved[session])
<1>1. /\ sync.scope = session /\ session \in Accounts /\ owner # Local
      /\ sync \in [scope : Accounts, step : Steps]
  BY SyncIsSessions DEF PrefixInv
<1>2. /\ issued[session] \in Seq(Changes) /\ resolved[session] \in Nat
      /\ resolved[session] <= Len(issued[session])
      /\ cache[session].outbox
           = SubSeq(issued[session], resolved[session] + 1, Len(issued[session]))
  BY <1>1 DEF PrefixInv, SettledInv, OutboxesOK, OutboxIsUnresolved
<1>3. Len(issued[session]) \in Nat
  BY <1>2, LenProperties
<1>4. session \in Scopes /\ session # Local
  BY <1>1, SyncAssumption DEF Scopes
<1> QED BY <1>1, <1>2, <1>3, <1>4
        DEF PrefixInv, TypeInv, DataTyped, CountersTyped, PrefixOK, AccountsOK, Outbox

\* The head of a part of a log.
LEMMA HeadOfRest ==
  ASSUME NEW T, NEW log \in Seq(T), NEW d \in 0..Len(log),
         SubSeq(log, d + 1, Len(log)) # <<>>
  PROVE  d < Len(log) /\ Head(SubSeq(log, d + 1, Len(log))) = log[d + 1]
<1>1. Len(log) \in Nat
  BY LenProperties
<1>2. d < Len(log)
  BY <1>1
<1> QED BY <1>1, <1>2

\* A step that touches the account of the session and its cache only.
LEMMA OneAccount ==
  ASSUME PrefixInv, sync.step \in Steps,
         NEW new, NEW user, NEW d,
         cache' = [cache EXCEPT ![session] = new],
         server' = [server EXCEPT ![session] = user],
         resolved' = [resolved EXCEPT ![session] = d],
         UNCHANGED <<moved, issued, owner>>,
         AccountOK(new.snapshot, new.legacy, moved[session], issued[session], user, d),
         sync' = Idle \/ sync'.scope = session,
         sync'.step \in Steps =>
           (sync'.step = "import" <=> new.legacy # EmptySnapshot)
  PROVE  PrefixOK'
<1>1. /\ session \in Accounts /\ session # Local /\ session \in Scopes
      /\ cache \in [Scopes -> CacheType]
      /\ server \in [Accounts -> UserData] /\ resolved \in [Accounts -> Nat]
      /\ PrefixOK
  BY RunningAccount DEF PrefixInv
<1>2. /\ cache'[session] = new /\ server'[session] = user /\ resolved'[session] = d
      /\ cache'[Local] = cache[Local]
      /\ \A a \in Accounts : a # session =>
           cache'[a] = cache[a] /\ server'[a] = server[a] /\ resolved'[a] = resolved[a]
  BY <1>1 DEF Scopes
<1>3. ASSUME NEW a \in Accounts
      PROVE  AccountOK(cache'[a].snapshot, cache'[a].legacy, moved'[a],
                       issued'[a], server'[a], resolved'[a])
  <2>1. CASE a = session
    BY <1>2, <2>1
  <2>2. CASE a # session
    BY <1>1, <1>2, <2>2 DEF PrefixOK, AccountsOK
  <2> QED BY <2>1, <2>2
<1>4. ImportFirst'
  BY <1>2 DEF ImportFirst, Idle, Steps
<1> QED BY <1>1, <1>2, <1>3, <1>4 DEF PrefixOK, AccountsOK

\* The import reaches the server, and its answer the app or not.
LEMMA PrefixImport ==
  ASSUME PrefixInv, Import \/ (LoseAnswer /\ sync.step = "import")
  PROVE  PrefixOK'
<1> DEFINE c == cache[session]
           user == Apply(server[session], ImportRequest(c.legacy)).user
           new == [c EXCEPT !.legacy = EmptySnapshot]
<1>1. sync.step = "import" /\ sync.step \in Steps
  BY DEF Import, Steps
<1>2. /\ sync.scope = session /\ session \in Scopes /\ session \in Accounts
      /\ sync \in [scope : Accounts, step : Steps]
      /\ cache \in [Scopes -> CacheType] /\ resolved \in [Accounts -> Nat]
      /\ issued[session] \in Seq(Changes)
      /\ AccountOK(c.snapshot, c.legacy, moved[session], issued[session],
                   server[session], resolved[session])
  BY <1>1, RunningAccount
<1>3. /\ server' = [server EXCEPT ![session] = user]
      /\ UNCHANGED <<moved, issued, owner, resolved>>
      /\ \/ sync' = Idle /\ UNCHANGED cache
         \/ /\ sync' = [sync EXCEPT !.step = "fetch"]
            /\ cache' = [cache EXCEPT ![session] = new]
  BY <1>1, <1>2 DEF Import, LoseAnswer, Outgoing, Save, Commit, GiveUp, claimVars,
                    cacheVars
<1>4. c \in CacheType
  BY <1>2
<1>5. new.snapshot = c.snapshot /\ new.legacy = EmptySnapshot
  BY <1>4 DEF CacheType
<1>6. resolved' = [resolved EXCEPT ![session] = resolved[session]]
  BY <1>2, <1>3
<1> HIDE DEF user, new
<1>7. CASE c.legacy = EmptySnapshot
  <2>1. FALSE
    BY <1>1, <1>2, <1>7 DEF PrefixInv, PrefixOK, ImportFirst
  <2> QED BY <2>1
<1>8. CASE c.legacy # EmptySnapshot
  <2>1. /\ AccountOK(c.snapshot, c.legacy, moved[session], issued[session], user,
                     resolved[session])
        /\ AccountOK(c.snapshot, EmptySnapshot, moved[session], issued[session], user,
                     resolved[session])
    <3> HIDE DEF c
    <3> QED BY <1>2, <1>8, ImportApplied DEF user
  <2>2. CASE sync' = Idle /\ UNCHANGED cache
    <3>1. cache' = [cache EXCEPT ![session] = c]
      BY <1>2, <2>2
    <3>2. sync'.step \notin Steps
      BY <2>2 DEF Idle, Steps
    <3> HIDE DEF c
    <3> QED BY <1>1, <1>3, <1>6, <2>1, <2>2, <3>1, <3>2, OneAccount
  <2>3. CASE /\ sync' = [sync EXCEPT !.step = "fetch"]
             /\ cache' = [cache EXCEPT ![session] = new]
    <3>1. sync'.scope = session /\ sync'.step # "import"
      BY <1>2, <2>3
    <3> HIDE DEF c
    <3> QED BY <1>1, <1>3, <1>5, <1>6, <2>1, <2>3, <3>1, OneAccount
  <2> QED BY <1>3, <2>2, <2>3
<1> QED BY <1>7, <1>8

-----------------------------------------------------------------------------
\* A fetch brings nothing that the device does not show.
LEMMA PrefixFetch ==
  ASSUME PrefixInv, Fetch
  PROVE  PrefixOK'
<1> DEFINE c == cache[session]
           fetched == ApplyOutbox(SnapshotOf(server[session]), Outbox)
           new == [c EXCEPT !.snapshot = fetched]
<1>1. sync.step \in Steps /\ sync.step # "import"
  BY DEF Fetch, Steps
<1>2. /\ sync.scope = session /\ session \in Scopes
      /\ sync \in [scope : Accounts, step : Steps]
      /\ cache \in [Scopes -> CacheType] /\ issued[session] \in Seq(Changes)
      /\ server \in [Accounts -> UserData] /\ resolved \in [Accounts -> Nat]
      /\ resolved[session] \in 0..Len(issued[session])
      /\ Outbox = SubSeq(issued[session], resolved[session] + 1,
                         Len(issued[session]))
      /\ AccountOK(c.snapshot, c.legacy, moved[session], issued[session],
                   server[session], resolved[session])
  BY <1>1, RunningAccount
<1>3. c.legacy = EmptySnapshot
  BY <1>1, <1>2 DEF PrefixInv, PrefixOK, ImportFirst
<1>4. /\ cache' = [cache EXCEPT ![session] = new]
      /\ UNCHANGED <<server, moved, issued, owner, resolved>>
      /\ sync' = Idle \/ Continue(Outbox)
  BY <1>2 DEF Fetch, Save, Commit, GiveUp, claimVars
<1>5. fetched = c.snapshot
  <2> HIDE DEF c
  <2> QED BY <1>2, <1>3, FetchAddsNothing
<1>6. new.snapshot = c.snapshot /\ new.legacy = EmptySnapshot
  <2>1. c \in CacheType
    BY <1>2
  <2> HIDE DEF c, fetched
  <2> QED BY <1>3, <1>5, <2>1 DEF CacheType
<1>7. /\ server' = [server EXCEPT ![session] = server[session]]
      /\ resolved' = [resolved EXCEPT ![session] = resolved[session]]
  BY <1>2, <1>4
<1>8. (sync' = Idle \/ sync'.scope = session) /\ sync'.step # "import"
  BY <1>2, <1>4 DEF Continue, Idle
<1> HIDE DEF c, new
<1>9. AccountOK(new.snapshot, new.legacy, moved[session], issued[session],
                server[session], resolved[session])
  BY <1>2, <1>3, <1>6
<1> QED BY <1>1, <1>4, <1>6, <1>7, <1>8, <1>9, OneAccount

\* The head of the outbox reaches the server, and its answer the app or not.
LEMMA PrefixPush ==
  ASSUME PrefixInv, Push \/ (LoseAnswer /\ sync.step = "push")
  PROVE  PrefixOK'
<1> DEFINE c == cache[session]
           log == issued[session]
           d == resolved[session]
           user == Apply(server[session], log[d + 1]).user
           new == [c EXCEPT !.outbox = Tail(@)]
<1>1. sync.step = "push" /\ sync.step \in Steps /\ sync.step # "import"
  BY DEF Push, Steps
<1>2. /\ sync.scope = session /\ session \in Scopes
      /\ sync \in [scope : Accounts, step : Steps]
      /\ cache \in [Scopes -> CacheType] /\ log \in Seq(Changes)
      /\ resolved \in [Accounts -> Nat] /\ d \in 0..Len(log)
      /\ Outbox = SubSeq(log, d + 1, Len(log))
      /\ AccountOK(c.snapshot, c.legacy, moved[session], log, server[session], d)
  BY <1>1, RunningAccount
<1>3. c.legacy = EmptySnapshot /\ Outbox # <<>>
  BY <1>1, <1>2 DEF PrefixInv, PrefixOK, ImportFirst, TypeInv, PushHasItem
<1>4. d < Len(log) /\ Outgoing = log[d + 1]
  <2>1. d < Len(log) /\ Head(Outbox) = log[d + 1]
    <3> HIDE DEF log, d
    <3> QED BY <1>2, <1>3, HeadOfRest
  <2> QED BY <1>1, <2>1 DEF Outgoing
<1>5. /\ AccountOK(c.snapshot, EmptySnapshot, moved[session], log, user, d)
      /\ AccountOK(c.snapshot, EmptySnapshot, moved[session], log, user, d + 1)
  <2> HIDE DEF c, log, d
  <2> QED BY <1>2, <1>3, <1>4, HeadApplied DEF user
<1>6. /\ server' = [server EXCEPT ![session] = user]
      /\ UNCHANGED <<moved, issued, owner>>
      /\ \/ sync' = Idle /\ UNCHANGED <<cache, resolved>>
         \/ /\ cache' = [cache EXCEPT ![session] = new]
            /\ resolved' = [resolved EXCEPT ![session] = d + 1]
            /\ Continue(Tail(Outbox)) \/ sync' = [sync EXCEPT !.step = "refetch"]
  <2>1. CASE Push
    BY <1>2, <1>4, <2>1 DEF Push, Save, Commit, GiveUp, cacheVars, claimVars
  <2>2. CASE LoseAnswer
    BY <1>4, <2>2 DEF LoseAnswer, GiveUp, cacheVars, claimVars
  <2> QED BY <2>1, <2>2
<1>7. new.snapshot = c.snapshot /\ new.legacy = EmptySnapshot
  <2>1. c \in CacheType
    BY <1>2
  <2> QED BY <1>3, <2>1 DEF CacheType
<1> HIDE DEF user, new
<1>8. CASE sync' = Idle /\ UNCHANGED <<cache, resolved>>
  <2>1. /\ cache' = [cache EXCEPT ![session] = c]
        /\ resolved' = [resolved EXCEPT ![session] = d]
    BY <1>2, <1>8
  <2>2. sync'.step \notin Steps
    BY <1>8 DEF Idle, Steps
  <2> HIDE DEF c, d, log
  <2>3. issued[session] = log
    BY DEF log
  <2> QED BY <1>1, <1>3, <1>5, <1>6, <1>8, <2>1, <2>2, <2>3, OneAccount
<1>9. CASE /\ cache' = [cache EXCEPT ![session] = new]
           /\ resolved' = [resolved EXCEPT ![session] = d + 1]
           /\ Continue(Tail(Outbox)) \/ sync' = [sync EXCEPT !.step = "refetch"]
  <2>1. sync'.scope = session /\ sync'.step # "import"
    BY <1>2, <1>9 DEF Continue
  <2> DEFINE e == d + 1
  <2> HIDE DEF c, d, log, e
  <2>2. issued[session] = log /\ e = d + 1
    BY DEF log, e
  <2> QED BY <1>1, <1>5, <1>6, <1>7, <1>9, <2>1, <2>2, OneAccount
<1> QED BY <1>6, <1>8, <1>9

\* The invariant is kept by every step of a device that is the only one.
LEMMA PrefixNext ==
  ASSUME Quiet, MaxOther = 0
  PROVE  PrefixInv /\ BelowLimits /\ BelowLimits' /\ [Next]_vars => PrefixInv'
<1> SUFFICES ASSUME PrefixInv, BelowLimits, BelowLimits', [Next]_vars
             PROVE  PrefixInv'
  OBVIOUS
<1>1. TypeInv' /\ SettledInv'
  BY TypeNext, SettledNext DEF PrefixInv
<1>2. PrefixOK'
  <2>1. CASE \/ \E r \in Changes : Tap(r)
             \/ \E s \in Scopes : Switch(s)
             \/ Resume \/ BuildReturns \/ RunSync \/ LoseRequest \/ Expire
             \/ UNCHANGED vars
    <3>1. /\ UNCHANGED <<cache, moved, owner, issued, server, resolved>>
          /\ sync' \in {sync, Idle, FirstStep(cache, active)}
      BY <2>1 DEF Tap, Switch, Resume, BuildReturns, RunSync, LoseRequest, GiveUp,
                  Expire, vars, SwitchTo, sessionVars, cacheVars, claimVars
    <3> QED BY <3>1, PrefixUntouched
  <2>2. CASE Crash \/ CrashInClaim \/ BuildLoads \/ RunLoad
    BY <2>2, PrefixLoads
  <2>3. CASE RunChange
    BY <2>3, PrefixChange
  <2>4. CASE Fetch
    BY <2>4, PrefixFetch
  <2>5. CASE Import \/ Push \/ LoseAnswer
    <3>1. LoseAnswer => sync.step \in {"import", "push"}
      BY DEF LoseAnswer
    <3> QED BY <2>5, <3>1, PrefixImport, PrefixPush
  <2>6. CASE FetchUnauthorized \/ PushUnauthorized
    <3>1. sync.step \in Steps /\ ~Authorized
      BY <2>6 DEF FetchUnauthorized, PushUnauthorized, Steps
    <3> QED BY <3>1, RunningAccount, SyncIsSessions DEF PrefixInv
  <2>7. CASE \E a \in Accounts, r \in OtherChanges : OtherDevice(a, r)
    <3>1. others < MaxOther /\ others \in Nat
      BY <2>7 DEF OtherDevice, PrefixInv, SettledInv
    <3> QED BY <3>1
  <2> QED BY <2>1, <2>2, <2>3, <2>4, <2>5, <2>6, <2>7 DEF Next, SyncSteps
<1> QED BY <1>1, <1>2 DEF PrefixInv

\* What the invariant says of an account is the property.
LEMMA PrefixHolds == PrefixInv => ServerHoldsPrefix
<1> SUFFICES ASSUME PrefixInv, NEW a \in Accounts
             PROVE  LET answered == Len(issued[a]) - Len(cache[a].outbox) IN
    /\ \/ cache[a].legacy # EmptySnapshot /\ server[a] = EmptyUser
       \/ \E n \in answered..Len(issued[a]) :
            /\ n <= IF cache[a].legacy # EmptySnapshot THEN 0 ELSE answered + 1
            /\ server[a] = EffectOf(a, SubSeq(issued[a], 1, n))
    /\ cache[a].snapshot = SnapshotOf(EffectOf(a, issued[a]))
  BY DEF ServerHoldsPrefix
<1> DEFINE log == issued[a]
           d == resolved[a]
           m == moved[a]
           N == Len(log)
<1>1. /\ log \in Seq(Changes) /\ d \in Nat /\ d <= N /\ N \in Nat
      /\ cache[a].outbox = SubSeq(log, d + 1, N)
      /\ AccountOK(cache[a].snapshot, cache[a].legacy, m, log, server[a], d)
  BY LenProperties DEF PrefixInv, PrefixOK, AccountsOK, SettledInv, OutboxesOK,
                       OutboxIsUnresolved
<1>2. N - Len(cache[a].outbox) = d
  BY <1>1
<1>3. Neat(m) /\ Room(m)
  <2>1. Neat(m) /\ StaysWell(UserOf(m), log) /\ 0 \in 0..N
    BY <1>1 DEF AccountOK
  <2>2. After(UserOf(m), log, 0) = UserOf(m)
    BY <1>1, AfterNothing
  <2>3. Room(UserOf(m))
    BY <2>1, <2>2 DEF StaysWell
  <2> QED BY <2>1, <2>3 DEF Room, UserOf
<1>4. Imported(a) = UserOf(m)
  BY <1>3, ImportHandsOver DEF Imported
<1>5. \A k : EffectOf(a, SubSeq(log, 1, k)) = After(UserOf(m), log, k)
  BY <1>4 DEF EffectOf, After, Served
<1>6. EffectOf(a, log) = After(UserOf(m), log, N)
  <2>1. SubSeq(log, 1, N) = log
    BY <1>1
  <2> QED BY <1>5, <2>1
<1> HIDE DEF log, d, m, N
<1>7. cache[a].snapshot = SnapshotOf(EffectOf(a, log))
  BY <1>1, <1>6 DEF AccountOK, N
<1>8. \/ cache[a].legacy # EmptySnapshot /\ server[a] = EmptyUser
      \/ \E n \in d..N :
           /\ n <= IF cache[a].legacy # EmptySnapshot THEN 0 ELSE d + 1
           /\ server[a] = EffectOf(a, SubSeq(log, 1, n))
  <2>1. CASE cache[a].legacy = EmptySnapshot
    BY <1>1, <1>5, <2>1 DEF AccountOK, N
  <2>2. CASE cache[a].legacy # EmptySnapshot
    <3>1. d = 0 /\ server[a] \in {EmptyUser, UserOf(m)}
      BY <1>1, <2>2 DEF AccountOK
    <3>2. After(UserOf(m), log, 0) = UserOf(m) /\ 0 \in d..N
      BY <1>1, <3>1, AfterNothing
    <3> QED BY <1>5, <2>2, <3>1, <3>2
  <2> QED BY <2>1, <2>2
<1> QED BY <1>2, <1>7, <1>8 DEF log, N

\* On a device that is the only one of its accounts, as long as no list reaches
\* its limit: the server holds the collections an account took over and the
\* effect of its changes up to the head of the outbox, or through it, and the
\* device shows the effect of all of them.  A lost answer, a killed app, a
\* retry of a change or of the import neither drops, repeats nor reorders
\* anything (_syncScope, _pushOutbox, _applyMutation).
THEOREM ServerFollowsTheLog ==
  ASSUME Quiet, MaxOther = 0
  PROVE  Spec /\ []BelowLimits => []ServerHoldsPrefix
<1>1. Init /\ BelowLimits => PrefixInv
  BY PrefixInit
<1>2. PrefixInv /\ BelowLimits /\ BelowLimits' /\ [Next]_vars => PrefixInv'
  BY PrefixNext
<1>3. PrefixInv => ServerHoldsPrefix
  BY PrefixHolds
<1> QED BY <1>1, <1>2, <1>3, PTL DEF Spec

-----------------------------------------------------------------------------
\* A list with one more value at its end.
LEMMA AppendContains ==
  ASSUME NEW T, NEW s \in Seq(T), NEW x \in T, NEW v
  PROVE  /\ Append(s, x) \in Seq(T)
         /\ Contains(Append(s, x), v) <=> Contains(s, v) \/ v = x
<1>1. Len(s) \in Nat
  BY LenProperties
<1> QED BY <1>1 DEF Contains

\* What remains of a list is all of it but what is to go.
LEMMA WithoutKeeps ==
  ASSUME NEW T, NEW values \in Seq(T), NEW gone, NEW v
  PROVE  Contains(Without(values, gone), v) <=> Contains(values, v) /\ v \notin gone
<1> DEFINE n == Len(values)
           Met(k) == \E i \in 1..k : values[i] = v /\ v \notin gone
<1>1. n \in Nat /\ DOMAIN values = 1..n /\ \A i \in 1..n : values[i] \in T
  BY LenProperties, ElementOfSeq
<1> HIDE DEF n
<1>2. PICK run : IsRun("keep", gone, <<>>, values, n, run)
  BY <1>1, FoldRun
<1>3. /\ run[0] = <<>>
      /\ \A k \in 1..n :
           run[k] = IF values[k] \in gone THEN run[k - 1]
                    ELSE Append(run[k - 1], values[k])
      /\ Without(values, gone) = run[n]
  BY <1>2, FoldsAreFolded DEF IsRun, FoldStep, KeepUnless
<1> DEFINE S == {k \in 0..n : run[k] \in Seq(T) /\ (Contains(run[k], v) <=> Met(k))}
<1>4. 0 \in S
  <2>1. run[0] \in Seq(T) /\ ~Contains(run[0], v) /\ ~Met(0)
    BY <1>3 DEF Contains
  <2> HIDE DEF Met
  <2> QED BY <1>1, <2>1
<1>5. ASSUME NEW k \in 0..n - 1, k \in S PROVE k + 1 \in S
  <2>1. k + 1 \in 1..n /\ (k + 1) - 1 = k /\ k + 1 \in 0..n
    BY <1>1
  <2>2. run[k] \in Seq(T) /\ (Contains(run[k], v) <=> Met(k)) /\ values[k + 1] \in T
    BY <1>1, <1>5, <2>1
  <2>3. Met(k + 1) <=> Met(k) \/ (values[k + 1] = v /\ v \notin gone)
    BY <2>1
  <2> HIDE DEF Met
  <2>4. CASE values[k + 1] \in gone
    <3>1. run[k + 1] = run[k] /\ (Met(k + 1) <=> Met(k))
      BY <1>3, <2>1, <2>3, <2>4
    <3> QED BY <2>1, <2>2, <3>1
  <2>5. CASE values[k + 1] \notin gone
    <3>1. run[k + 1] = Append(run[k], values[k + 1])
      BY <1>3, <2>1, <2>5
    <3>2. /\ run[k + 1] \in Seq(T)
          /\ Contains(run[k + 1], v) <=> Contains(run[k], v) \/ v = values[k + 1]
      BY <2>2, <3>1, AppendContains
    <3> QED BY <2>1, <2>2, <2>3, <2>5, <3>2
  <2> QED BY <2>4, <2>5
<1>6. n \in S
  <2> HIDE DEF S
  <2> QED BY <1>1, <1>4, <1>5, HoldsUpTo
<1> QED BY <1>1, <1>3, <1>6 DEF Contains, n

\* A track is in a list to which another was added if it was in it or is that one.
LEMMA AppendOnceContains ==
  ASSUME NEW T, NEW s \in Seq(T), NEW x \in T, NEW v
  PROVE  Contains(AppendOnce(s, x), v) <=> Contains(s, v) \/ v = x
<1>1. CASE Contains(s, x)
  BY <1>1 DEF AppendOnce
<1>2. CASE ~Contains(s, x)
  BY <1>2, AppendContains DEF AppendOnce
<1> QED BY <1>1, <1>2

\* What a change of favorites does to them.
LEMMA FavoritesShown ==
  ASSUME NEW s \in Snapshot, NEW r, IsChange(r), NEW v
  PROVE  LET before == Contains(s.favorites, v)
             after  == Contains(Optimistic(s, r).favorites, v)
         IN  CASE r.op = "add_favorite"    -> after <=> before \/ v = r.track
               [] r.op = "remove_favorite" -> after <=> before /\ v # r.track
               [] OTHER -> after <=> before
<1>1. s.favorites \in Seq(Tracks) /\ r \in Request
  BY SnapshotTyped DEF IsChange
<1>2. CASE r.op = "add_favorite"
  <2>1. Optimistic(s, r).favorites = AppendOnce(s.favorites, r.track)
    BY <1>2 DEF Optimistic, Snapshot
  <2>2. r.track \in Tracks
    BY <1>1, <1>2 DEF Request
  <2> QED BY <1>1, <1>2, <2>1, <2>2, AppendOnceContains
<1>3. CASE r.op = "remove_favorite"
  <2>1. Optimistic(s, r).favorites = Without(s.favorites, {r.track})
    BY <1>3 DEF Optimistic, Snapshot
  <2> QED BY <1>1, <1>3, <2>1, WithoutKeeps
<1>4. CASE r.op \notin {"add_favorite", "remove_favorite"}
  <2>1. Optimistic(s, r).favorites = s.favorites
    BY <1>1, <1>4 DEF Optimistic, UpdatePlaylist, Snapshot, IsChange, Request
  <2> QED BY <1>4, <2>1
<1> QED BY <1>2, <1>3, <1>4

\* What a change makes of the playlists of one id, each coming from one of before.
ListedIs(r, id, before, after) ==
  /\ r.op \in {"add_favorite", "remove_favorite"} => after = before
  /\ r.op \notin {"add_favorite", "remove_favorite"} /\ r.playlist # id =>
       after = before
  /\ r.op = "create_playlist" /\ r.playlist = id =>
       /\ after # {}
       /\ \A p \in after : p \in before \/ (p.name = r.name /\ p.tracks = <<>>)
  /\ r.op = "delete_playlist" /\ r.playlist = id => after = {}
  /\ r.op \in {"rename_playlist", "add_track", "remove_track"} =>
       (after = {} <=> before = {})
  /\ r.op = "rename_playlist" /\ r.playlist = id =>
       \A p \in after : \E o \in before : p.name = r.name /\ p.tracks = o.tracks
  /\ r.op = "add_track" /\ r.playlist = id =>
       \A p \in after : \E o \in before :
         p.name = o.name /\ p.tracks = AppendOnce(o.tracks, r.track)
  /\ r.op = "remove_track" /\ r.playlist = id =>
       \A p \in after : \E o \in before :
         p.name = o.name /\ p.tracks = Without(o.tracks, {r.track})

\* The playlists of one id after a change on the device.
LEMMA ListedAfter ==
  ASSUME NEW s \in Snapshot, NEW r, IsChange(r), NEW id
  PROVE  ListedIs(r, id, Listed(s, id), Listed(Optimistic(s, r), id))
<1> DEFINE lists == s.playlists
           t == Optimistic(s, r)
<1>1. /\ lists \in Seq(Playlist) /\ r \in Request
      /\ r.op \notin {"import", "set_playback_mode"}
      /\ Len(lists) \in Nat /\ DOMAIN lists = 1..Len(lists)
      /\ \A k \in DOMAIN lists : lists[k] \in Playlist
  BY SnapshotTyped, ListsTyped DEF IsChange
<1>2. CASE r.op \in {"add_favorite", "remove_favorite"}
  <2>1. t.playlists = lists
    BY <1>2 DEF Optimistic, Snapshot
  <2> QED BY <1>2, <2>1 DEF Listed, ListedIs
<1>3. CASE r.op = "create_playlist"
  <2> DEFINE p == [id |-> r.playlist, name |-> r.name, tracks |-> <<>>]
  <2>1. p \in Playlist /\ p.id = r.playlist /\ p.name = r.name /\ p.tracks = <<>>
    BY <1>1, <1>3 DEF Request, Playlist
  <2>2. t.playlists = IF HasPlaylist(lists, r.playlist) THEN lists ELSE Append(lists, p)
    BY <1>3 DEF Optimistic, Snapshot
  <2> HIDE DEF p, t, lists
  <2>3. CASE HasPlaylist(lists, r.playlist)
    <3>1. PICK k \in 1..Len(lists) : lists[k].id = r.playlist
      BY <1>1, <2>3, PlaylistIndexFacts DEF HasPlaylist
    <3>2. Listed(t, id) = Listed(s, id)
      BY <2>2, <2>3 DEF Listed, lists
    <3>3. lists[k] \in Listed(s, r.playlist)
      BY <1>1, <3>1 DEF Listed, Range, lists
    <3> QED BY <1>3, <3>2, <3>3 DEF t, ListedIs
  <2>4. CASE ~HasPlaylist(lists, r.playlist)
    <3>1. Range(Append(lists, p)) = Range(lists) \cup {p}
      <4>1. /\ DOMAIN Append(lists, p) = 1..Len(lists) + 1
            /\ \A k \in 1..Len(lists) : Append(lists, p)[k] = lists[k]
            /\ Append(lists, p)[Len(lists) + 1] = p
        BY <1>1, <2>1, AppendProperties
      <4>2. 1..Len(lists) + 1 = (1..Len(lists)) \cup {Len(lists) + 1}
        BY <1>1
      <4> QED BY <1>1, <4>1, <4>2 DEF Range
    <3>2. Range(t.playlists) = Range(lists) \cup {p}
      BY <2>2, <2>4, <3>1
    <3> QED BY <1>3, <2>1, <3>2 DEF Listed, lists, t, ListedIs
  <2> QED BY <2>3, <2>4
<1>4. CASE r.op = "delete_playlist"
  <2> DEFINE gone == {p \in Range(lists) : p.id = r.playlist}
  <2>1. t.playlists = Without(lists, gone)
    BY <1>4 DEF Optimistic, Snapshot
  <2>2. ASSUME NEW v
        PROVE  v \in Range(t.playlists) <=> v \in Range(lists) /\ v \notin gone
    <3>1. t.playlists \in Seq(Playlist)
      BY <1>1, <2>1, WithoutFacts
    <3>2. Contains(t.playlists, v) <=> Contains(lists, v) /\ v \notin gone
      <4> HIDE DEF gone, t, lists
      <4> QED BY <1>1, <2>1, WithoutKeeps
    <3>3. \A q \in Seq(Playlist) : Contains(q, v) <=> v \in Range(q)
      BY DEF Contains, Range
    <3> QED BY <1>1, <3>1, <3>2, <3>3
  <2> HIDE DEF t, lists
  <2> QED BY <1>4, <2>2 DEF Listed, lists, t, ListedIs
<1>5. CASE r.op \in {"rename_playlist", "add_track", "remove_track"}
  <2> DEFINE Update(p) ==
               IF r.op = "rename_playlist" THEN [p EXCEPT !.name = r.name]
               ELSE IF r.op = "add_track"
                    THEN [p EXCEPT !.tracks = AppendOnce(p.tracks, r.track)]
               ELSE [p EXCEPT !.tracks = Without(p.tracks, {r.track})]
  <2>1. t.playlists = [k \in DOMAIN lists |->
                         IF lists[k].id = r.playlist THEN Update(lists[k])
                         ELSE lists[k]]
    BY <1>5 DEF Optimistic, UpdatePlaylist, Snapshot
  <2>2. \A p \in Playlist :
          /\ Update(p).id = p.id
          /\ r.op = "rename_playlist" =>
               Update(p).name = r.name /\ Update(p).tracks = p.tracks
          /\ r.op = "add_track" =>
               /\ Update(p).name = p.name
               /\ Update(p).tracks = AppendOnce(p.tracks, r.track)
          /\ r.op = "remove_track" =>
               /\ Update(p).name = p.name
               /\ Update(p).tracks = Without(p.tracks, {r.track})
    BY <1>5 DEF Playlist
  <2> HIDE DEF Update, t, lists
  <2>3. /\ Range(t.playlists)
             = {IF lists[k].id = r.playlist THEN Update(lists[k]) ELSE lists[k]
                : k \in DOMAIN lists}
        /\ Range(lists) = {lists[k] : k \in DOMAIN lists}
    BY <2>1 DEF Range
  <2>4. CASE r.playlist # id
    <3>1. Listed(t, id) = Listed(s, id)
      BY <1>1, <2>2, <2>3, <2>4 DEF Listed, lists
    <3> QED BY <1>5, <2>4, <3>1 DEF t, ListedIs
  <2>5. CASE r.playlist = id
    <3>1. Listed(t, id) = {Update(o) : o \in Listed(s, id)}
      BY <1>1, <2>2, <2>3, <2>5 DEF Listed, lists
    <3>2. \A o \in Listed(s, id) : o \in Playlist
      BY <1>1, <2>3 DEF Listed, lists
    <3>3. Listed(t, id) = {} <=> Listed(s, id) = {}
      BY <3>1
    <3>4. \A p \in Listed(t, id) : \E o \in Listed(s, id) : p = Update(o)
      BY <3>1
    <3>5. CASE r.op = "rename_playlist"
      BY <2>2, <2>5, <3>2, <3>3, <3>4, <3>5 DEF t, ListedIs
    <3>6. CASE r.op = "add_track"
      BY <2>2, <2>5, <3>2, <3>3, <3>4, <3>6 DEF t, ListedIs
    <3>7. CASE r.op = "remove_track"
      <4>1. \A p \in Listed(t, id) : \E o \in Listed(s, id) :
              p.name = o.name /\ p.tracks = Without(o.tracks, {r.track})
        BY <2>2, <3>2, <3>4, <3>7
      <4> QED BY <2>5, <3>3, <3>7, <4>1 DEF t, ListedIs
    <3> QED BY <1>5, <3>5, <3>6, <3>7
  <2> QED BY <2>4, <2>5
<1> QED BY <1>1, <1>2, <1>3, <1>4, <1>5 DEF Request

\* An item that is carried out is visible, and it hides no item before it but
\* those about the same thing.
LEMMA ItemShows ==
  ASSUME NEW s \in Snapshot, NEW r, IsChange(r)
  PROVE  /\ Visible(Optimistic(s, r), r)
         /\ \A q : IsChange(q) /\ Visible(s, q) /\ ~Supersedes(r, q)
                  => Visible(Optimistic(s, r), q)
<1>1. r \in Request /\ r.op \notin {"import", "set_playback_mode"}
      /\ Optimistic(s, r) \in Snapshot
  BY OptimisticTyped DEF IsChange
<1>2. ASSUME NEW u \in Snapshot, NEW id, NEW p \in Listed(u, id)
      PROVE  p \in Playlist /\ p.tracks \in Seq(Tracks)
  <2>1. u.playlists \in Seq(Playlist)
    BY SnapshotTyped
  <2>2. PICK k \in DOMAIN u.playlists : p = u.playlists[k]
    BY DEF Listed, Range
  <2> QED BY <2>1, <2>2, ListsTyped
<1>3. Visible(Optimistic(s, r), r)
  <2> DEFINE id == r.playlist
             v == r.track
  <2>0. ListedIs(r, id, Listed(s, id), Listed(Optimistic(s, r), id))
    <3> HIDE DEF id
    <3> QED BY ListedAfter
  <2>1. CASE r.op \in {"add_favorite", "remove_favorite"}
    <3>1. Contains(Optimistic(s, r).favorites, v) <=> r.op = "add_favorite"
      <4>1. v = r.track
        OBVIOUS
      <4> HIDE DEF v
      <4> QED BY <2>1, <4>1, FavoritesShown
    <3> QED BY <2>1, <3>1 DEF Visible
  <2>2. CASE r.op \in {"create_playlist", "delete_playlist", "rename_playlist"}
    BY <2>0, <2>2 DEF Visible, ListedIs
  <2>3. CASE r.op \in {"add_track", "remove_track"}
    <3> SUFFICES ASSUME NEW p \in Listed(Optimistic(s, r), r.playlist)
                 PROVE  Contains(p.tracks, r.track) <=> r.op = "add_track"
      BY <2>3 DEF Visible
    <3>1. PICK o \in Listed(s, r.playlist) :
            p.tracks = IF r.op = "add_track" THEN AppendOnce(o.tracks, r.track)
                       ELSE Without(o.tracks, {r.track})
      BY <2>0, <2>3 DEF ListedIs
    <3>2. o.tracks \in Seq(Tracks) /\ r.track \in Tracks
      BY <1>1, <1>2, <2>3 DEF Request
    <3> QED BY <2>3, <3>1, <3>2, AppendOnceContains, WithoutKeeps
  <2> QED BY <1>1, <2>1, <2>2, <2>3 DEF Request
<1>4. ASSUME NEW q, IsChange(q), Visible(s, q), ~Supersedes(r, q)
      PROVE  Visible(Optimistic(s, r), q)
  <2> DEFINE id == q.playlist
             before == Listed(s, id)
             after == Listed(Optimistic(s, r), id)
  <2>0. ListedIs(r, id, before, after)
    <3> HIDE DEF id
    <3> QED BY ListedAfter
  <2>1. CASE q.op \in {"add_favorite", "remove_favorite"}
    BY <1>1, <1>4, <2>1, FavoritesShown DEF Visible, Supersedes
  <2>2. CASE q.op \in {"create_playlist", "delete_playlist"}
    BY <1>1, <1>4, <2>2, <2>0 DEF Visible, Supersedes, Request, ListedIs
  <2>3. CASE q.op = "rename_playlist"
    <3> SUFFICES ASSUME NEW p \in after
                 PROVE  p.name = q.name
      BY <2>3 DEF Visible
    <3>1. \A o \in before : o.name = q.name
      BY <1>4, <2>3 DEF Visible
    <3>2. ~(r.op \in {"create_playlist", "rename_playlist"} /\ r.playlist = id)
      BY <1>4, <2>3 DEF Supersedes
    <3> QED BY <1>1, <3>1, <3>2, <2>0 DEF Request, ListedIs
  <2>4. CASE q.op \in {"add_track", "remove_track"}
    <3> SUFFICES ASSUME NEW p \in after
                 PROVE  Contains(p.tracks, q.track) <=> q.op = "add_track"
      BY <2>4 DEF Visible
    <3>1. \A o \in before :
            Contains(o.tracks, q.track) <=> q.op = "add_track"
      BY <1>4, <2>4 DEF Visible
    <3>2. /\ ~(r.op = "create_playlist" /\ q.op = "add_track" /\ r.playlist = id)
          /\ ~(/\ r.op \in {"add_track", "remove_track"}
               /\ r.playlist = id /\ r.track = q.track)
      BY <1>4, <2>4 DEF Supersedes
    <3>3. CASE p \in before
      BY <3>1, <3>3
    <3>4. CASE p \notin before
      <4>1. r.op \notin {"add_favorite", "remove_favorite", "delete_playlist"}
            /\ r.playlist = id
        BY <3>4, <2>0 DEF ListedIs
      <4>2. CASE r.op = "create_playlist"
        <5>1. p.tracks = <<>> /\ q.op = "remove_track"
          BY <2>4, <3>2, <3>4, <4>1, <4>2, <2>0 DEF ListedIs
        <5> QED BY <5>1 DEF Contains
      <4>3. CASE r.op = "rename_playlist"
        BY <3>1, <4>1, <4>3, <2>0 DEF ListedIs
      <4>4. CASE r.op \in {"add_track", "remove_track"}
        <5>1. PICK o \in before :
                p.tracks = IF r.op = "add_track" THEN AppendOnce(o.tracks, r.track)
                           ELSE Without(o.tracks, {r.track})
          BY <4>1, <4>4, <2>0 DEF ListedIs
        <5>2. o.tracks \in Seq(Tracks) /\ r.track \in Tracks /\ r.track # q.track
          BY <1>1, <1>2, <3>2, <4>1, <4>4 DEF Request
        <5>3. Contains(p.tracks, q.track) <=> Contains(o.tracks, q.track)
          BY <4>4, <5>1, <5>2, AppendOnceContains, WithoutKeeps
        <5> QED BY <3>1, <5>3
      <4> QED BY <1>1, <4>1, <4>2, <4>3, <4>4 DEF Request
    <3> QED BY <3>3, <3>4
  <2> QED BY <1>4, <2>1, <2>2, <2>3, <2>4 DEF IsChange, Request
<1> QED BY <1>3, <1>4

-----------------------------------------------------------------------------
\* One more change is carried out and queued.
LEMMA AppendShows ==
  ASSUME NEW s \in Snapshot, NEW outbox \in Seq(Changes), NEW r \in Changes,
         AllVisible(s, outbox)
  PROVE  AllVisible(Optimistic(s, r), Append(outbox, r))
<1> DEFINE n == Len(outbox)
           more == Append(outbox, r)
<1>1. /\ n \in Nat /\ DOMAIN outbox = 1..n /\ DOMAIN more = 1..n + 1
      /\ \A i \in 1..n : more[i] = outbox[i] /\ outbox[i] \in Changes
      /\ more[n + 1] = r
  BY LenProperties, AppendProperties, ElementOfSeq
<1> HIDE DEF n, more
<1> SUFFICES ASSUME NEW i \in 1..n + 1
             PROVE  \/ Visible(Optimistic(s, r), more[i])
                    \/ \E j \in 1..n + 1 : i < j /\ Supersedes(more[j], more[i])
  BY <1>1 DEF AllVisible, more
<1>2. IsChange(r)
  BY ChangesAreChanges
<1>3. CASE i = n + 1
  BY <1>1, <1>2, <1>3, ItemShows
<1>4. CASE i \in 1..n
  <2>1. PICK q : q = outbox[i]
    OBVIOUS
  <2>2. more[i] = q /\ IsChange(q) /\ i < n + 1 /\ n + 1 \in 1..n + 1
    BY <1>1, <1>4, <2>1, ChangesAreChanges
  <2>3. CASE Visible(s, q)
    <3>1. Visible(Optimistic(s, r), q) \/ Supersedes(r, q)
      BY <1>2, <2>2, <2>3, ItemShows
    <3> QED BY <1>1, <2>2, <3>1
  <2>4. CASE \E j \in 1..n : i < j /\ Supersedes(outbox[j], q)
    BY <1>1, <2>2, <2>4
  <2> QED BY <1>1, <1>4, <2>1, <2>3, <2>4 DEF AllVisible
<1> QED BY <1>1, <1>3, <1>4

\* The head of the outbox is dropped: what supersedes an item stays behind it.
LEMMA TailShows ==
  ASSUME NEW s, NEW outbox \in Seq(Changes), outbox # <<>>, AllVisible(s, outbox)
  PROVE  AllVisible(s, Tail(outbox))
<1> DEFINE rest == Tail(outbox)
<1>1. /\ Len(outbox) \in Nat \ {0} /\ DOMAIN outbox = 1..Len(outbox)
      /\ DOMAIN rest = 1..Len(outbox) - 1
      /\ \A i \in 1..Len(outbox) - 1 : rest[i] = outbox[i + 1]
  OBVIOUS
<1> HIDE DEF rest
<1> SUFFICES ASSUME NEW i \in DOMAIN rest
             PROVE  \/ Visible(s, rest[i])
                    \/ \E j \in DOMAIN rest : i < j /\ Supersedes(rest[j], rest[i])
  BY DEF AllVisible, rest
<1>2. i + 1 \in DOMAIN outbox /\ rest[i] = outbox[i + 1]
  BY <1>1
<1>3. ASSUME NEW j \in DOMAIN outbox, i + 1 < j, Supersedes(outbox[j], outbox[i + 1])
      PROVE  \E k \in DOMAIN rest : i < k /\ Supersedes(rest[k], rest[i])
  <2>1. j - 1 \in DOMAIN rest /\ i < j - 1 /\ (j - 1) + 1 = j
    BY <1>1, <1>3
  <2>2. rest[j - 1] = outbox[j]
    BY <1>1, <2>1
  <2> QED BY <1>2, <1>3, <2>1, <2>2
<1> QED BY <1>2, <1>3 DEF AllVisible

\* The outbox is laid over what was fetched.
LEMMA OutboxShows ==
  ASSUME NEW s \in Snapshot, NEW outbox \in Seq(Changes)
  PROVE  AllVisible(ApplyOutbox(s, outbox), outbox)
<1> DEFINE n == Len(outbox)
           part(k) == SubSeq(outbox, 1, k)
<1>1. n \in Nat /\ DOMAIN outbox = 1..n /\ \A k \in 1..n : outbox[k] \in Changes
  BY LenProperties, ElementOfSeq
<1>2. part(0) = <<>> /\ part(n) = outbox
  BY <1>1
<1>3. \A k \in 1..n : part(k - 1) \in Seq(Changes)
                      /\ part(k) = Append(part(k - 1), outbox[k])
  BY PrefixGrows
<1> HIDE DEF n
<1>4. PICK run : IsRun("optimistic", {}, s, outbox, n, run)
  BY <1>1, FoldRun
<1>5. /\ run[0] = s
      /\ \A k \in 1..n : run[k] = Optimistic(run[k - 1], outbox[k])
      /\ ApplyOutbox(s, outbox) = run[n]
  BY <1>4, FoldsAreFolded DEF IsRun, FoldStep
<1> HIDE DEF part
<1> DEFINE S == {k \in 0..n : run[k] \in Snapshot /\ AllVisible(run[k], part(k))}
<1>6. 0 \in S
  <2>1. AllVisible(s, part(0))
    BY <1>2 DEF AllVisible
  <2> QED BY <1>1, <1>5, <2>1
<1>7. ASSUME NEW k \in 0..n - 1, k \in S PROVE k + 1 \in S
  <2>1. k + 1 \in 1..n /\ (k + 1) - 1 = k /\ k + 1 \in 0..n
    BY <1>1
  <2>2. /\ run[k] \in Snapshot /\ AllVisible(run[k], part(k))
        /\ run[k + 1] = Optimistic(run[k], outbox[k + 1])
        /\ part(k) \in Seq(Changes) /\ part(k + 1) = Append(part(k), outbox[k + 1])
        /\ outbox[k + 1] \in Changes
    BY <1>1, <1>3, <1>5, <1>7, <2>1
  <2>3. run[k + 1] \in Snapshot
    BY <2>2, ChangesAreChanges, OptimisticTyped
  <2>4. AllVisible(run[k + 1], part(k + 1))
    BY <2>2, AppendShows
  <2> QED BY <2>1, <2>3, <2>4
<1>8. n \in S
  <2> HIDE DEF S
  <2> QED BY <1>1, <1>6, <1>7, HoldsUpTo
<1> QED BY <1>2, <1>5, <1>8

-----------------------------------------------------------------------------
VisibleInv == TypeInv /\ PendingStaysVisible

\* The cache of one account is replaced, and what is pending in it is visible.
LEMMA SavedShows ==
  ASSUME VisibleInv, NEW caches \in [Scopes -> CacheType],
         \A a \in Accounts : AllVisible(caches[a].snapshot, caches[a].outbox),
         NEW s \in Scopes, NEW new,
         s \in Accounts => AllVisible(new.snapshot, new.outbox),
         cache' = [caches EXCEPT ![s] = new]
  PROVE  PendingStaysVisible'
<1>1. \A a \in Accounts : cache'[a] = IF a = s THEN new ELSE caches[a]
  BY DEF Scopes
<1> QED BY <1>1 DEF PendingStaysVisible

\* A load leaves what is pending visible: nothing is, in the cache it fills.
LEMMA LoadShows ==
  ASSUME VisibleInv, NEW s \in Scopes
  PROVE  /\ Loaded(s) \in [Scopes -> CacheType]
         /\ \A a \in Accounts : AllVisible(Loaded(s)[a].snapshot, Loaded(s)[a].outbox)
<1>1. cache \in [Scopes -> CacheType]
  BY DEF VisibleInv, TypeInv, DataTyped
<1>2. Loaded(s) \in [Scopes -> CacheType]
  BY <1>1, LoadedTyped
<1>3. ASSUME NEW a \in Accounts
      PROVE  AllVisible(Loaded(s)[a].snapshot, Loaded(s)[a].outbox)
  <2>1. Loaded(s)[a] = cache[a] \/ Loaded(s)[a].outbox = <<>>
    <3>1. CASE ~Claims(s)
      BY <3>1 DEF Loaded
    <3>2. CASE Claims(s)
      <4>1. a \in Scopes /\ a # Local
        BY SyncAssumption DEF Scopes
      <4>2. a # s => Loaded(s)[a] = cache[a]
        BY <1>1, <3>2, <4>1, LoadedFields
      <4>3. Loaded(s)[s].outbox = <<>>
        BY <1>1, <3>2 DEF Loaded
      <4> QED BY <4>2, <4>3
    <3> QED BY <3>1, <3>2
  <2> QED BY <2>1 DEF VisibleInv, PendingStaysVisible, AllVisible
<1> QED BY <1>2, <1>3

\* A change of the user.
LEMMA RunChangeShows ==
  ASSUME VisibleInv, RunChange
  PROVE  PendingStaysVisible'
<1> DEFINE caches == Loaded(active)
           before == caches[active]
           r == Head(queue).request
           after == Optimistic(before.snapshot, r)
           remote == active # Local
           items == IF remote THEN Append(before.outbox, r) ELSE before.outbox
           new == [before EXCEPT !.snapshot = after, !.outbox = items]
<1>1. /\ active \in Scopes /\ queue \in Seq(Operation)
      /\ r \in Changes
  <2>1. active \in Scopes /\ queue \in Seq(Operation)
    BY DEF VisibleInv, TypeInv, ScreenInv, DeviceOK
  <2>2. Head(queue) \in Operation /\ Head(queue).kind = "change"
    BY <2>1, TailAt DEF RunChange, NextChange, NextOp
  <2> QED BY <2>1, <2>2 DEF Operation
<1>2. /\ caches \in [Scopes -> CacheType]
      /\ \A a \in Accounts : AllVisible(caches[a].snapshot, caches[a].outbox)
  BY <1>1, LoadShows
<1>3. before \in CacheType
  <2> HIDE DEF caches
  <2> QED BY <1>1, <1>2
<1>4. CASE after = before.snapshot
  <2>1. cache' = caches
    BY <1>4 DEF RunChange
  <2> QED BY <1>2, <2>1 DEF PendingStaysVisible
<1>5. CASE after # before.snapshot
  <2>1. cache' = [caches EXCEPT ![active] = new]
    BY <1>5 DEF RunChange, Commit
  <2>2. new.snapshot = after /\ new.outbox = items
    <3> HIDE DEF before, after, items
    <3> QED BY <1>3 DEF CacheType
  <2>3. ASSUME active \in Accounts PROVE AllVisible(new.snapshot, new.outbox)
    <3>1. remote /\ AllVisible(before.snapshot, before.outbox)
      BY <1>2, <2>3, SyncAssumption
    <3>2. before.snapshot \in Snapshot /\ before.outbox \in Seq(Changes)
      <4> HIDE DEF before
      <4> QED BY <1>3, CacheFields
    <3>3. items = Append(before.outbox, r)
      BY <3>1
    <3> HIDE DEF new, before, r, items
    <3> QED BY <1>1, <2>2, <3>1, <3>2, <3>3, AppendShows
  <2> HIDE DEF caches, new
  <2> QED BY <1>1, <1>2, <2>1, <2>3, SavedShows
<1> QED BY <1>4, <1>5

\* An exchange with the server.
LEMMA SavingShows ==
  ASSUME VisibleInv, Import \/ Fetch \/ Push \/ PushUnauthorized
  PROVE  PendingStaysVisible'
<1> DEFINE s == sync.scope
           c == cache[s]
<1>1. sync.step \in Steps
  BY DEF Import, Fetch, Push, PushUnauthorized, Steps
<1>2. /\ s \in Scopes /\ s \in Accounts /\ c \in CacheType /\ Outbox \in Seq(Changes)
      /\ cache \in [Scopes -> CacheType] /\ c.outbox = Outbox
      /\ \A a \in Accounts : AllVisible(cache[a].snapshot, cache[a].outbox)
      /\ c.snapshot \in Snapshot
      /\ Authorized => SnapshotOf(server[session]) \in Snapshot
  BY <1>1, RunningTyped, CacheFields
     DEF VisibleInv, TypeInv, DataTyped, Outbox, PendingStaysVisible
<1>3. CASE UNCHANGED cache
  BY <1>3 DEF VisibleInv, PendingStaysVisible
<1>4. ASSUME NEW new, AllVisible(new.snapshot, new.outbox),
             cache' = [cache EXCEPT ![s] = new]
      PROVE  PendingStaysVisible'
  <2> HIDE DEF s
  <2> QED BY <1>2, <1>4, SavedShows
<1>5. CASE Import
  <2> DEFINE new == [c EXCEPT !.legacy = EmptySnapshot]
  <2>1. cache' = [cache EXCEPT ![s] = new] \/ UNCHANGED cache
    BY <1>5 DEF Import, Save, Commit
  <2>2. new.snapshot = c.snapshot /\ new.outbox = c.outbox
    <3> HIDE DEF c
    <3> QED BY <1>2 DEF CacheType
  <2>3. AllVisible(new.snapshot, new.outbox)
    BY <1>2, <2>2
  <2> HIDE DEF new
  <2> QED BY <1>3, <1>4, <2>1, <2>3
<1>6. CASE Fetch
  <2> DEFINE fetched == ApplyOutbox(SnapshotOf(server[session]), Outbox)
             new == [c EXCEPT !.snapshot = fetched]
  <2>1. cache' = [cache EXCEPT ![s] = new] /\ Authorized
    BY <1>6 DEF Fetch, Save, Commit
  <2>2. AllVisible(fetched, Outbox)
    BY <1>2, <2>1, OutboxShows
  <2>3. new.snapshot = fetched /\ new.outbox = c.outbox
    <3> HIDE DEF c, fetched
    <3> QED BY <1>2 DEF CacheType
  <2>4. AllVisible(new.snapshot, new.outbox)
    BY <1>2, <2>2, <2>3
  <2> HIDE DEF new
  <2> QED BY <1>4, <2>1, <2>4
<1>7. CASE Push \/ PushUnauthorized
  <2> DEFINE new == [c EXCEPT !.outbox = Tail(@)]
  <2>1. /\ cache' = [cache EXCEPT ![s] = new] \/ UNCHANGED cache
        /\ sync.step = "push"
    BY <1>7 DEF Push, PushUnauthorized, Save, Commit, cacheVars
  <2>2. new.snapshot = c.snapshot /\ new.outbox = Tail(c.outbox)
    <3> HIDE DEF c
    <3> QED BY <1>2 DEF CacheType
  <2>3. AllVisible(c.snapshot, Tail(c.outbox))
    <3>1. c.outbox # <<>> /\ AllVisible(c.snapshot, c.outbox)
      BY <1>2, <2>1 DEF VisibleInv, TypeInv, PushHasItem
    <3> HIDE DEF c
    <3> QED BY <1>2, <3>1, TailShows
  <2>4. AllVisible(new.snapshot, new.outbox)
    BY <2>2, <2>3
  <2> HIDE DEF new
  <2> QED BY <1>3, <1>4, <2>1, <2>4
<1> QED BY <1>5, <1>6, <1>7

\* Nothing pending is hidden by any step.
LEMMA VisibleNext == VisibleInv /\ [Next]_vars => VisibleInv'
<1> SUFFICES ASSUME VisibleInv, [Next]_vars PROVE VisibleInv'
  OBVIOUS
<1>1. TypeInv'
  BY TypeNext DEF VisibleInv
<1>2. CASE UNCHANGED cache
  BY <1>1, <1>2 DEF VisibleInv, PendingStaysVisible
<1>3. CASE RunChange
  BY <1>1, <1>3, RunChangeShows DEF VisibleInv
<1>4. CASE Import \/ Fetch \/ Push \/ PushUnauthorized
  BY <1>1, <1>4, SavingShows DEF VisibleInv
<1>5. CASE BuildLoads \/ RunLoad
  <2>1. \E s \in Scopes : cache' = Loaded(s)
    <3>1. opening.scope \in Scopes /\ queue \in Seq(Operation)
      BY DEF VisibleInv, TypeInv, ScreenInv, DeviceOK
    <3>2. CASE BuildLoads
      BY <3>1, <3>2 DEF BuildLoads
    <3>3. CASE RunLoad
      <4>1. Head(queue) \in Operation /\ Head(queue).kind = "load"
        BY <3>1, <3>3, TailAt DEF RunLoad, NextOp
      <4>2. Head(queue).scope \in Scopes
        BY <4>1 DEF Operation
      <4> QED BY <3>3, <4>2 DEF RunLoad
    <3> QED BY <1>5, <3>2, <3>3
  <2>2. PendingStaysVisible'
    BY <2>1, LoadShows DEF PendingStaysVisible
  <2> QED BY <1>1, <2>2 DEF VisibleInv
<1>6. CASE CrashInClaim
  <2>1. \A a \in Accounts : cache'[a] = cache[a]
    BY <1>6, SyncAssumption DEF CrashInClaim, VisibleInv, TypeInv, DataTyped, Scopes
  <2>2. PendingStaysVisible'
    BY <2>1 DEF VisibleInv, PendingStaysVisible
  <2> QED BY <1>1, <2>2 DEF VisibleInv
<1> QED BY <1>2, <1>3, <1>4, <1>5, <1>6
        DEF Next, SyncSteps, vars, Tap, Switch, Resume, Crash, BuildReturns,
            RunSync, LoseRequest, LoseAnswer, FetchUnauthorized, OtherDevice,
            Expire, cacheVars

\* Whatever fetches bring in, other devices change, is refused, lost or
\* interrupted, and whatever accounts are switched: in the cache of every
\* account the last pending change about each favorite, playlist, name and
\* track in a playlist is what is shown (_applyOutbox after every fetch).
THEOREM PendingAlwaysVisible == Spec => []PendingStaysVisible
<1>1. Init => VisibleInv
  <2> SUFFICES ASSUME Init PROVE PendingStaysVisible
    BY TypeInit DEF VisibleInv
  <2> QED BY DEF Init, PendingStaysVisible, AllVisible, EmptyCache, Scopes
<1>2. VisibleInv => PendingStaysVisible
  BY DEF VisibleInv
<1> QED BY <1>1, <1>2, VisibleNext, PTL DEF Spec

-----------------------------------------------------------------------------
\* Where the local collections go when a step changes them.
HandsOver == cache'[Local] # cache[Local] =>
               \/ RunChange /\ active = Local
               \/ owner' # Local /\ cache'[owner'].legacy = cache[Local].snapshot
               \/ CrashInClaim

\* A load changes the local collections only when it hands them over.
LEMMA LoadHandsOver ==
  ASSUME TypeInv, NEW s \in Scopes, Claim(s), Loaded(s)[Local] # cache[Local]
  PROVE  /\ owner' = s /\ s # Local
         /\ Loaded(s)[s].legacy = cache[Local].snapshot
<1>1. Claims(s)
  BY DEF Loaded
<1> QED BY <1>1, LoadedFields DEF Claim, Claims, TypeInv, DataTyped

\* A change in an account, which the account's first load may precede.
LEMMA ChangeHandsOver ==
  ASSUME TypeInv, RunChange
  PROVE  HandsOver
<1> SUFFICES ASSUME active # Local, cache'[Local] # cache[Local]
             PROVE  owner' # Local /\ cache'[owner'].legacy = cache[Local].snapshot
  BY DEF HandsOver
<1> DEFINE caches == Loaded(active)
           before == caches[active]
           r == Head(queue).request
           after == Optimistic(before.snapshot, r)
           items == IF active # Local THEN Append(before.outbox, r) ELSE before.outbox
           new == [before EXCEPT !.snapshot = after, !.outbox = items]
<1>1. /\ active \in Scopes /\ Local \in Scopes /\ Claim(active)
      /\ caches \in [Scopes -> CacheType]
      /\ cache' = caches \/ cache' = [caches EXCEPT ![active] = new]
  BY LoadedTyped DEF TypeInv, ScreenInv, DeviceOK, DataTyped, Scopes, RunChange,
                     Commit
<1>2. new.legacy = before.legacy
  <2>1. before \in CacheType
    <3> HIDE DEF caches
    <3> QED BY <1>1
  <2> HIDE DEF before, after, items
  <2> QED BY <2>1 DEF CacheType
<1> HIDE DEF new
<1>3. cache'[Local] = caches[Local] /\ cache'[active].legacy = before.legacy
  <2> HIDE DEF caches
  <2> QED BY <1>1, <1>2
<1> QED BY <1>1, <1>3, LoadHandsOver

\* The first account that is loaded on the device takes over the collections
\* made without one, and keeps them for its import: unless the app ends between
\* the writes of that load, no step makes them disappear from the local scope
\* in any other way (the repository's load; "migrates legacy data once").
THEOREM LocalCollectionsAreKept == Spec => LocalIsHandedOver
<1>1. TypeInv /\ [Next]_vars => [HandsOver]_vars
  <2> SUFFICES ASSUME TypeInv, Next PROVE HandsOver
    OBVIOUS
  <2>1. CASE BuildLoads
    <3>1. opening.scope \in Scopes
      BY DEF TypeInv, ScreenInv, DeviceOK
    <3> QED BY <2>1, <3>1, LoadHandsOver DEF BuildLoads, HandsOver
  <2>2. CASE RunLoad
    <3>1. Head(queue) \in Operation /\ Head(queue).kind = "load"
      BY <2>2, TailAt DEF RunLoad, NextOp, TypeInv, ScreenInv, DeviceOK
    <3>2. Head(queue).scope \in Scopes
      BY <3>1 DEF Operation
    <3> QED BY <2>2, <3>2, LoadHandsOver DEF RunLoad, HandsOver
  <2>3. CASE RunChange
    BY <2>3, ChangeHandsOver
  <2>4. CASE Import \/ Fetch \/ Push \/ PushUnauthorized
    <3>1. sync.step \in Steps
      BY <2>4 DEF Import, Fetch, Push, PushUnauthorized, Steps
    <3>2. sync.scope \in Scopes /\ sync.scope # Local
      BY <3>1, RunningTyped, SyncAssumption
    <3>3. cache' = cache \/ \E new : cache' = [cache EXCEPT ![sync.scope] = new]
      BY <2>4 DEF Import, Fetch, Push, PushUnauthorized, Save, Commit, cacheVars
    <3> QED BY <3>2, <3>3 DEF HandsOver, TypeInv, DataTyped, Scopes
  <2>5. CASE CrashInClaim
    BY <2>5 DEF HandsOver
  <2> QED BY <2>1, <2>2, <2>3, <2>4, <2>5
          DEF Next, SyncSteps, Tap, Switch, Resume, Crash, BuildReturns, RunSync,
              LoseRequest, LoseAnswer, FetchUnauthorized, OtherDevice, Expire,
              cacheVars, HandsOver
<1> QED BY <1>1, TypeInvariance, PTL DEF Spec, LocalIsHandedOver, HandsOver

-----------------------------------------------------------------------------
(***************************************************************************)
(* Lists stay below their limits as long as the user makes fewer changes   *)
(* than they hold: no list is longer than the number of changes made, and  *)
(* a change that waits has not been carried out.                           *)
(***************************************************************************)

\* No list has more than n entries.
Small(snapshot, n) ==
  /\ Len(snapshot.favorites) <= n
  /\ Len(snapshot.playlists) <= n
  /\ \A i \in DOMAIN snapshot.playlists : Len(snapshot.playlists[i].tracks) <= n

AllSmall(caches, n) == \A s \in Scopes : Small(caches[s].snapshot, n)

\* f[i] bounds the lists once the first i operations of the queue q have run.
Bounds(f, q, n, caches) ==
  /\ \A i, j \in 0..Len(q) : i <= j => f[i] <= f[j]
  /\ \A i \in 1..Len(q) : q[i].kind = "change" => f[i - 1] < f[i]
  /\ f[Len(q)] <= n
  /\ AllSmall(caches, f[0])

Fits(q, n, caches) == \E f \in [0..Len(q) -> Nat] : Bounds(f, q, n, caches)

\* A list without some of its values is not longer.
LEMMA WithoutIsShorter ==
  ASSUME NEW T, NEW values \in Seq(T), NEW gone
  PROVE  /\ Without(values, gone) \in Seq(T)
         /\ Len(Without(values, gone)) <= Len(values)
<1> DEFINE n == Len(values)
<1>1. n \in Nat /\ DOMAIN values = 1..n /\ \A i \in 1..n : values[i] \in T
  BY LenProperties, ElementOfSeq
<1> HIDE DEF n
<1>2. PICK run : IsRun("keep", gone, <<>>, values, n, run)
  BY <1>1, FoldRun
<1>3. /\ run[0] = <<>>
      /\ \A k \in 1..n :
           run[k] = IF values[k] \in gone THEN run[k - 1]
                    ELSE Append(run[k - 1], values[k])
      /\ Without(values, gone) = run[n]
  BY <1>2, FoldsAreFolded DEF IsRun, FoldStep, KeepUnless
<1> DEFINE S == {k \in 0..n : run[k] \in Seq(T) /\ Len(run[k]) <= k}
<1>4. 0 \in S
  <2>1. run[0] \in Seq(T) /\ Len(run[0]) = 0 /\ 0 \in 0..n
    <3>1. <<>> \in Seq(T) /\ Len(<<>>) = 0
      OBVIOUS
    <3> QED BY <1>1, <1>3, <3>1
  <2> QED BY <2>1
<1>5. ASSUME NEW k \in 0..n - 1, k \in S PROVE k + 1 \in S
  <2>1. k + 1 \in 1..n /\ (k + 1) - 1 = k /\ k + 1 \in 0..n /\ k \in Nat
    BY <1>1
  <2>2. /\ run[k] \in Seq(T) /\ Len(run[k]) <= k /\ values[k + 1] \in T
        /\ run[k + 1] = run[k] \/ run[k + 1] = Append(run[k], values[k + 1])
    BY <1>1, <1>3, <1>5, <2>1
  <2>3. ASSUME NEW u \in Seq(T), NEW v \in T, Len(u) <= k
        PROVE  /\ Len(u) <= k + 1
               /\ Append(u, v) \in Seq(T) /\ Len(Append(u, v)) <= k + 1
    BY <2>1, <2>3
  <2>4. run[k + 1] \in Seq(T) /\ Len(run[k + 1]) <= k + 1
    BY <2>2, <2>3
  <2> QED BY <2>1, <2>4
<1>6. n \in S
  <2> HIDE DEF S
  <2> QED BY <1>1, <1>4, <1>5, HoldsUpTo
<1> QED BY <1>3, <1>6 DEF n

\* A list to which a value is added once is longer by one at most.
LEMMA AppendOnceIsLonger ==
  ASSUME NEW T, NEW s \in Seq(T), NEW x \in T
  PROVE  /\ AppendOnce(s, x) \in Seq(T)
         /\ Len(AppendOnce(s, x)) <= Len(s) + 1
<1>1. Len(s) \in Nat
  BY LenProperties
<1> QED BY <1>1 DEF AppendOnce

\* A change makes no list longer than by one.
LEMMA ChangeAddsOne ==
  ASSUME NEW s \in Snapshot, NEW r, IsChange(r), NEW n \in Nat, Small(s, n)
  PROVE  Small(Optimistic(s, r), n + 1)
<1> DEFINE lists == s.playlists
           t == Optimistic(s, r)
<1>1. /\ s.favorites \in Seq(Tracks) /\ lists \in Seq(Playlist)
      /\ Len(s.favorites) \in Nat /\ Len(lists) \in Nat
      /\ DOMAIN lists = 1..Len(lists)
      /\ \A k \in DOMAIN lists :
           lists[k] \in Playlist /\ lists[k].tracks \in Seq(Tracks)
      /\ r \in Request /\ r.op \notin {"import", "set_playback_mode"}
  BY SnapshotTyped, ListsTyped, LenProperties DEF IsChange
<1>2. \A k \in DOMAIN lists : Len(lists[k].tracks) \in Nat
  BY <1>1, LenProperties
<1>3. /\ Len(s.favorites) <= n /\ Len(lists) <= n
      /\ \A k \in DOMAIN lists : Len(lists[k].tracks) <= n
  BY DEF Small
<1>4. CASE r.op \in {"add_favorite", "remove_favorite"}
  <2>1. r.op = "add_favorite" => r.track \in Tracks
    BY <1>1 DEF Request
  <2>2. /\ t.playlists = lists
        /\ t.favorites = IF r.op = "add_favorite" THEN AppendOnce(s.favorites, r.track)
                         ELSE Without(s.favorites, {r.track})
    BY <1>4 DEF Optimistic, Snapshot
  <2>3. Len(t.favorites) <= n + 1
    <3>1. CASE r.op = "add_favorite"
      <4>1. /\ AppendOnce(s.favorites, r.track) \in Seq(Tracks)
            /\ Len(AppendOnce(s.favorites, r.track)) <= Len(s.favorites) + 1
        BY <1>1, <2>1, <3>1, AppendOnceIsLonger
      <4>2. Len(AppendOnce(s.favorites, r.track)) \in Nat
        BY <4>1, LenProperties
      <4> QED BY <1>1, <1>3, <2>2, <3>1, <4>1, <4>2
    <3>2. CASE r.op = "remove_favorite"
      <4>1. /\ Without(s.favorites, {r.track}) \in Seq(Tracks)
            /\ Len(Without(s.favorites, {r.track})) <= Len(s.favorites)
        BY <1>1, WithoutIsShorter
      <4>2. Len(Without(s.favorites, {r.track})) \in Nat
        BY <4>1, LenProperties
      <4> QED BY <1>1, <1>3, <2>2, <3>2, <4>1, <4>2
    <3> QED BY <1>4, <3>1, <3>2
  <2>4. Len(t.playlists) <= n + 1
    BY <1>1, <1>3, <2>2
  <2>5. ASSUME NEW k \in DOMAIN t.playlists
        PROVE  Len(t.playlists[k].tracks) <= n + 1
    <3>1. k \in DOMAIN lists /\ t.playlists[k] = lists[k]
      BY <2>2
    <3>2. Len(lists[k].tracks) \in Nat /\ Len(lists[k].tracks) <= n
      BY <1>2, <1>3, <3>1
    <3> QED BY <3>1, <3>2
  <2> HIDE DEF t
  <2>6. Small(t, n + 1)
    BY <2>3, <2>4, <2>5 DEF Small
  <2> QED BY <2>6 DEF t
<1>5. CASE r.op = "create_playlist"
  <2> DEFINE p == [id |-> r.playlist, name |-> r.name, tracks |-> <<>>]
  <2>1. t = s \/ (t.favorites = s.favorites /\ t.playlists = Append(lists, p))
    BY <1>5 DEF Optimistic, Snapshot
  <2>2. p.tracks = <<>> /\ Len(<<>>) = 0
    OBVIOUS
  <2> HIDE DEF p, t
  <2>3. CASE t = s
    BY <1>1, <1>2, <1>3, <2>3 DEF Small, t
  <2>4. CASE t.favorites = s.favorites /\ t.playlists = Append(lists, p)
    <3>1. /\ Len(t.playlists) = Len(lists) + 1
          /\ DOMAIN t.playlists = 1..Len(lists) + 1
          /\ \A k \in 1..Len(lists) : t.playlists[k] = lists[k]
          /\ t.playlists[Len(lists) + 1] = p
      BY <1>1, <2>4
    <3>2. ASSUME NEW k \in DOMAIN t.playlists
          PROVE  Len(t.playlists[k].tracks) <= n + 1
      <4>1. CASE k = Len(lists) + 1
        BY <2>2, <3>1, <4>1
      <4>2. CASE k \in 1..Len(lists)
        <5>1. k \in DOMAIN lists /\ t.playlists[k] = lists[k]
          BY <1>1, <3>1, <4>2
        <5>2. Len(lists[k].tracks) \in Nat /\ Len(lists[k].tracks) <= n
          BY <1>2, <1>3, <5>1
        <5> QED BY <5>1, <5>2
      <4> QED BY <1>1, <3>1, <4>1, <4>2
    <3> QED BY <1>1, <1>3, <2>4, <3>1, <3>2 DEF Small, t
  <2> QED BY <2>1, <2>3, <2>4
<1>6. CASE r.op = "delete_playlist"
  <2> DEFINE new == Without(lists, {p \in Range(lists) : p.id = r.playlist})
  <2>1. t.favorites = s.favorites /\ t.playlists = new
    BY <1>6 DEF Optimistic, Snapshot
  <2>2. new \in Seq(Playlist) /\ Len(new) <= Len(lists)
    BY <1>1, WithoutIsShorter
  <2>3. ASSUME NEW k \in DOMAIN new PROVE Len(new[k].tracks) <= n
    <3>1. Contains(new, new[k]) <=>
            /\ Contains(lists, new[k])
            /\ new[k] \notin {p \in Range(lists) : p.id = r.playlist}
      BY <1>1, WithoutKeeps
    <3> HIDE DEF new
    <3>2. Contains(new, new[k])
      BY <2>2, <2>3 DEF Contains
    <3>3. PICK i \in DOMAIN lists : lists[i] = new[k]
      BY <3>1, <3>2 DEF Contains
    <3> QED BY <1>3, <3>3
  <2> HIDE DEF new
  <2>4. DOMAIN new = 1..Len(new) /\ Len(new) \in Nat
    BY <2>2, LenProperties
  <2>5. \A k \in DOMAIN new : Len(new[k].tracks) \in Nat
    BY <2>2, <2>4, ListsTyped, LenProperties
  <2> HIDE DEF t
  <2> QED BY <1>1, <1>3, <2>1, <2>2, <2>3, <2>4, <2>5 DEF Small, t
<1>7. CASE r.op \in {"rename_playlist", "add_track", "remove_track"}
  <2>1. t.favorites = s.favorites /\ DOMAIN t.playlists = DOMAIN lists
    BY <1>7 DEF Optimistic, UpdatePlaylist, Snapshot
  <2>2. ASSUME NEW k \in DOMAIN lists PROVE Len(t.playlists[k].tracks) <= n + 1
    <3> DEFINE old == lists[k].tracks
    <3>1. \/ t.playlists[k].tracks = old
          \/ r.op = "add_track" /\ t.playlists[k].tracks = AppendOnce(old, r.track)
          \/ t.playlists[k].tracks = Without(old, {r.track})
      <4>1. lists[k] \in [id : PlaylistIds, name : Names, tracks : Seq(Tracks)]
        BY <1>1, <2>2 DEF Playlist
      <4> HIDE DEF lists
      <4> QED BY <1>7, <2>2, <4>1 DEF Optimistic, UpdatePlaylist, Snapshot, lists
    <3>2. old \in Seq(Tracks) /\ Len(old) \in Nat /\ Len(old) <= n
      BY <1>1, <1>2, <1>3, <2>2
    <3>3. r.op = "add_track" => r.track \in Tracks
      BY <1>1 DEF Request
    <3> HIDE DEF old, t
    <3>4. ASSUME r.op = "add_track"
          PROVE  /\ Len(AppendOnce(old, r.track)) \in Nat
                 /\ Len(AppendOnce(old, r.track)) <= Len(old) + 1
      BY <3>2, <3>3, <3>4, AppendOnceIsLonger, LenProperties
    <3>5. /\ Len(Without(old, {r.track})) \in Nat
          /\ Len(Without(old, {r.track})) <= Len(old)
      BY <3>2, WithoutIsShorter, LenProperties
    <3> QED BY <3>1, <3>2, <3>4, <3>5
  <2>3. t \in Snapshot
    BY OptimisticTyped
  <2>4. t.playlists \in Seq(Playlist)
    BY <2>3, SnapshotTyped
  <2> HIDE DEF t
  <2>5. Len(t.playlists) = Len(lists)
    BY <1>1, <2>1, <2>4, LenProperties
  <2> QED BY <1>1, <1>3, <2>1, <2>2, <2>5 DEF Small, t
<1> QED BY <1>1, <1>4, <1>5, <1>6, <1>7 DEF Request

\* One more operation waits, and is counted if it is a change.
LEMMA QueuedFits ==
  ASSUME NEW q \in Seq(Operation), NEW caches, NEW n \in Nat, Fits(q, n, caches),
         NEW op \in Operation, NEW m \in Nat, n <= m, op.kind = "change" => n < m
  PROVE  Fits(Append(q, op), m, caches)
<1> DEFINE more == Append(q, op)
           k == Len(q)
<1>1. /\ k \in Nat /\ Len(more) = k + 1
      /\ \A i \in 1..k : more[i] = q[i]
      /\ more[k + 1] = op
  BY AppendedAt
<1>2. PICK f \in [0..k -> Nat] : Bounds(f, q, n, caches)
  BY DEF Fits
<1> DEFINE g == [i \in 0..k + 1 |-> IF i <= k THEN f[i] ELSE m]
<1>3. /\ g \in [0..k + 1 -> Nat] /\ g[k + 1] = m
      /\ \A i \in 0..k : g[i] = f[i] /\ f[i] \in Nat
  BY <1>1
<1>4. /\ f[k] <= n /\ AllSmall(caches, f[0])
      /\ \A i, j \in 0..k : i <= j => f[i] <= f[j]
      /\ \A i \in 1..k : q[i].kind = "change" => f[i - 1] < f[i]
  BY <1>2 DEF Bounds
<1> HIDE DEF g, k, more
<1>5. \A i \in 0..k : f[i] <= m
  BY <1>1, <1>3, <1>4
<1>6. \A i, j \in 0..k + 1 : i <= j => g[i] <= g[j]
  <2> SUFFICES ASSUME NEW i \in 0..k + 1, NEW j \in 0..k + 1, i <= j
               PROVE  g[i] <= g[j]
    OBVIOUS
  <2>1. CASE j = k + 1
    <3>1. i \in 0..k \/ i = k + 1
      BY <1>1
    <3> QED BY <1>3, <1>5, <2>1, <3>1
  <2>2. CASE j # k + 1
    <3>1. i \in 0..k /\ j \in 0..k
      BY <1>1, <2>2
    <3> QED BY <1>3, <1>4, <3>1
  <2> QED BY <2>1, <2>2
<1>7. \A i \in 1..k + 1 : more[i].kind = "change" => g[i - 1] < g[i]
  <2> SUFFICES ASSUME NEW i \in 1..k + 1, more[i].kind = "change"
               PROVE  g[i - 1] < g[i]
    OBVIOUS
  <2>1. CASE i = k + 1
    <3>1. i - 1 = k /\ k \in 0..k /\ n < m
      BY <1>1, <2>1
    <3> QED BY <1>3, <1>4, <2>1, <3>1
  <2>2. CASE i # k + 1
    <3>1. i \in 1..k /\ i - 1 \in 0..k /\ i \in 0..k
      BY <1>1, <2>2
    <3> QED BY <1>1, <1>3, <1>4, <3>1
  <2> QED BY <2>1, <2>2
<1>8. g[0] = f[0] /\ g[k + 1] <= m
  BY <1>1, <1>3
<1>9. Bounds(g, more, m, caches)
  BY <1>1, <1>4, <1>6, <1>7, <1>8 DEF Bounds
<1> QED BY <1>1, <1>3, <1>9 DEF Fits, more

\* The first operation is taken from the queue; a change that is carried out
\* makes lists longer by one at most.
LEMMA TakenFits ==
  ASSUME NEW q \in Seq(Operation), q # <<>>, NEW before, NEW after, NEW n \in Nat,
         Fits(q, n, before),
         \A k \in Nat : AllSmall(before, k) =>
           AllSmall(after, IF Head(q).kind = "change" THEN k + 1 ELSE k),
         \A j, k \in Nat : AllSmall(after, j) /\ j <= k => AllSmall(after, k)
  PROVE  Fits(Tail(q), n, after)
<1> DEFINE rest == Tail(q)
           k == Len(q)
<1>1. /\ k \in Nat \ {0} /\ Len(rest) = k - 1 /\ Head(q) = q[1]
      /\ \A i \in 1..k - 1 : rest[i] = q[i + 1]
  BY TailAt
<1>2. PICK f \in [0..k -> Nat] : Bounds(f, q, n, before)
  BY DEF Fits
<1> DEFINE g == [i \in 0..k - 1 |-> f[i + 1]]
<1>3. g \in [0..k - 1 -> Nat] /\ \A i \in 0..k - 1 : g[i] = f[i + 1]
  BY <1>1
<1>4. /\ f[k] <= n /\ AllSmall(before, f[0])
      /\ \A i, j \in 0..k : i <= j => f[i] <= f[j]
      /\ \A i \in 1..k : q[i].kind = "change" => f[i - 1] < f[i]
  BY <1>2 DEF Bounds
<1> HIDE DEF g, k, rest
<1>5. AllSmall(after, g[0])
  <2> DEFINE b == IF Head(q).kind = "change" THEN f[0] + 1 ELSE f[0]
  <2>1. /\ f[0] \in Nat /\ f[1] \in Nat /\ g[0] = f[1]
        /\ 1 \in 1..k /\ 0 \in 0..k /\ 1 \in 0..k
    BY <1>1, <1>3
  <2>2. b \in Nat /\ b <= f[1]
    <3>1. f[0] <= f[1]
      BY <1>4, <2>1
    <3>2. q[1].kind = "change" => f[0] < f[1]
      <4>1. 1 - 1 = 0
        OBVIOUS
      <4> QED BY <1>4, <2>1, <4>1
    <3> QED BY <1>1, <2>1, <3>1, <3>2
  <2>3. AllSmall(after, b)
    BY <1>4, <2>1
  <2> HIDE DEF b
  <2> QED BY <2>1, <2>2, <2>3
<1>6. \A i, j \in 0..k - 1 : i <= j => g[i] <= g[j]
  BY <1>1, <1>3, <1>4
<1>7. \A i \in 1..k - 1 : rest[i].kind = "change" => g[i - 1] < g[i]
  <2> SUFFICES ASSUME NEW i \in 1..k - 1, rest[i].kind = "change"
               PROVE  g[i - 1] < g[i]
    OBVIOUS
  <2>1. /\ i + 1 \in 1..k /\ i - 1 \in 0..k - 1 /\ i \in 0..k - 1
        /\ (i - 1) + 1 = i /\ (i + 1) - 1 = i
    BY <1>1
  <2>2. q[i + 1].kind = "change"
    BY <1>1
  <2>3. f[i] < f[i + 1]
    BY <1>4, <2>1, <2>2
  <2>4. g[i - 1] = f[i] /\ g[i] = f[i + 1]
    BY <1>3, <2>1
  <2> QED BY <2>3, <2>4
<1>8. g[k - 1] = f[k]
  BY <1>1, <1>3
<1>9. Bounds(g, rest, n, after)
  BY <1>1, <1>4, <1>5, <1>6, <1>7, <1>8 DEF Bounds
<1> QED BY <1>1, <1>3, <1>9 DEF Fits, rest

\* Everything that waited is gone.
LEMMA NothingWaitsFits ==
  ASSUME NEW q \in Seq(Operation), NEW before, NEW after, NEW n \in Nat,
         Fits(q, n, before),
         \A k \in Nat : AllSmall(before, k) => AllSmall(after, k)
  PROVE  Fits(<<>>, n, after)
<1>1. Len(q) \in Nat /\ Len(<<>>) = 0
  BY LenProperties
<1>2. PICK f \in [0..Len(q) -> Nat] : Bounds(f, q, n, before)
  BY DEF Fits
<1> DEFINE g == [i \in 0..0 |-> f[0]]
<1>3. f[0] \in Nat /\ f[Len(q)] \in Nat /\ f[0] <= n /\ AllSmall(before, f[0])
  BY <1>1, <1>2 DEF Bounds
<1>4. g \in [0..0 -> Nat] /\ g[0] = f[0]
  BY <1>3
<1> HIDE DEF g
<1>5. Bounds(g, <<>>, n, after)
  BY <1>1, <1>3, <1>4 DEF Bounds
<1> QED BY <1>1, <1>4, <1>5 DEF Fits

\* The lists are bounded by what was counted.
LEMMA FitsIsSmall ==
  ASSUME NEW q \in Seq(Operation), NEW caches, NEW n \in Nat, Fits(q, n, caches)
  PROVE  \E k \in 0..n : AllSmall(caches, k)
<1>1. Len(q) \in Nat
  BY LenProperties
<1>2. PICK f \in [0..Len(q) -> Nat] : Bounds(f, q, n, caches)
  BY DEF Fits
<1>3. f[0] \in Nat /\ f[Len(q)] \in Nat /\ f[0] <= n /\ AllSmall(caches, f[0])
  BY <1>1, <1>2 DEF Bounds
<1> QED BY <1>3

\* The collections are moved, and no list has become longer.
LEMMA RoomierFits ==
  ASSUME NEW q \in Seq(Operation), NEW before, NEW after, NEW n \in Nat,
         Fits(q, n, before),
         \A k \in Nat : AllSmall(before, k) => AllSmall(after, k)
  PROVE  Fits(q, n, after)
<1>1. Len(q) \in Nat
  BY LenProperties
<1>2. PICK f \in [0..Len(q) -> Nat] : Bounds(f, q, n, before)
  BY DEF Fits
<1>3. f[0] \in Nat
  BY <1>1, <1>2
<1> QED BY <1>2, <1>3 DEF Fits, Bounds

\* The same collections, kept with other outboxes.
LEMMA SameFits ==
  ASSUME NEW q, NEW n, NEW before, NEW after, Fits(q, n, before),
         \A s \in Scopes : after[s].snapshot = before[s].snapshot
  PROVE  Fits(q, n, after)
<1>1. \A k : AllSmall(before, k) => AllSmall(after, k)
  BY DEF AllSmall
<1> QED BY <1>1 DEF Fits, Bounds

\* A larger bound is a bound.
LEMMA SmallGrows ==
  ASSUME NEW caches \in [Scopes -> CacheType], NEW j \in Nat, NEW k \in Nat,
         AllSmall(caches, j), j <= k
  PROVE  AllSmall(caches, k)
<1> SUFFICES ASSUME NEW s \in Scopes PROVE Small(caches[s].snapshot, k)
  BY DEF AllSmall
<1>1. caches[s].snapshot \in Snapshot /\ Small(caches[s].snapshot, j)
  BY CacheFields DEF AllSmall
<1> DEFINE t == caches[s].snapshot
<1>2. /\ t.favorites \in Seq(Tracks) /\ t.playlists \in Seq(Playlist)
      /\ \A i \in DOMAIN t.playlists : t.playlists[i].tracks \in Seq(Tracks)
  BY <1>1, SnapshotTyped, ListsTyped
<1> HIDE DEF t
<1>3. /\ Len(t.favorites) \in Nat /\ Len(t.playlists) \in Nat
      /\ \A i \in DOMAIN t.playlists : Len(t.playlists[i].tracks) \in Nat
  BY <1>2, LenProperties
<1>4. Small(t, j)
  BY <1>1 DEF t
<1>5. Small(t, k)
  BY <1>3, <1>4 DEF Small
<1> QED BY <1>5 DEF t

\* A load moves the local collections, or leaves everything in its place.
LEMMA LoadedSmall ==
  ASSUME cache \in [Scopes -> CacheType], NEW s \in Scopes, NEW k \in Nat,
         AllSmall(cache, k)
  PROVE  AllSmall(Loaded(s), k)
<1>1. CASE ~Claims(s)
  BY <1>1 DEF Loaded
<1>2. CASE Claims(s)
  <2>1. Small(EmptyCache.snapshot, k)
    BY DEF Small, EmptyCache, EmptySnapshot
  <2>2. Local \in Scopes /\ Small(cache[Local].snapshot, k)
    BY DEF Scopes, AllSmall
  <2> QED BY <1>2, <2>1, <2>2, LoadedFields DEF AllSmall
<1> QED BY <1>1, <1>2

\* The user makes fewer changes than a list may have entries.
FewChanges ==
  /\ MaxChanges < MaxFavorites
  /\ MaxChanges < MaxPlaylists
  /\ MaxChanges < MaxPlaylistTracks

\* No list is full.
LEMMA FewChangesFit ==
  ASSUME FewChanges, NEW q \in Seq(Operation), NEW n \in 0..MaxChanges,
         NEW caches \in [Scopes -> CacheType], Fits(q, n, caches)
  PROVE  \A s \in Scopes : Room(caches[s].snapshot)
<1> SUFFICES ASSUME NEW s \in Scopes PROVE Room(caches[s].snapshot)
  OBVIOUS
<1>1. MaxChanges \in Nat /\ n \in Nat
  BY SyncAssumption
<1>2. AllSmall(caches, n)
  <2>1. PICK k \in 0..n : AllSmall(caches, k)
    BY <1>1, FitsIsSmall
  <2> QED BY <1>1, <2>1, SmallGrows
<1> DEFINE t == caches[s].snapshot
<1>3. t \in Snapshot /\ Small(t, n)
  BY <1>2, CacheFields DEF AllSmall
<1> HIDE DEF t
<1>4. /\ t.favorites \in Seq(Tracks) /\ t.playlists \in Seq(Playlist)
      /\ \A i \in DOMAIN t.playlists : t.playlists[i].tracks \in Seq(Tracks)
  BY <1>3, SnapshotTyped, ListsTyped
<1>5. /\ Len(t.favorites) \in Nat /\ Len(t.playlists) \in Nat
      /\ \A i \in DOMAIN t.playlists : Len(t.playlists[i].tracks) \in Nat
  BY <1>4, LenProperties
<1>6. Room(t)
  BY <1>1, <1>3, <1>5, LimitsAssumption DEF Room, Small, FewChanges
<1> QED BY <1>6 DEF t

SizesFit == Fits(queue, taps, cache)

\* A change that is carried out makes lists longer by one at most.
LEMMA RunChangeFits ==
  ASSUME TypeInv, SizesFit, RunChange
  PROVE  \A k \in Nat : AllSmall(cache, k) => AllSmall(cache', k + 1)
<1> SUFFICES ASSUME NEW k \in Nat, AllSmall(cache, k)
             PROVE  AllSmall(cache', k + 1)
  OBVIOUS
<1> DEFINE caches == Loaded(active)
           before == caches[active]
           r == Head(queue).request
           after == Optimistic(before.snapshot, r)
           items == IF active # Local THEN Append(before.outbox, r) ELSE before.outbox
           new == [before EXCEPT !.snapshot = after, !.outbox = items]
<1>1. /\ active \in Scopes /\ r \in Changes
      /\ cache \in [Scopes -> CacheType]
  <2>1. active \in Scopes /\ queue \in Seq(Operation)
    BY DEF TypeInv, ScreenInv, DeviceOK
  <2>2. Head(queue) \in Operation /\ Head(queue).kind = "change"
    BY <2>1, TailAt DEF RunChange, NextChange, NextOp
  <2> QED BY <2>1, <2>2 DEF Operation, TypeInv, DataTyped
<1>2. caches \in [Scopes -> CacheType] /\ AllSmall(caches, k)
  BY <1>1, LoadedTyped, LoadedSmall
<1>3. before \in CacheType /\ before.snapshot \in Snapshot /\ Small(before.snapshot, k)
  <2> HIDE DEF caches
  <2>1. before \in CacheType /\ Small(before.snapshot, k)
    BY <1>1, <1>2 DEF AllSmall
  <2> HIDE DEF before
  <2> QED BY <2>1, CacheFields
<1>4. AllSmall(caches, k + 1)
  <2> HIDE DEF caches
  <2> QED BY <1>2, SmallGrows
<1>5. Small(after, k + 1)
  <2> HIDE DEF before, r
  <2> QED BY <1>1, <1>3, ChangesAreChanges, ChangeAddsOne
<1>6. cache' = caches \/ cache' = [caches EXCEPT ![active] = new]
  BY DEF RunChange, Commit
<1>7. new.snapshot = after
  <2> HIDE DEF before, after, items
  <2> QED BY <1>3 DEF CacheType
<1> HIDE DEF caches, new, after
<1> QED BY <1>1, <1>2, <1>4, <1>5, <1>6, <1>7 DEF AllSmall

\* Every step keeps the lists as short as the number of changes made.
LEMMA SizesNext ==
  ASSUME Quiet, MaxOther = 0
  PROVE  PrefixInv /\ SizesFit /\ [Next]_vars => SizesFit'
<1> SUFFICES ASSUME PrefixInv, SizesFit, [Next]_vars PROVE SizesFit'
  OBVIOUS
<1>1. /\ queue \in Seq(Operation) /\ active \in Scopes /\ session \in Scopes
      /\ cache \in [Scopes -> CacheType] /\ Local \in Scopes
      /\ taps \in Nat /\ taps \in 0..MaxChanges /\ Fits(queue, taps, cache)
  BY SyncAssumption DEF PrefixInv, TypeInv, ScreenInv, DeviceOK, DataTyped,
                        CountersTyped, SizesFit, Scopes
<1>2. cache' \in [Scopes -> CacheType]
  BY TypeNext DEF PrefixInv, TypeInv, DataTyped
<1>3. \A j, k \in Nat : AllSmall(cache', j) /\ j <= k => AllSmall(cache', k)
  BY <1>2, SmallGrows
<1>4. ASSUME NEW s \in Scopes
      PROVE  /\ LoadOp(s) \in Operation /\ LoadOp(s).kind # "change"
             /\ s # Local => SyncOp(s) \in Operation /\ SyncOp(s).kind # "change"
  BY DEF LoadOp, SyncOp, Operation, Scopes
<1>5. \A s \in Scopes : s # Local =>
        \A q \in Seq(Operation) :
          Fits(q, taps, cache') => Fits(Append(q, SyncOp(s)), taps, cache')
  BY <1>1, <1>4, QueuedFits
<1>6. CASE \E r \in Changes : Tap(r)
  <2>1. PICK r \in Changes : Tap(r)
    BY <1>6
  <2>2. ChangeOp(r) \in Operation
    BY <1>1 DEF ChangeOp, Operation
  <2>3. queue' = Append(queue, ChangeOp(r)) /\ taps' = taps + 1 /\ cache' = cache
    BY <2>1 DEF Tap, cacheVars
  <2>4. taps + 1 \in Nat /\ taps <= taps + 1 /\ taps < taps + 1
    BY <1>1
  <2> QED BY <1>1, <2>2, <2>3, <2>4, QueuedFits DEF SizesFit
<1>7. CASE Resume \/ \E s \in Scopes : Switch(s)
  <2>1. cache' = cache /\ taps' = taps
    BY <1>7 DEF Resume, Switch, cacheVars, bounds
  <2>2. \/ queue' = queue
        \/ active # Local /\ queue' = Append(queue, SyncOp(active))
        \/ \E s \in Scopes : queue' = Append(queue, LoadOp(s))
    BY <1>7 DEF Resume, Switch, SwitchTo
  <2>3. taps <= taps
    BY <1>1
  <2> QED BY <1>1, <1>4, <2>1, <2>2, <2>3, QueuedFits DEF SizesFit
<1>8. CASE Crash \/ CrashInClaim
  <2>1. queue' = <<>> /\ taps' = taps
    BY <1>8 DEF Crash, CrashInClaim, Start, bounds
  <2>2. \A k \in Nat : AllSmall(cache, k) => AllSmall(cache', k)
    <3>1. \A k \in Nat : Small(EmptyCache.snapshot, k)
      BY DEF Small, EmptyCache, EmptySnapshot
    <3>2. cache' \in {cache, [cache EXCEPT ![Local] = EmptyCache]}
      BY <1>8 DEF Crash, CrashInClaim
    <3> QED BY <1>1, <3>1, <3>2 DEF AllSmall
  <2>3. Fits(<<>>, taps, cache')
    BY <1>1, <2>2, NothingWaitsFits
  <2> QED BY <2>1, <2>3 DEF SizesFit
<1>14. CASE BuildLoads
  <2>1. opening.scope \in Scopes
    BY DEF PrefixInv, TypeInv, ScreenInv, DeviceOK
  <2>2. cache' = Loaded(opening.scope) /\ queue' = queue /\ taps' = taps
    BY <1>14 DEF BuildLoads, bounds
  <2>3. \A k \in Nat : AllSmall(cache, k) => AllSmall(cache', k)
    BY <1>1, <2>1, <2>2, LoadedSmall
  <2>4. Fits(queue, taps, cache')
    BY <1>1, <2>3, RoomierFits
  <2> QED BY <2>2, <2>4 DEF SizesFit
<1>15. CASE BuildReturns
  <2>1. /\ queue' = queue \o Scheduled(active) /\ taps' = taps /\ cache' = cache
    BY <1>15 DEF BuildReturns, bounds
  <2>2. queue' = queue \/ (active # Local /\ queue' = Append(queue, SyncOp(active)))
    BY <1>1, <2>1, ScheduledIs
  <2> QED BY <1>1, <1>5, <2>1, <2>2 DEF SizesFit
<1>9. CASE RunChange \/ RunSync \/ RunLoad
  <2>1. /\ queue # <<>> /\ taps' = taps
        /\ \/ queue' = Tail(queue)
           \/ active # Local /\ queue' = Append(Tail(queue), SyncOp(active))
        /\ Head(queue).kind = "change" <=> RunChange
    <3>1. queue # <<>> /\ taps' = taps /\ (Head(queue).kind = "change" <=> RunChange)
      BY <1>9 DEF RunChange, RunSync, RunLoad, NextChange, NextOp, bounds
    <3>2. queue' = Tail(queue) \/ queue' = Tail(queue) \o Scheduled(active)
      BY <1>9 DEF RunChange, RunSync, RunLoad
    <3>3. Tail(queue) \in Seq(Operation)
      BY <1>1, <3>1, TailAt
    <3>4. /\ Tail(queue) \o <<>> = Tail(queue)
          /\ Tail(queue) \o <<SyncOp(active)>> = Append(Tail(queue), SyncOp(active))
      BY <3>3
    <3> QED BY <3>1, <3>2, <3>4 DEF Scheduled
  <2>2. \A k \in Nat : AllSmall(cache, k) =>
          AllSmall(cache', IF Head(queue).kind = "change" THEN k + 1 ELSE k)
    <3>1. CASE RunChange
      BY <2>1, <3>1, RunChangeFits DEF PrefixInv
    <3>2. CASE ~RunChange
      <4>1. cache' = cache \/ cache' = Loaded(Head(queue).scope)
        BY <1>9, <3>2 DEF RunSync, RunLoad, cacheVars
      <4>2. RunLoad => Head(queue).scope \in Scopes
        <5>1. Head(queue) \in Operation
          BY <1>1, <2>1, TailAt
        <5> QED BY <5>1 DEF RunLoad, NextOp, Operation, Scopes
      <4>3. RunSync => cache' = cache
        BY DEF RunSync, cacheVars
      <4> QED BY <1>1, <1>9, <2>1, <3>2, <4>1, <4>2, <4>3, LoadedSmall
    <3> QED BY <3>1, <3>2
  <2>3. Tail(queue) \in Seq(Operation) /\ Fits(Tail(queue), taps, cache')
    BY <1>1, <1>3, <2>1, <2>2, TailAt, TakenFits
  <2> QED BY <1>1, <1>5, <2>1, <2>3 DEF SizesFit
<1>10. CASE Import \/ Fetch \/ Push
  <2>1. sync.step \in Steps /\ queue' = queue /\ taps' = taps
    BY <1>10 DEF Import, Fetch, Push, Steps, bounds
  <2> DEFINE c == cache[session]
  <2>2. /\ sync.scope = session /\ session \in Scopes /\ session \in Accounts
        /\ sync \in [scope : Accounts, step : Steps]
        /\ issued[session] \in Seq(Changes)
        /\ resolved[session] \in 0..Len(issued[session])
        /\ Outbox = SubSeq(issued[session], resolved[session] + 1,
                           Len(issued[session]))
        /\ AccountOK(c.snapshot, c.legacy, moved[session], issued[session],
                     server[session], resolved[session])
    BY <2>1, RunningAccount
  <2>3. c \in CacheType
    BY <1>1, <2>2
  <2>4. ASSUME NEW new, new.snapshot = c.snapshot,
               cache' = [cache EXCEPT ![session] = new]
        PROVE  \A s \in Scopes : cache'[s].snapshot = cache[s].snapshot
    BY <1>1, <2>2, <2>4
  <2>5. \A s \in Scopes : cache'[s].snapshot = cache[s].snapshot
    <3>1. CASE Import
      <4> DEFINE new == [c EXCEPT !.legacy = EmptySnapshot]
      <4>1. cache' = [cache EXCEPT ![session] = new] \/ cache' = cache
        BY <2>2, <3>1 DEF Import, Save, Commit
      <4>2. new.snapshot = c.snapshot
        <5> HIDE DEF c
        <5> QED BY <2>3 DEF CacheType
      <4> HIDE DEF new
      <4> QED BY <2>4, <4>1, <4>2
    <3>2. CASE Push
      <4> DEFINE new == [c EXCEPT !.outbox = Tail(@)]
      <4>1. cache' = [cache EXCEPT ![session] = new] \/ cache' = cache
        BY <2>2, <3>2 DEF Push, Save, Commit, cacheVars
      <4>2. new.snapshot = c.snapshot
        <5> HIDE DEF c
        <5> QED BY <2>3 DEF CacheType
      <4> HIDE DEF new
      <4> QED BY <2>4, <4>1, <4>2
    <3>3. CASE Fetch
      <4> DEFINE fetched == ApplyOutbox(SnapshotOf(server[session]), Outbox)
                 new == [c EXCEPT !.snapshot = fetched]
      <4>1. cache' = [cache EXCEPT ![session] = new]
        BY <2>2, <3>3 DEF Fetch, Save, Commit
      <4>2. c.legacy = EmptySnapshot
        BY <2>1, <2>2, <3>3 DEF PrefixInv, PrefixOK, ImportFirst, Fetch
      <4>3. fetched = c.snapshot
        <5> HIDE DEF c
        <5> QED BY <2>2, <4>2, FetchAddsNothing
      <4>4. new.snapshot = c.snapshot
        <5> HIDE DEF c, fetched
        <5> QED BY <2>3, <4>3 DEF CacheType
      <4> HIDE DEF new
      <4> QED BY <2>4, <4>1, <4>4
    <3> QED BY <1>10, <3>1, <3>2, <3>3
  <2> QED BY <1>1, <2>1, <2>5, SameFits DEF SizesFit
<1>11. CASE LoseRequest \/ LoseAnswer \/ Expire \/ UNCHANGED vars
  BY <1>11 DEF LoseRequest, LoseAnswer, Expire, vars, cacheVars, bounds, SizesFit
<1>12. CASE FetchUnauthorized \/ PushUnauthorized
  <2>1. sync.step \in Steps /\ ~Authorized
    BY <1>12 DEF FetchUnauthorized, PushUnauthorized, Steps
  <2> QED BY <2>1, SyncIsSessions DEF PrefixInv
<1>13. CASE \E a \in Accounts, r \in OtherChanges : OtherDevice(a, r)
  <2>1. others < MaxOther /\ others \in Nat
    BY <1>13 DEF OtherDevice, PrefixInv, SettledInv
  <2> QED BY <2>1
<1> QED BY <1>6, <1>7, <1>8, <1>9, <1>10, <1>11, <1>12, <1>13, <1>14, <1>15
        DEF Next, SyncSteps

\* ServerFollowsTheLog for a user who makes fewer changes than a list may have
\* entries: then no list reaches its limit, and nothing is assumed of the run.
THEOREM ServerFollowsFewChanges ==
  ASSUME Quiet, MaxOther = 0, FewChanges
  PROVE  Spec => []ServerHoldsPrefix
<1>1. TypeInv /\ SizesFit => BelowLimits
  <2> SUFFICES ASSUME TypeInv, SizesFit PROVE BelowLimits
    OBVIOUS
  <2>1. /\ queue \in Seq(Operation) /\ taps \in 0..MaxChanges
        /\ cache \in [Scopes -> CacheType]
    BY DEF TypeInv, ScreenInv, DeviceOK, DataTyped, CountersTyped
  <2> QED BY <2>1, FewChangesFit DEF SizesFit, BelowLimits
<1>2. Init => TypeInv /\ SizesFit
  <2> SUFFICES ASSUME Init PROVE SizesFit
    BY TypeInit
  <2>1. queue \in Seq(Operation) /\ Len(queue) \in Nat /\ taps = 0
    BY TypeInit, LenProperties DEF TypeInv, ScreenInv, DeviceOK, Init
  <2>2. \A i \in 1..Len(queue) : queue[i].kind # "change"
    BY DEF Init, Scheduled, SyncOp
  <2>3. AllSmall(cache, 0)
    BY DEF Init, AllSmall, Small, EmptyCache, EmptySnapshot
  <2> DEFINE f == [i \in 0..Len(queue) |-> 0]
  <2>4. f \in [0..Len(queue) -> Nat] /\ \A i \in 0..Len(queue) : f[i] = 0
    OBVIOUS
  <2> HIDE DEF f
  <2>5. Bounds(f, queue, taps, cache)
    BY <2>1, <2>2, <2>3, <2>4 DEF Bounds
  <2> QED BY <2>4, <2>5 DEF SizesFit, Fits
<1>3. Init /\ BelowLimits => PrefixInv
  BY PrefixInit
<1>4. TypeInv /\ [Next]_vars => TypeInv'
  BY TypeNext
<1>5. PrefixInv /\ SizesFit /\ [Next]_vars => SizesFit'
  BY SizesNext
<1>6. PrefixInv /\ BelowLimits /\ BelowLimits' /\ [Next]_vars => PrefixInv'
  BY PrefixNext
<1>7. PrefixInv => TypeInv /\ ServerHoldsPrefix
  BY PrefixHolds DEF PrefixInv
<1> QED BY <1>1, <1>2, <1>3, <1>4, <1>5, <1>6, <1>7, PTL DEF Spec
=============================================================================
