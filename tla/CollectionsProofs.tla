-------------------------- MODULE CollectionsProofs --------------------------
(***************************************************************************)
(* Lemmas about the operators of Collections and CollectionsSnapshot, for  *)
(* every account, every request and every limit: what the merge of an      *)
(* import makes of the lists of an account; that each request keeps them   *)
(* free of repetitions and can be repeated; and that the device and the    *)
(* server make the same of a change while no list is full.  The theorems   *)
(* of UserDataStoreProofs and CollectionsSyncProofs rest on them.          *)
(*                                                                         *)
(* The merge is a fold over the imported lists, and so is the outbox that  *)
(* the device applies over its items.  What a fold computes is not proved  *)
(* by induction over its definition but from the run of it: a function of  *)
(* the number of values folded so far, whose steps are those of the loop   *)
(* in the code (FoldRun), so that an invariant of the loop is proved like  *)
(* one of a specification (HoldsUpTo).                                     *)
(***************************************************************************)
EXTENDS CollectionsSnapshot, SequenceLemmas

-----------------------------------------------------------------------------
(***************************************************************************)
(* The folds over the values of a list, told apart by their kind, so that  *)
(* one proof serves them all: what a fold has made of the first k values,  *)
(* for every k.  gone is what one of them leaves out.                      *)
(***************************************************************************)
FoldStep(kind, gone, seen, value) ==
  IF kind = "append" THEN AppendOnce(seen, value)
  ELSE IF kind = "merge" THEN MergePlaylist(seen, value)
  ELSE IF kind = "keep" THEN KeepUnless(gone, seen, value)
  ELSE IF kind = "optimistic" THEN Optimistic(seen, value)
  ELSE Apply(seen, value).user

\* The fold of either kind.
Folded(kind, gone, known, values) ==
  FoldLeft(LAMBDA seen, value : FoldStep(kind, gone, seen, value), known, values)

\* The recursive function that MapThenFoldSet chooses, on the first k
\* positions.
IsIteration(kind, gone, known, values, f, k) ==
  f = [s \in SUBSET (1..k) |->
         IF s = {} THEN known
         ELSE FoldStep(kind, gone, f[s \ {Max(s)}], values[Max(s)])]

\* What the fold has made of the first k values.
IsRun(kind, gone, known, values, n, run) ==
  /\ run[0] = known
  /\ \A k \in 1..n : run[k] = FoldStep(kind, gone, run[k - 1], values[k])
  /\ Folded(kind, gone, known, values) = run[n]

\* What a sequence of requests makes of an account.
Served(user, requests) ==
  FoldLeft(LAMBDA before, r : Apply(before, r).user, user, requests)

\* Every fold is of one of the kinds.
LEMMA FoldsAreFolded ==
  ASSUME NEW known, NEW values, NEW gone
  PROVE  /\ AppendMissing(known, values) = Folded("append", {}, known, values)
         /\ MergedPlaylists(known, values) = Folded("merge", {}, known, values)
         /\ Without(values, gone) = Folded("keep", gone, <<>>, values)
         /\ ApplyOutbox(known, values) = Folded("optimistic", {}, known, values)
         /\ Served(known, values) = Folded("apply", {}, known, values)
<1>1. AppendMissing(known, values) = Folded("append", {}, known, values)
  BY DEF AppendMissing, Folded, FoldLeft, MapThenFoldSet, FoldStep
<1>2. MergedPlaylists(known, values) = Folded("merge", {}, known, values)
  BY DEF MergedPlaylists, Folded, FoldLeft, MapThenFoldSet, FoldStep
<1>3. Without(values, gone) = Folded("keep", gone, <<>>, values)
  BY DEF Without, Folded, FoldLeft, MapThenFoldSet, FoldStep
<1>4. ApplyOutbox(known, values) = Folded("optimistic", {}, known, values)
  BY DEF ApplyOutbox, Folded, FoldLeft, MapThenFoldSet, FoldStep
<1>5. Served(known, values) = Folded("apply", {}, known, values)
  BY DEF Served, Folded, FoldLeft, MapThenFoldSet, FoldStep
<1> QED BY <1>1, <1>2, <1>3, <1>4, <1>5

\* The function for the first k positions extends to one for k + 1.
LEMMA IterationStep ==
  ASSUME NEW kind, NEW gone, NEW known, NEW values, NEW k \in Nat, NEW f,
         IsIteration(kind, gone, known, values, f, k)
  PROVE  \E g : IsIteration(kind, gone, known, values, g, k + 1)
<1> DEFINE g == [s \in SUBSET (1..k + 1) |->
                   IF s \in SUBSET (1..k) THEN f[s]
                   ELSE FoldStep(kind, gone, f[s \ {k + 1}], values[k + 1])]
           h == [s \in SUBSET (1..k + 1) |->
                   IF s = {} THEN known
                   ELSE FoldStep(kind, gone, g[s \ {Max(s)}], values[Max(s)])]
<1>0. f = [s \in SUBSET (1..k) |->
             IF s = {} THEN known
             ELSE FoldStep(kind, gone, f[s \ {Max(s)}], values[Max(s)])]
  BY DEF IsIteration
<1>1. ASSUME NEW s \in SUBSET (1..k + 1) PROVE g[s] = h[s]
  <2>1. CASE s \in SUBSET (1..k)
    <3>1. s \ {Max(s)} \in SUBSET (1..k) /\ s \ {Max(s)} \in SUBSET (1..k + 1)
      BY <2>1
    <3>2. g[s \ {Max(s)}] = f[s \ {Max(s)}] /\ g[s] = f[s]
      BY <2>1, <3>1
    <3>3. f[s] = IF s = {} THEN known
                 ELSE FoldStep(kind, gone, f[s \ {Max(s)}], values[Max(s)])
      BY <1>0, <2>1
    <3>4. h[s] = IF s = {} THEN known
                 ELSE FoldStep(kind, gone, g[s \ {Max(s)}], values[Max(s)])
      OBVIOUS
    <3> QED BY <3>2, <3>3, <3>4
  <2>2. CASE s \notin SUBSET (1..k)
    <3>1. k + 1 \in s /\ s \subseteq Int /\ \A x \in s : k + 1 >= x
      BY <2>2
    <3>2. Max(s) = k + 1
      BY <3>1, GreatestOf
    <3>3. s \ {k + 1} \in SUBSET (1..k) /\ s # {}
      BY <3>1
    <3>4. g[s \ {k + 1}] = f[s \ {k + 1}]
      BY <3>3
    <3>5. g[s] = FoldStep(kind, gone, f[s \ {k + 1}], values[k + 1])
      BY <2>2
    <3>6. h[s] = FoldStep(kind, gone, g[s \ {Max(s)}], values[Max(s)])
      BY <3>3
    <3> QED BY <3>2, <3>4, <3>5, <3>6
  <2> QED BY <2>1, <2>2
<1>2. g = h
  BY <1>1
<1>3. g = [s \in SUBSET (1..k + 1) |->
             IF s = {} THEN known
             ELSE FoldStep(kind, gone, g[s \ {Max(s)}], values[Max(s)])]
  BY <1>2
<1> HIDE DEF g, h
<1>4. IsIteration(kind, gone, known, values, g, k + 1)
  BY <1>3 DEF IsIteration
<1> QED BY <1>4

\* Every fold has a run: the function exists for every length, so the one
\* that is chosen is what the definition says.
LEMMA FoldRun ==
  ASSUME NEW kind, NEW gone, NEW known, NEW values, NEW n \in Nat,
         DOMAIN values = 1..n
  PROVE  \E run : IsRun(kind, gone, known, values, n, run)
<1> DEFINE Iter(f, k) == IsIteration(kind, gone, known, values, f, k)
<1>1. Folded(kind, gone, known, values) = (CHOOSE f : Iter(f, n))[1..n]
  BY DEF Folded, FoldLeft, MapThenFoldSet, IsIteration
<1>2. \E f : Iter(f, 0)
  <2> DEFINE f == [s \in SUBSET (1..0) |-> known]
  <2>1. \A s \in SUBSET (1..0) : s = {}
    OBVIOUS
  <2>2. f = [s \in SUBSET (1..0) |-> IF s = {} THEN known
                 ELSE FoldStep(kind, gone, f[s \ {Max(s)}], values[Max(s)])]
    BY <2>1
  <2> HIDE DEF f
  <2> QED BY <2>2 DEF IsIteration
<1>3. \A k \in Nat : (\E f : Iter(f, k)) => \E f : Iter(f, k + 1)
  <2> SUFFICES ASSUME NEW k \in Nat, NEW f, Iter(f, k)
               PROVE  \E g : Iter(g, k + 1)
    OBVIOUS
  <2> QED BY IterationStep
<1>4. \A k \in Nat : \E f : Iter(f, k)
  <2> HIDE DEF Iter
  <2> DEFINE I == {k \in Nat : ~\E f : Iter(f, k)}
  <2> SUFFICES ASSUME I # {} PROVE FALSE
    OBVIOUS
  <2>0. I \subseteq Nat
    OBVIOUS
  <2> DEFINE m == Min(I)
  <2>1. m \in I /\ \A j \in I : m <= j
    <3> HIDE DEF I
    <3> QED BY <2>0, LeastOf
  <2> HIDE DEF m
  <2>2. m # 0
    BY <1>2, <2>1
  <2>3. m - 1 \in Nat /\ m - 1 \notin I
    BY <2>1, <2>2
  <2>4. \E f : Iter(f, (m - 1) + 1)
    BY <1>3, <2>3
  <2> QED BY <2>1, <2>4
<1>5. PICK f : f = CHOOSE g : Iter(g, n)
  OBVIOUS
<1>6. Iter(f, n)
  <2> HIDE DEF Iter
  <2> QED BY <1>4, <1>5
<1> DEFINE run == [k \in 0..n |-> f[1..k]]
<1>7. \A s \in SUBSET (1..n) :
        f[s] = IF s = {} THEN known
               ELSE FoldStep(kind, gone, f[s \ {Max(s)}], values[Max(s)])
  BY <1>6 DEF IsIteration
<1>8. run[0] = known
  <2>1. 1..0 = {} /\ {} \in SUBSET (1..n) /\ 0 \in 0..n
    OBVIOUS
  <2>2. f[{}] = known
    BY <1>7, <2>1
  <2> QED BY <2>1, <2>2
<1>9. ASSUME NEW k \in 1..n PROVE run[k] = FoldStep(kind, gone, run[k - 1], values[k])
  <2>1. 1..k \in SUBSET (1..n) /\ k \in 1..k /\ k - 1 \in 0..n /\ k \in 0..n
    OBVIOUS
  <2>2. (1..k) \ {k} = 1..k - 1
    OBVIOUS
  <2>3. 1..k \subseteq Int /\ \A x \in 1..k : k >= x
    OBVIOUS
  <2>4. Max(1..k) = k
    <3> DEFINE S == 1..k
    <3>1. k \in S /\ S \subseteq Int /\ \A x \in S : k >= x
      BY <2>1, <2>3
    <3> HIDE DEF S
    <3> QED BY <3>1, GreatestOf DEF S
  <2>5. f[1..k] = FoldStep(kind, gone, f[(1..k) \ {k}], values[k])
    BY <1>7, <2>1, <2>4
  <2> QED BY <2>1, <2>2, <2>5
<1>10. Folded(kind, gone, known, values) = run[n]
  <2> HIDE DEF Iter
  <2> QED BY <1>1, <1>5
<1> HIDE DEF run
<1>11. IsRun(kind, gone, known, values, n, run)
  BY <1>8, <1>9, <1>10 DEF IsRun
<1> QED BY <1>11

-----------------------------------------------------------------------------
\* One value: it is there afterwards, and was appended only if it was not.
LEMMA AppendOnceFacts ==
  ASSUME NEW T, NEW seen \in Seq(T), NEW value \in T
  PROVE  /\ AppendOnce(seen, value) \in Seq(T)
         /\ Extends(AppendOnce(seen, value), seen)
         /\ IsInjective(seen) => IsInjective(AppendOnce(seen, value))
         /\ Contains(AppendOnce(seen, value), value)
         /\ Contains(seen, value) => AppendOnce(seen, value) = seen
<1>1. Len(seen) \in Nat
  BY LenProperties
<1>2. CASE Contains(seen, value)
  BY <1>1, <1>2 DEF AppendOnce, Extends
<1>3. CASE ~Contains(seen, value)
  <2> DEFINE new == Append(seen, value)
  <2>1. /\ new \in Seq(T) /\ Len(new) = Len(seen) + 1
        /\ \A i \in 1..Len(seen) : new[i] = seen[i]
        /\ new[Len(seen) + 1] = value
    BY AppendProperties
  <2>2. \A i \in 1..Len(seen) : seen[i] # value
    BY <1>3 DEF Contains
  <2>3. IsInjective(seen) => IsInjective(new)
    BY <2>2, AppendKeepsInjective
  <2>4. AppendOnce(seen, value) = new
    BY <1>3 DEF AppendOnce
  <2> HIDE DEF new
  <2>5. Len(seen) + 1 \in 1..Len(new)
    BY <1>1, <2>1
  <2>6. Contains(new, value)
    BY <2>1, <2>5 DEF Contains
  <2>7. Extends(new, seen)
    BY <1>1, <2>1 DEF Extends
  <2> QED BY <1>3, <2>1, <2>3, <2>4, <2>6, <2>7
<1> QED BY <1>2, <1>3

\* AppendMissing keeps what is known in place and adds the rest, each once.
LEMMA AppendMissingFacts ==
  ASSUME NEW T, NEW known \in Seq(T), NEW values \in Seq(T)
  PROVE  /\ AppendMissing(known, values) \in Seq(T)
         /\ Extends(AppendMissing(known, values), known)
         /\ IsInjective(known) => IsInjective(AppendMissing(known, values))
         /\ \A i \in 1..Len(values) :
              Contains(AppendMissing(known, values), values[i])
         /\ (\A i \in 1..Len(values) : Contains(known, values[i])) =>
              AppendMissing(known, values) = known
<1> DEFINE n == Len(values)
<1>1. n \in Nat /\ DOMAIN values = 1..n /\ Len(known) \in Nat
      /\ \A i \in 1..n : values[i] \in T
  BY LenProperties, ElementOfSeq
<1> HIDE DEF n
<1>r. PICK run : IsRun("append", {}, known, values, n, run)
  BY <1>1, FoldRun
<1>2. /\ run[0] = known
      /\ \A k \in 1..n : run[k] = FoldStep("append", {}, run[k - 1], values[k])
      /\ Folded("append", {}, known, values) = run[n]
  BY <1>r DEF IsRun
<1>3. AppendMissing(known, values) = run[n]
  BY <1>2, FoldsAreFolded
<1> DEFINE J(k) ==
      /\ run[k] \in Seq(T) /\ Extends(run[k], known)
      /\ IsInjective(known) => IsInjective(run[k])
      /\ \A i \in 1..k : Contains(run[k], values[i])
      /\ (\A i \in 1..k : Contains(known, values[i])) => run[k] = known
<1>4. J(0)
  BY <1>1, <1>2 DEF Extends
<1>5. ASSUME NEW k \in 0..n - 1, J(k) PROVE J(k + 1)
  <2> DEFINE new == run[k + 1]
  <2>0. k + 1 \in 1..n /\ (k + 1) - 1 = k /\ 1..k + 1 = 1..k \cup {k + 1}
    BY <1>1
  <2>1. new = AppendOnce(run[k], values[k + 1])
    BY <1>2, <2>0 DEF FoldStep
  <2>2. run[k] \in Seq(T) /\ values[k + 1] \in T
    BY <1>1, <1>5, <2>0
  <2>3. /\ AppendOnce(run[k], values[k + 1]) \in Seq(T)
        /\ Extends(AppendOnce(run[k], values[k + 1]), run[k])
        /\ IsInjective(run[k]) => IsInjective(AppendOnce(run[k], values[k + 1]))
        /\ Contains(AppendOnce(run[k], values[k + 1]), values[k + 1])
        /\ Contains(run[k], values[k + 1]) =>
             AppendOnce(run[k], values[k + 1]) = run[k]
    BY <2>2, AppendOnceFacts
  <2>4. /\ new \in Seq(T) /\ Extends(new, run[k])
        /\ IsInjective(run[k]) => IsInjective(new)
        /\ Contains(new, values[k + 1])
        /\ Contains(run[k], values[k + 1]) => new = run[k]
    BY <2>1, <2>3
  <2> HIDE DEF new
  <2>5. Extends(new, known)
    BY <1>5, <2>2, <2>4, ExtendsTransitive
  <2>6. \A i \in 1..k + 1 : Contains(new, values[i])
    <3>1. ASSUME NEW i \in 1..k PROVE Contains(new, values[i])
      <4>1. Contains(run[k], values[i])
        BY <1>5, <3>1
      <4> QED BY <2>2, <2>4, <4>1, ContainsKept
    <3> QED BY <2>0, <2>4, <3>1
  <2>7. (\A i \in 1..k + 1 : Contains(known, values[i])) => new = known
    BY <1>5, <2>0, <2>4
  <2> QED BY <1>5, <2>4, <2>5, <2>6, <2>7 DEF new
<1> DEFINE S == {k \in 0..n : J(k)}
<1>6. \A k \in 0..n : k \in S
  <2>1. 0 \in S
    BY <1>1, <1>4
  <2>2. \A k \in 0..n - 1 : k \in S => k + 1 \in S
    <3> HIDE DEF J
    <3> QED BY <1>1, <1>5
  <2> HIDE DEF S
  <2> QED BY <1>1, <2>1, <2>2, HoldsUpTo
<1>7. n \in 0..n
  BY <1>1
<1>8. J(n)
  <2> HIDE DEF J
  <2> QED BY <1>6, <1>7
<1> QED BY <1>3, <1>8 DEF n

-----------------------------------------------------------------------------
(***************************************************************************)
(* The place of a playlist: that of the first one with the id.             *)
(***************************************************************************)
\* It is 0 exactly when no playlist has the id.
LEMMA PlaylistIndexFacts ==
  ASSUME NEW lists \in Seq(Playlist), NEW id
  PROVE  /\ PlaylistIndex(lists, id) \in 0..Len(lists)
         /\ PlaylistIndex(lists, id) # 0 =>
              /\ lists[PlaylistIndex(lists, id)].id = id
              /\ \A j \in 1..PlaylistIndex(lists, id) - 1 : lists[j].id # id
         /\ PlaylistIndex(lists, id) = 0 => \A i \in 1..Len(lists) : lists[i].id # id
<1> DEFINE I == {i \in 1..Len(lists) : lists[i].id = id}
<1>1. PlaylistIndex(lists, id) = IF I # {} THEN Min(I) ELSE 0
  BY DEF PlaylistIndex, SelectInSeq
<1>2. Len(lists) \in Nat
  BY LenProperties
<1>3. CASE I = {}
  BY <1>1, <1>2, <1>3
<1>4. CASE I # {}
  <2>1. I \subseteq Nat
    BY <1>2
  <2>2. Min(I) \in I /\ \A j \in I : Min(I) <= j
    <3> HIDE DEF I
    <3> QED BY <1>4, <2>1, LeastOf
  <2> DEFINE m == Min(I)
  <2> HIDE DEF m
  <2>3. m \in 1..Len(lists) /\ lists[m].id = id
    BY <2>2 DEF m
  <2>4. \A j \in 1..m - 1 : lists[j].id # id
    <3> SUFFICES ASSUME NEW j \in 1..m - 1, lists[j].id = id PROVE FALSE
      OBVIOUS
    <3>1. j \in I
      BY <1>2, <2>3
    <3>2. m <= j
      BY <2>2, <3>1 DEF m
    <3> QED BY <2>3, <3>2
  <2>5. PlaylistIndex(lists, id) = m
    BY <1>1, <1>4 DEF m
  <2> QED BY <1>2, <2>3, <2>4, <2>5
<1> QED BY <1>3, <1>4

\* The first playlist with the id is the one that is found.
LEMMA PlaylistIndexIs ==
  ASSUME NEW lists \in Seq(Playlist), NEW id, NEW i \in 1..Len(lists),
         lists[i].id = id, \A j \in 1..i - 1 : lists[j].id # id
  PROVE  PlaylistIndex(lists, id) = i
<1> DEFINE k == PlaylistIndex(lists, id)
<1>1. Len(lists) \in Nat
  BY LenProperties
<1>2. /\ k \in 0..Len(lists)
      /\ k # 0 => lists[k].id = id /\ \A j \in 1..k - 1 : lists[j].id # id
      /\ k = 0 => \A j \in 1..Len(lists) : lists[j].id # id
  BY PlaylistIndexFacts
<1> HIDE DEF k
<1>3. k # 0
  BY <1>2
<1>4. ~(k < i) /\ ~(i < k)
  BY <1>1, <1>2, <1>3
<1>5. k = i
  BY <1>1, <1>2, <1>4
<1> QED BY <1>5 DEF k

-----------------------------------------------------------------------------
(***************************************************************************)
(* The merge of an imported playlist.                                      *)
(***************************************************************************)

\* No playlist repeats a track.
DistinctLists(lists) == \A i \in 1..Len(lists) : IsInjective(lists[i].tracks)

\* The old playlists are where they were, with the tracks they had.
ListsExtend(new, old) ==
  /\ Len(old) <= Len(new)
  /\ \A i \in 1..Len(old) : /\ new[i].id = old[i].id
                            /\ new[i].name = old[i].name
                            /\ Extends(new[i].tracks, old[i].tracks)

\* The imported playlist has nothing to add.
IsMerged(lists, imported) ==
  LET i == PlaylistIndex(lists, imported.id) IN
  /\ i # 0
  /\ \A j \in 1..Len(imported.tracks) :
       Contains(lists[i].tracks, imported.tracks[j])

\* Fields of typed playlists.
LEMMA ListsTyped ==
  ASSUME NEW lists \in Seq(Playlist)
  PROVE  /\ Len(lists) \in Nat /\ DOMAIN lists = 1..Len(lists)
         /\ \A i \in 1..Len(lists) :
              /\ lists[i] \in Playlist /\ lists[i].tracks \in Seq(Tracks)
              /\ lists[i].id \in PlaylistIds /\ lists[i].name \in Names
              /\ lists[i] = [id |-> lists[i].id, name |-> lists[i].name,
                             tracks |-> lists[i].tracks]
<1>1. Len(lists) \in Nat /\ DOMAIN lists = 1..Len(lists)
      /\ \A i \in 1..Len(lists) : lists[i] \in Playlist
  BY LenProperties, ElementOfSeq
<1> QED BY <1>1 DEF Playlist

\* Lists extend themselves, and what extends an extension of them.
LEMMA ListsExtendReflexive ==
  ASSUME NEW lists \in Seq(Playlist)
  PROVE  ListsExtend(lists, lists)
<1>1. \A i \in 1..Len(lists) : Len(lists[i].tracks) \in Nat
  BY ListsTyped, LenProperties
<1> QED BY <1>1, ListsTyped DEF ListsExtend, Extends

\* The steps of the merge add up.
LEMMA ListsExtendTransitive ==
  ASSUME NEW a \in Seq(Playlist), NEW b \in Seq(Playlist), NEW c \in Seq(Playlist),
         ListsExtend(c, b), ListsExtend(b, a)
  PROVE  ListsExtend(c, a)
<1>1. Len(a) \in Nat /\ Len(b) \in Nat /\ Len(c) \in Nat
  BY LenProperties
<1>2. ASSUME NEW i \in 1..Len(a)
      PROVE  /\ c[i].id = a[i].id /\ c[i].name = a[i].name
             /\ Extends(c[i].tracks, a[i].tracks)
  <2>1. i \in 1..Len(b) /\ i \in 1..Len(c)
    BY <1>1 DEF ListsExtend
  <2>2. /\ a[i].tracks \in Seq(Tracks) /\ b[i].tracks \in Seq(Tracks)
        /\ c[i].tracks \in Seq(Tracks)
    BY <2>1, ListsTyped
  <2>3. Extends(c[i].tracks, b[i].tracks) /\ Extends(b[i].tracks, a[i].tracks)
    BY <2>1 DEF ListsExtend
  <2>4. Extends(c[i].tracks, a[i].tracks)
    BY <2>2, <2>3, ExtendsTransitive
  <2> QED BY <2>1, <2>4 DEF ListsExtend
<1> QED BY <1>1, <1>2 DEF ListsExtend

\* What is merged stays merged.
LEMMA StaysMerged ==
  ASSUME NEW old \in Seq(Playlist), NEW new \in Seq(Playlist),
         ListsExtend(new, old), NEW p \in Playlist, IsMerged(old, p)
  PROVE  IsMerged(new, p) /\ PlaylistIndex(new, p.id) = PlaylistIndex(old, p.id)
<1> DEFINE i == PlaylistIndex(old, p.id)
<1>1. Len(old) \in Nat /\ Len(new) \in Nat /\ Len(old) <= Len(new)
  BY LenProperties DEF ListsExtend
<1>2. /\ i \in 1..Len(old) /\ old[i].id = p.id
      /\ \A j \in 1..i - 1 : old[j].id # p.id
  BY <1>1, PlaylistIndexFacts DEF IsMerged
<1>3. \A j \in 1..Len(p.tracks) : Contains(old[i].tracks, p.tracks[j])
  BY DEF IsMerged
<1> HIDE DEF i
<1>4. i \in 1..Len(new) /\ new[i].id = p.id /\ \A j \in 1..i - 1 : new[j].id # p.id
  BY <1>1, <1>2 DEF ListsExtend
<1>5. PlaylistIndex(new, p.id) = i
  BY <1>4, PlaylistIndexIs
<1>6. /\ old[i].tracks \in Seq(Tracks) /\ new[i].tracks \in Seq(Tracks)
      /\ Extends(new[i].tracks, old[i].tracks)
  BY <1>2, <1>4, ListsTyped DEF ListsExtend
<1>7. \A j \in 1..Len(p.tracks) : Contains(new[i].tracks, p.tracks[j])
  BY <1>3, <1>6, ContainsKept
<1>8. i # 0
  BY <1>2
<1> QED BY <1>5, <1>7, <1>8 DEF IsMerged, i

\* One imported playlist keeps the others, adds to its own, and has nothing
\* to add a second time.
LEMMA MergePlaylistFacts ==
  ASSUME NEW lists \in Seq(Playlist), NEW p \in Playlist
  PROVE  /\ MergePlaylist(lists, p) \in Seq(Playlist)
         /\ ListsExtend(MergePlaylist(lists, p), lists)
         /\ DistinctLists(lists) => DistinctLists(MergePlaylist(lists, p))
         /\ IsMerged(MergePlaylist(lists, p), p)
         /\ IsMerged(lists, p) => MergePlaylist(lists, p) = lists
<1> DEFINE i == PlaylistIndex(lists, p.id)
           new == MergePlaylist(lists, p)
<1>1. /\ Len(lists) \in Nat /\ DOMAIN lists = 1..Len(lists)
      /\ \A j \in 1..Len(lists) :
           /\ lists[j] \in Playlist /\ lists[j].tracks \in Seq(Tracks)
           /\ lists[j].id \in PlaylistIds /\ lists[j].name \in Names
           /\ lists[j] = [id |-> lists[j].id, name |-> lists[j].name,
                          tracks |-> lists[j].tracks]
  BY ListsTyped
<1>2. p.id \in PlaylistIds /\ p.name \in Names /\ p.tracks \in Seq(Tracks)
  BY DEF Playlist
<1>3. /\ i \in 0..Len(lists)
      /\ i # 0 => lists[i].id = p.id /\ \A j \in 1..i - 1 : lists[j].id # p.id
      /\ i = 0 => \A j \in 1..Len(lists) : lists[j].id # p.id
  BY PlaylistIndexFacts
<1>4. ListsExtend(lists, lists)
  BY ListsExtendReflexive
<1>5. CASE i = 0
  <2> DEFINE all == AppendMissing(<<>>, p.tracks)
             added == [id |-> p.id, name |-> p.name, tracks |-> all]
  <2>1. new = Append(lists, added)
    BY <1>5 DEF MergePlaylist
  <2>0. <<>> \in Seq(Tracks) /\ IsInjective(<<>>)
    BY DEF IsInjective
  <2>2. /\ all \in Seq(Tracks) /\ IsInjective(all)
        /\ \A j \in 1..Len(p.tracks) : Contains(all, p.tracks[j])
    BY <1>2, <2>0, AppendMissingFacts
  <2> HIDE DEF all
  <2>3. added \in Playlist /\ added.id = p.id /\ added.tracks = all
    BY <1>2, <2>2 DEF Playlist
  <2> HIDE DEF added
  <2>4. /\ Append(lists, added) \in Seq(Playlist)
        /\ Len(Append(lists, added)) = Len(lists) + 1
        /\ \A j \in 1..Len(lists) : Append(lists, added)[j] = lists[j]
        /\ Append(lists, added)[Len(lists) + 1] = added
    BY <2>3, AppendProperties
  <2>5. /\ new \in Seq(Playlist) /\ Len(new) = Len(lists) + 1
        /\ \A j \in 1..Len(lists) : new[j] = lists[j]
        /\ new[Len(lists) + 1] = added
    BY <2>1, <2>4
  <2> HIDE DEF new, i
  <2>6. ListsExtend(new, lists)
    BY <1>1, <1>4, <2>5 DEF ListsExtend
  <2>7. DistinctLists(lists) => DistinctLists(new)
    <3>1. \A j \in 1..Len(new) : j \in 1..Len(lists) \/ j = Len(lists) + 1
      BY <1>1, <2>5
    <3> QED BY <2>2, <2>3, <2>5, <3>1 DEF DistinctLists
  <2>8. PlaylistIndex(new, p.id) = Len(lists) + 1
    <3> DEFINE m == Len(lists) + 1
    <3>1. m \in 1..Len(new) /\ new[m].id = p.id
      BY <1>1, <2>3, <2>5
    <3>2. \A j \in 1..m - 1 : new[j].id # p.id
      BY <1>1, <1>3, <1>5, <2>5
    <3> HIDE DEF m
    <3>3. PlaylistIndex(new, p.id) = m
      BY <2>5, <3>1, <3>2, PlaylistIndexIs
    <3> QED BY <3>3 DEF m
  <2>9. IsMerged(new, p)
    BY <1>1, <2>2, <2>3, <2>5, <2>8 DEF IsMerged
  <2>10. ~IsMerged(lists, p)
    BY <1>5 DEF IsMerged, i
  <2> QED BY <2>5, <2>6, <2>7, <2>9, <2>10 DEF new
<1>6. CASE i # 0
  <2> DEFINE all == AppendMissing(lists[i].tracks, p.tracks)
  <2>1. new = [lists EXCEPT ![i].tracks = all]
    BY <1>6 DEF MergePlaylist
  <2>2. i \in 1..Len(lists)
    BY <1>1, <1>3, <1>6
  <2> HIDE DEF i
  <2>3. lists[i].tracks \in Seq(Tracks)
    BY <1>1, <2>2
  <2>4. /\ all \in Seq(Tracks) /\ Extends(all, lists[i].tracks)
        /\ IsInjective(lists[i].tracks) => IsInjective(all)
        /\ \A j \in 1..Len(p.tracks) : Contains(all, p.tracks[j])
        /\ (\A j \in 1..Len(p.tracks) : Contains(lists[i].tracks, p.tracks[j])) =>
             all = lists[i].tracks
    BY <1>2, <2>3, AppendMissingFacts
  <2> HIDE DEF all
  <2> DEFINE merged == [id |-> lists[i].id, name |-> lists[i].name, tracks |-> all]
  <2>5. merged \in Playlist /\ merged.id = p.id /\ merged.tracks = all
        /\ merged.name = lists[i].name /\ merged.id = lists[i].id
    BY <1>1, <1>3, <1>6, <2>2, <2>4 DEF Playlist
  <2>6. [lists[i] EXCEPT !.tracks = all] = merged
    BY <1>1, <2>2
  <2> HIDE DEF merged
  <2>7. new = [lists EXCEPT ![i] = merged]
    BY <2>1, <2>6
  <2> HIDE DEF new
  <2>8. /\ new \in Seq(Playlist) /\ Len(new) = Len(lists)
        /\ new[i] = merged
        /\ \A j \in 1..Len(lists) : j # i => new[j] = lists[j]
    BY <1>1, <2>2, <2>5, <2>7, ExceptSeq
  <2>9. ListsExtend(new, lists)
    <3> SUFFICES ASSUME NEW j \in 1..Len(lists)
                 PROVE  /\ new[j].id = lists[j].id /\ new[j].name = lists[j].name
                        /\ Extends(new[j].tracks, lists[j].tracks)
      BY <1>1, <2>8 DEF ListsExtend
    <3>1. CASE j = i
      BY <2>4, <2>5, <2>8, <3>1
    <3>2. CASE j # i
      BY <1>4, <2>8, <3>2 DEF ListsExtend
    <3> QED BY <3>1, <3>2
  <2>10. DistinctLists(lists) => DistinctLists(new)
    BY <2>2, <2>4, <2>5, <2>8 DEF DistinctLists
  <2>11. PlaylistIndex(new, p.id) = i
    <3>1. i \in 1..Len(new) /\ new[i].id = p.id
      BY <2>2, <2>5, <2>8
    <3>2. \A j \in 1..i - 1 : new[j].id # p.id
      BY <1>1, <1>3, <1>6, <2>2, <2>8
    <3> QED BY <2>8, <3>1, <3>2, PlaylistIndexIs
  <2>12. IsMerged(new, p)
    BY <1>6, <2>4, <2>5, <2>8, <2>11 DEF IsMerged
  <2>13. IsMerged(lists, p) => new = lists
    <3> SUFFICES ASSUME IsMerged(lists, p) PROVE new = lists
      OBVIOUS
    <3>1. all = lists[i].tracks
      BY <2>4 DEF IsMerged, i
    <3>2. merged = lists[i]
      BY <1>1, <2>2, <3>1 DEF merged
    <3> QED BY <1>1, <2>2, <2>7, <3>2
  <2> QED BY <2>8, <2>9, <2>10, <2>12, <2>13 DEF new
<1> QED BY <1>5, <1>6

\* An import keeps every playlist in place and adds to it; what it imported
\* has nothing to add any more.
LEMMA MergedPlaylistsFacts ==
  ASSUME NEW known \in Seq(Playlist), NEW imported \in Seq(Playlist)
  PROVE  /\ MergedPlaylists(known, imported) \in Seq(Playlist)
         /\ ListsExtend(MergedPlaylists(known, imported), known)
         /\ DistinctLists(known) => DistinctLists(MergedPlaylists(known, imported))
         /\ \A j \in 1..Len(imported) :
              IsMerged(MergedPlaylists(known, imported), imported[j])
         /\ (\A j \in 1..Len(imported) : IsMerged(known, imported[j])) =>
              MergedPlaylists(known, imported) = known
<1> DEFINE n == Len(imported)
<1>1. n \in Nat /\ DOMAIN imported = 1..n
      /\ \A j \in 1..n : imported[j] \in Playlist
  BY LenProperties, ElementOfSeq
<1> HIDE DEF n
<1>r. PICK run : IsRun("merge", {}, known, imported, n, run)
  BY <1>1, FoldRun
<1>2. /\ run[0] = known
      /\ \A k \in 1..n : run[k] = FoldStep("merge", {}, run[k - 1], imported[k])
      /\ Folded("merge", {}, known, imported) = run[n]
  BY <1>r DEF IsRun
<1>3. MergedPlaylists(known, imported) = run[n]
  BY <1>2, FoldsAreFolded
<1> DEFINE J(k) ==
      /\ run[k] \in Seq(Playlist) /\ ListsExtend(run[k], known)
      /\ DistinctLists(known) => DistinctLists(run[k])
      /\ \A j \in 1..k : IsMerged(run[k], imported[j])
      /\ (\A j \in 1..k : IsMerged(known, imported[j])) => run[k] = known
<1>4. J(0)
  BY <1>1, <1>2, ListsExtendReflexive
<1>5. ASSUME NEW k \in 0..n - 1, J(k) PROVE J(k + 1)
  <2> DEFINE new == run[k + 1]
  <2>0. k + 1 \in 1..n /\ (k + 1) - 1 = k /\ 1..k + 1 = 1..k \cup {k + 1}
    BY <1>1
  <2>1. new = MergePlaylist(run[k], imported[k + 1])
    BY <1>2, <2>0 DEF FoldStep
  <2>2. run[k] \in Seq(Playlist) /\ imported[k + 1] \in Playlist
    BY <1>1, <1>5, <2>0
  <2>3. /\ MergePlaylist(run[k], imported[k + 1]) \in Seq(Playlist)
        /\ ListsExtend(MergePlaylist(run[k], imported[k + 1]), run[k])
        /\ DistinctLists(run[k]) =>
             DistinctLists(MergePlaylist(run[k], imported[k + 1]))
        /\ IsMerged(MergePlaylist(run[k], imported[k + 1]), imported[k + 1])
        /\ IsMerged(run[k], imported[k + 1]) =>
             MergePlaylist(run[k], imported[k + 1]) = run[k]
    BY <2>2, MergePlaylistFacts
  <2>4. /\ new \in Seq(Playlist) /\ ListsExtend(new, run[k])
        /\ DistinctLists(run[k]) => DistinctLists(new)
        /\ IsMerged(new, imported[k + 1])
        /\ IsMerged(run[k], imported[k + 1]) => new = run[k]
    BY <2>1, <2>3
  <2> HIDE DEF new
  <2>5. ListsExtend(new, known)
    BY <1>5, <2>2, <2>4, ListsExtendTransitive
  <2>6. \A j \in 1..k + 1 : IsMerged(new, imported[j])
    <3>1. ASSUME NEW j \in 1..k PROVE IsMerged(new, imported[j])
      <4>1. IsMerged(run[k], imported[j]) /\ imported[j] \in Playlist
        BY <1>1, <1>5, <3>1
      <4> QED BY <2>2, <2>4, <4>1, StaysMerged
    <3> QED BY <2>0, <2>4, <3>1
  <2>7. (\A j \in 1..k + 1 : IsMerged(known, imported[j])) => new = known
    BY <1>5, <2>0, <2>4
  <2> QED BY <1>5, <2>4, <2>5, <2>6, <2>7 DEF new
<1> DEFINE S == {k \in 0..n : J(k)}
<1>6. \A k \in 0..n : k \in S
  <2>1. 0 \in S
    BY <1>1, <1>4
  <2>2. \A k \in 0..n - 1 : k \in S => k + 1 \in S
    <3> HIDE DEF J
    <3> QED BY <1>1, <1>5
  <2> HIDE DEF S
  <2> QED BY <1>1, <2>1, <2>2, HoldsUpTo
<1>7. J(n)
  <2>1. n \in 0..n
    BY <1>1
  <2> HIDE DEF J
  <2> QED BY <1>6, <2>1
<1> QED BY <1>3, <1>7 DEF n

-----------------------------------------------------------------------------
(***************************************************************************)
(* What the requests do to an account whose lists repeat nothing and whose *)
(* playlists have different ids.                                           *)
(***************************************************************************)
UniqueIds(lists) ==
  \A i, j \in 1..Len(lists) : lists[i].id = lists[j].id => i = j

\* No list of the account repeats a track.
DistinctUser(user) ==
  IsInjective(user.favorites) /\ DistinctLists(user.playlists)

\* What the store knows of every account that it serves.
WellKept(user) ==
  user \in UserData /\ DistinctUser(user) /\ UniqueIds(user.playlists)

\* A request that was applied changes nothing more.
RetryIsSafe(user, r) ==
  LET first == Apply(user, r)
      again == Apply(first.user, r)
  IN  first.status = "changed" =>
        /\ again.user = first.user
        /\ again.status \in
             IF r.op = "delete_playlist" THEN {"not_found"} ELSE {"unchanged"}

\* What holds of a request that an account gets.
AppliesWell(user, r) ==
  /\ Apply(user, r).user \in UserData
  /\ DistinctUser(Apply(user, r).user)
  /\ RetryIsSafe(user, r)

\* A value removed from a list without repetitions is gone from it.
LEMMA RemoveFirstFacts ==
  ASSUME NEW T, NEW s \in Seq(T), NEW e, Contains(s, e), IsInjective(s)
  PROVE  /\ RemoveFirst(s, e) \in Seq(T) /\ IsInjective(RemoveFirst(s, e))
         /\ ~Contains(RemoveFirst(s, e), e)
<1> DEFINE I == {i \in 1..Len(s) : s[i] = e}
           k == Min(I)
<1>1. Len(s) \in Nat /\ I # {}
  BY LenProperties DEF Contains
<1>2. I \subseteq Nat
  BY <1>1
<1>3. k \in I
  <2> HIDE DEF I
  <2> QED BY <1>1, <1>2, LeastOf
<1>4. RemoveFirst(s, e) = RemoveAt(s, k)
  BY <1>1 DEF RemoveFirst, SelectInSeq
<1> HIDE DEF k
<1>5. k \in 1..Len(s) /\ s[k] = e
  BY <1>3
<1> DEFINE new == RemoveAt(s, k)
<1>6. /\ new \in Seq(T) /\ Len(new) = Len(s) - 1
      /\ IsInjective(new) /\ \A i \in 1..Len(s) - 1 : new[i] # s[k]
  BY <1>5, RemoveAtProperties, RemoveKeepsInjective
<1> HIDE DEF new
<1>7. ~Contains(new, e)
  BY <1>5, <1>6 DEF Contains
<1> QED BY <1>4, <1>6, <1>7 DEF new

\* The fields of an account, and of one with another field.
LEMMA UserFields ==
  ASSUME NEW user \in UserData
  PROVE  /\ user.revision \in Nat /\ user.favorites \in Seq(Tracks)
         /\ user.playlists \in Seq(Playlist) /\ user.mode \in PlaybackModes
         /\ \A x \in Seq(Tracks) :
              /\ [user EXCEPT !.favorites = x] \in UserData
              /\ [user EXCEPT !.favorites = x].favorites = x
              /\ [user EXCEPT !.favorites = x].playlists = user.playlists
         /\ \A x \in Seq(Playlist) :
              /\ [user EXCEPT !.playlists = x] \in UserData
              /\ [user EXCEPT !.playlists = x].playlists = x
              /\ [user EXCEPT !.playlists = x].favorites = user.favorites
         /\ \A x \in PlaybackModes :
              /\ [user EXCEPT !.mode = x] \in UserData
              /\ [user EXCEPT !.mode = x].mode = x
              /\ [user EXCEPT !.mode = x].favorites = user.favorites
              /\ [user EXCEPT !.mode = x].playlists = user.playlists
BY DEF UserData

\* An outcome that changes nothing is a safe one.
LEMMA NothingChanged ==
  ASSUME NEW user, WellKept(user), NEW r,
         Apply(user, r).user = user, Apply(user, r).status # "changed"
  PROVE  AppliesWell(user, r)
BY DEF AppliesWell, RetryIsSafe, WellKept

\* What an outcome is made of.
LEMMA OutcomeFields ==
  ASSUME NEW user, NEW error
  PROVE  /\ Changed(user).user = user /\ Changed(user).status = "changed"
         /\ Unchanged(user).user = user /\ Unchanged(user).status = "unchanged"
         /\ Refused(user, error).user = user /\ Refused(user, error).status = error
BY DEF Changed, Unchanged, Refused, Outcome

\* The favorite is there the second time.
LEMMA AddFavoriteApplies ==
  ASSUME NEW user, WellKept(user), NEW r \in Request, r.op = "add_favorite"
  PROVE  AppliesWell(user, r)
<1> DEFINE new == Append(user.favorites, r.track)
           after == [user EXCEPT !.favorites = new]
<1>0. r.track \in Tracks /\ user \in UserData
  BY DEF Request, WellKept
<1>1. \A u : Apply(u, r) = AddFavorite(u, r.track)
  BY DEF Apply
<1>2. CASE \/ Contains(user.favorites, r.track)
           \/ Len(user.favorites) >= MaxFavorites
  <2>1. Apply(user, r) \in {Unchanged(user), Refused(user, "data_limit")}
    BY <1>1, <1>2 DEF AddFavorite
  <2> QED BY <2>1, OutcomeFields, NothingChanged
<1>3. CASE /\ ~Contains(user.favorites, r.track)
           /\ ~(Len(user.favorites) >= MaxFavorites)
  <2>1. user.favorites \in Seq(Tracks) /\ IsInjective(user.favorites)
        /\ \A i \in 1..Len(user.favorites) : user.favorites[i] # r.track
    BY <1>0, <1>3, UserFields DEF WellKept, DistinctUser, Contains
  <2>2. new \in Seq(Tracks) /\ IsInjective(new)
    BY <1>0, <2>1, AppendKeepsInjective
  <2>3. Contains(new, r.track)
    <3>1. Len(new) = Len(user.favorites) + 1 /\ Len(user.favorites) \in Nat
          /\ new[Len(user.favorites) + 1] = r.track
      BY <1>0, <2>1, AppendProperties, LenProperties
    <3> QED BY <3>1 DEF Contains
  <2> HIDE DEF new
  <2>4. /\ after \in UserData /\ after.favorites = new
        /\ after.playlists = user.playlists
    BY <1>0, <2>2, UserFields
  <2> HIDE DEF after
  <2>5. Apply(user, r).user = after
    BY <1>1, <1>3, OutcomeFields DEF AddFavorite, after, new
  <2>6. Apply(after, r) = Unchanged(after)
    BY <1>1, <2>3, <2>4 DEF AddFavorite
  <2>7. RetryIsSafe(user, r)
    BY <2>5, <2>6, OutcomeFields DEF RetryIsSafe
  <2> QED BY <2>2, <2>4, <2>5, <2>7 DEF AppliesWell, WellKept, DistinctUser
<1> QED BY <1>2, <1>3

\* The favorite is gone the second time.
LEMMA RemoveFavoriteApplies ==
  ASSUME NEW user, WellKept(user), NEW r \in Request, r.op = "remove_favorite"
  PROVE  AppliesWell(user, r)
<1> DEFINE new == RemoveFirst(user.favorites, r.track)
           after == [user EXCEPT !.favorites = new]
<1>0. r.track \in Tracks /\ user \in UserData
  BY DEF Request, WellKept
<1>1. \A u : Apply(u, r) = RemoveFavorite(u, r.track)
  BY DEF Apply
<1>2. CASE ~Contains(user.favorites, r.track)
  <2>1. Apply(user, r) = Unchanged(user)
    BY <1>1, <1>2 DEF RemoveFavorite
  <2> QED BY <2>1, OutcomeFields, NothingChanged
<1>3. CASE Contains(user.favorites, r.track)
  <2>1. user.favorites \in Seq(Tracks) /\ IsInjective(user.favorites)
    BY <1>0, UserFields DEF WellKept, DistinctUser
  <2>2. new \in Seq(Tracks) /\ IsInjective(new) /\ ~Contains(new, r.track)
    BY <1>3, <2>1, RemoveFirstFacts
  <2>3. Apply(user, r) = Changed(after)
    BY <1>1, <1>3 DEF RemoveFavorite
  <2> HIDE DEF new
  <2>4. /\ after \in UserData /\ after.favorites = new
        /\ after.playlists = user.playlists
    BY <1>0, <2>2, UserFields
  <2> HIDE DEF after
  <2>5. Apply(user, r).user = after
    BY <2>3, OutcomeFields
  <2>6. Apply(after, r) = Unchanged(after)
    BY <1>1, <2>2, <2>4 DEF RemoveFavorite
  <2>7. RetryIsSafe(user, r)
    BY <2>5, <2>6, OutcomeFields DEF RetryIsSafe
  <2> QED BY <2>2, <2>4, <2>5, <2>7 DEF AppliesWell, WellKept, DistinctUser
<1> QED BY <1>2, <1>3

\* The mode is set the second time.
LEMMA SetPlaybackModeApplies ==
  ASSUME NEW user, WellKept(user), NEW r \in Request, r.op = "set_playback_mode"
  PROVE  AppliesWell(user, r)
<1> DEFINE after == [user EXCEPT !.mode = r.mode]
<1>0. r.mode \in PlaybackModes /\ user \in UserData
  BY DEF Request, WellKept
<1>1. \A u : Apply(u, r) = SetPlaybackMode(u, r.mode)
  BY DEF Apply
<1>2. CASE user.mode = r.mode
  <2>1. Apply(user, r) = Unchanged(user)
    BY <1>1, <1>2 DEF SetPlaybackMode
  <2> QED BY <2>1, OutcomeFields, NothingChanged
<1>3. CASE user.mode # r.mode
  <2>1. Apply(user, r) = Changed(after)
    BY <1>1, <1>3 DEF SetPlaybackMode
  <2>2. /\ after \in UserData /\ after.mode = r.mode
        /\ after.favorites = user.favorites /\ after.playlists = user.playlists
    BY <1>0, UserFields
  <2> HIDE DEF after
  <2>3. Apply(user, r).user = after
    BY <2>1, OutcomeFields
  <2>4. Apply(after, r) = Unchanged(after)
    BY <1>1, <2>2 DEF SetPlaybackMode
  <2>5. RetryIsSafe(user, r)
    BY <2>3, <2>4, OutcomeFields DEF RetryIsSafe
  <2> QED BY <2>2, <2>3, <2>5 DEF AppliesWell, WellKept, DistinctUser
<1> QED BY <1>2, <1>3

\* The playlist is found the second time, under the name it was given: no
\* conflict, and no limit, which is tested after it.
LEMMA CreatePlaylistApplies ==
  ASSUME NEW user, WellKept(user), NEW r \in Request, r.op = "create_playlist"
  PROVE  AppliesWell(user, r)
<1> DEFINE lists == user.playlists
           i == PlaylistIndex(lists, r.playlist)
           p == [id |-> r.playlist, name |-> r.name, tracks |-> <<>>]
           new == Append(lists, p)
           after == [user EXCEPT !.playlists = new]
<1>0. /\ r.playlist \in PlaylistIds /\ r.name \in Names /\ user \in UserData
      /\ lists \in Seq(Playlist) /\ DistinctLists(lists)
  BY UserFields DEF Request, WellKept, DistinctUser
<1>1. \A u : Apply(u, r) = CreatePlaylist(u, r.playlist, r.name)
  BY DEF Apply
<1>2. CASE i # 0 \/ Len(lists) >= MaxPlaylists
  <2>1. Apply(user, r) \in
          {Unchanged(user), Refused(user, "conflict"), Refused(user, "data_limit")}
    BY <1>1, <1>2 DEF CreatePlaylist
  <2> QED BY <2>1, OutcomeFields, NothingChanged
<1>3. CASE i = 0 /\ ~(Len(lists) >= MaxPlaylists)
  <2>1. Apply(user, r) = Changed(after)
    BY <1>1, <1>3 DEF CreatePlaylist
  <2>2. p \in Playlist /\ p.id = r.playlist /\ p.name = r.name /\ p.tracks = <<>>
        /\ IsInjective(<<>>)
    BY <1>0 DEF Playlist, IsInjective
  <2>3. \A j \in 1..Len(lists) : lists[j].id # r.playlist
    BY <1>0, <1>3, PlaylistIndexFacts
  <2> HIDE DEF p, lists
  <2>4. /\ new \in Seq(Playlist) /\ Len(new) = Len(lists) + 1 /\ Len(lists) \in Nat
        /\ \A j \in 1..Len(lists) : new[j] = lists[j]
        /\ new[Len(lists) + 1] = p
    BY <1>0, <2>2, AppendProperties, LenProperties
  <2> HIDE DEF new
  <2>5. DistinctLists(new)
    <3>1. \A j \in 1..Len(new) : j \in 1..Len(lists) \/ j = Len(lists) + 1
      BY <2>4
    <3> QED BY <1>0, <2>2, <2>4, <3>1 DEF DistinctLists
  <2>6. PlaylistIndex(new, r.playlist) = Len(lists) + 1
    <3> DEFINE m == Len(lists) + 1
    <3>1. m \in 1..Len(new) /\ new[m].id = r.playlist
      BY <2>2, <2>4
    <3>2. \A j \in 1..m - 1 : new[j].id # r.playlist
      BY <2>3, <2>4
    <3> HIDE DEF m
    <3>3. PlaylistIndex(new, r.playlist) = m
      BY <2>4, <3>1, <3>2, PlaylistIndexIs
    <3> QED BY <3>3 DEF m
  <2>7. /\ after \in UserData /\ after.playlists = new
        /\ after.favorites = user.favorites
    BY <1>0, <2>4, UserFields
  <2> HIDE DEF after
  <2>8. Apply(user, r).user = after
    BY <2>1, OutcomeFields
  <2>9. Apply(after, r) = Unchanged(after)
    <3>1. PICK m : m = Len(lists) + 1
      OBVIOUS
    <3>2. m # 0 /\ PlaylistIndex(after.playlists, r.playlist) = m
          /\ after.playlists[m].name = r.name
      BY <2>2, <2>4, <2>6, <2>7, <3>1
    <3>3. CreatePlaylist(after, r.playlist, r.name) = Unchanged(after)
      BY <3>2 DEF CreatePlaylist
    <3> QED BY <1>1, <3>3
  <2>10. RetryIsSafe(user, r)
    BY <2>8, <2>9, OutcomeFields DEF RetryIsSafe
  <2> QED BY <2>5, <2>7, <2>8, <2>10 DEF AppliesWell, WellKept, DistinctUser
<1> QED BY <1>2, <1>3

\* The account with another playlist in the place of one.
WithPlaylist(user, i, p) == [user EXCEPT !.playlists = [@ EXCEPT ![i] = p]]

\* A playlist that is found is given another name, or other tracks.
LEMMA PlaylistReplaced ==
  ASSUME NEW user, WellKept(user), NEW id, NEW i,
         i = PlaylistIndex(user.playlists, id), i # 0,
         NEW p \in Playlist, p.id = user.playlists[i].id, IsInjective(p.tracks)
  PROVE  /\ WithPlaylist(user, i, p) \in UserData
         /\ DistinctUser(WithPlaylist(user, i, p))
         /\ PlaylistIndex(WithPlaylist(user, i, p).playlists, id) = i
         /\ WithPlaylist(user, i, p).playlists[i] = p
<1> DEFINE lists == user.playlists
           new == [lists EXCEPT ![i] = p]
<1>1. /\ lists \in Seq(Playlist) /\ DistinctLists(lists) /\ user \in UserData
      /\ Len(lists) \in Nat /\ IsInjective(user.favorites)
  BY UserFields, LenProperties DEF WellKept, DistinctUser
<1>2. /\ i \in 1..Len(lists) /\ lists[i].id = id
      /\ \A j \in 1..i - 1 : lists[j].id # id
  BY <1>1, PlaylistIndexFacts
<1>3. /\ new \in Seq(Playlist) /\ Len(new) = Len(lists) /\ new[i] = p
      /\ \A j \in 1..Len(lists) : j # i => new[j] = lists[j]
  BY <1>1, <1>2, ExceptSeq
<1>4. p.id = id
  BY <1>2
<1>0. WithPlaylist(user, i, p) = [user EXCEPT !.playlists = new]
  BY DEF WithPlaylist
<1> HIDE DEF lists, new
<1>5. DistinctLists(new)
  BY <1>1, <1>3 DEF DistinctLists
<1>6. \A j \in 1..i - 1 : new[j].id # id
  BY <1>1, <1>2, <1>3
<1>7. PlaylistIndex(new, id) = i
  BY <1>2, <1>3, <1>4, <1>6, PlaylistIndexIs
<1>8. /\ [user EXCEPT !.playlists = new] \in UserData
      /\ [user EXCEPT !.playlists = new].playlists = new
      /\ [user EXCEPT !.playlists = new].favorites = user.favorites
  <2>1. user \in UserData /\ new \in Seq(Playlist)
    BY <1>1, <1>3
  <2> QED BY <2>1, UserFields
<1> QED BY <1>0, <1>1, <1>3, <1>5, <1>7, <1>8 DEF DistinctUser

\* The playlist has the name the second time.
LEMMA RenamePlaylistApplies ==
  ASSUME NEW user, WellKept(user), NEW r \in Request, r.op = "rename_playlist"
  PROVE  AppliesWell(user, r)
<1> DEFINE i == PlaylistIndex(user.playlists, r.playlist)
           old == user.playlists[i]
           p == [old EXCEPT !.name = r.name]
           after == WithPlaylist(user, i, p)
<1>0. /\ r.playlist \in PlaylistIds /\ r.name \in Names /\ user \in UserData
      /\ user.playlists \in Seq(Playlist) /\ DistinctLists(user.playlists)
  BY UserFields DEF Request, WellKept, DistinctUser
<1>1. \A u : Apply(u, r) = RenamePlaylist(u, r.playlist, r.name)
  BY DEF Apply
<1>2. CASE i = 0
  <2>1. Apply(user, r) = Refused(user, "not_found")
    BY <1>1, <1>2 DEF RenamePlaylist
  <2> QED BY <2>1, OutcomeFields, NothingChanged
<1>3. CASE i # 0 /\ old.name = r.name
  <2>1. Apply(user, r) = Unchanged(user)
    BY <1>1, <1>3 DEF RenamePlaylist
  <2> QED BY <2>1, OutcomeFields, NothingChanged
<1>4. CASE i # 0 /\ old.name # r.name
  <2>1. Apply(user, r) = Changed(after)
    BY <1>1, <1>4 DEF RenamePlaylist, WithPlaylist
  <2>2. i \in 1..Len(user.playlists)
    BY <1>0, <1>4, PlaylistIndexFacts, LenProperties
  <2> HIDE DEF i
  <2>3. old \in Playlist /\ IsInjective(old.tracks)
    BY <1>0, <2>2, ElementOfSeq DEF DistinctLists
  <2> HIDE DEF old
  <2>4. p \in Playlist /\ p.id = old.id /\ p.name = r.name /\ IsInjective(p.tracks)
    BY <1>0, <2>3 DEF Playlist
  <2> HIDE DEF p
  <2>5. /\ after \in UserData /\ DistinctUser(after)
        /\ PlaylistIndex(after.playlists, r.playlist) = i
        /\ after.playlists[i] = p
    <3>1. i = PlaylistIndex(user.playlists, r.playlist) /\ i # 0
          /\ p.id = user.playlists[i].id
      BY <1>4, <2>4 DEF i, old
    <3> QED BY <2>4, <3>1, PlaylistReplaced
  <2> HIDE DEF after
  <2>6. Apply(user, r).user = after
    BY <2>1, OutcomeFields
  <2>7. Apply(after, r) = Unchanged(after)
    BY <1>1, <1>4, <2>4, <2>5 DEF RenamePlaylist
  <2>8. RetryIsSafe(user, r)
    BY <2>6, <2>7, OutcomeFields DEF RetryIsSafe
  <2> QED BY <2>5, <2>6, <2>8 DEF AppliesWell
<1> QED BY <1>2, <1>3, <1>4

\* The track is in the playlist the second time, before the limit is tested.
LEMMA AddPlaylistTrackApplies ==
  ASSUME NEW user, WellKept(user), NEW r \in Request, r.op = "add_track"
  PROVE  AppliesWell(user, r)
<1> DEFINE i == PlaylistIndex(user.playlists, r.playlist)
           old == user.playlists[i]
           new == Append(old.tracks, r.track)
           p == [old EXCEPT !.tracks = new]
           after == WithPlaylist(user, i, p)
<1>0. /\ r.playlist \in PlaylistIds /\ r.track \in Tracks /\ user \in UserData
      /\ user.playlists \in Seq(Playlist) /\ DistinctLists(user.playlists)
  BY UserFields DEF Request, WellKept, DistinctUser
<1>1. \A u : Apply(u, r) = AddPlaylistTrack(u, r.playlist, r.track)
  BY DEF Apply
<1>2. CASE \/ i = 0 \/ Contains(old.tracks, r.track)
           \/ Len(old.tracks) >= MaxPlaylistTracks
  <2>1. Apply(user, r) \in
          {Unchanged(user), Refused(user, "not_found"), Refused(user, "data_limit")}
    BY <1>1, <1>2 DEF AddPlaylistTrack
  <2> QED BY <2>1, OutcomeFields, NothingChanged
<1>3. CASE /\ i # 0 /\ ~Contains(old.tracks, r.track)
           /\ ~(Len(old.tracks) >= MaxPlaylistTracks)
  <2>1. Apply(user, r) = Changed(after)
    BY <1>1, <1>3 DEF AddPlaylistTrack, WithPlaylist
  <2>2. i \in 1..Len(user.playlists)
    BY <1>0, <1>3, PlaylistIndexFacts, LenProperties
  <2> HIDE DEF i
  <2>3. old \in Playlist /\ IsInjective(old.tracks) /\ old.tracks \in Seq(Tracks)
    BY <1>0, <2>2, ListsTyped DEF DistinctLists
  <2> HIDE DEF old
  <2>4. new \in Seq(Tracks) /\ IsInjective(new) /\ Contains(new, r.track)
    <3>1. \A j \in 1..Len(old.tracks) : old.tracks[j] # r.track
      BY <1>3 DEF Contains
    <3>2. new \in Seq(Tracks) /\ IsInjective(new)
      BY <1>0, <2>3, <3>1, AppendKeepsInjective
    <3>3. Len(new) = Len(old.tracks) + 1 /\ Len(old.tracks) \in Nat
          /\ new[Len(old.tracks) + 1] = r.track
      BY <1>0, <2>3, AppendProperties, LenProperties
    <3> QED BY <3>2, <3>3 DEF Contains
  <2> HIDE DEF new
  <2>5. p \in Playlist /\ p.id = old.id /\ p.tracks = new /\ IsInjective(p.tracks)
    BY <2>3, <2>4 DEF Playlist
  <2> HIDE DEF p
  <2>6. /\ after \in UserData /\ DistinctUser(after)
        /\ PlaylistIndex(after.playlists, r.playlist) = i
        /\ after.playlists[i] = p
    <3>1. i = PlaylistIndex(user.playlists, r.playlist) /\ i # 0
          /\ p.id = user.playlists[i].id
      BY <1>3, <2>5 DEF i, old
    <3> QED BY <2>5, <3>1, PlaylistReplaced
  <2> HIDE DEF after
  <2>7. Apply(user, r).user = after
    BY <2>1, OutcomeFields
  <2>8. Apply(after, r) = Unchanged(after)
    BY <1>1, <1>3, <2>4, <2>5, <2>6 DEF AddPlaylistTrack
  <2>9. RetryIsSafe(user, r)
    BY <2>7, <2>8, OutcomeFields DEF RetryIsSafe
  <2> QED BY <2>6, <2>7, <2>9 DEF AppliesWell
<1> QED BY <1>2, <1>3

\* The track is not in the playlist the second time.
LEMMA RemovePlaylistTrackApplies ==
  ASSUME NEW user, WellKept(user), NEW r \in Request, r.op = "remove_track"
  PROVE  AppliesWell(user, r)
<1> DEFINE i == PlaylistIndex(user.playlists, r.playlist)
           old == user.playlists[i]
           new == RemoveFirst(old.tracks, r.track)
           p == [old EXCEPT !.tracks = new]
           after == WithPlaylist(user, i, p)
<1>0. /\ r.playlist \in PlaylistIds /\ r.track \in Tracks /\ user \in UserData
      /\ user.playlists \in Seq(Playlist) /\ DistinctLists(user.playlists)
  BY UserFields DEF Request, WellKept, DistinctUser
<1>1. \A u : Apply(u, r) = RemovePlaylistTrack(u, r.playlist, r.track)
  BY DEF Apply
<1>2. CASE i = 0 \/ ~Contains(old.tracks, r.track)
  <2>1. Apply(user, r) \in {Unchanged(user), Refused(user, "not_found")}
    BY <1>1, <1>2 DEF RemovePlaylistTrack
  <2> QED BY <2>1, OutcomeFields, NothingChanged
<1>3. CASE i # 0 /\ Contains(old.tracks, r.track)
  <2>1. Apply(user, r) = Changed(after)
    BY <1>1, <1>3 DEF RemovePlaylistTrack, WithPlaylist
  <2>2. i \in 1..Len(user.playlists)
    BY <1>0, <1>3, PlaylistIndexFacts, LenProperties
  <2> HIDE DEF i
  <2>3. old \in Playlist /\ IsInjective(old.tracks) /\ old.tracks \in Seq(Tracks)
    BY <1>0, <2>2, ListsTyped DEF DistinctLists
  <2> HIDE DEF old
  <2>4. new \in Seq(Tracks) /\ IsInjective(new) /\ ~Contains(new, r.track)
    BY <1>3, <2>3, RemoveFirstFacts
  <2> HIDE DEF new
  <2>5. p \in Playlist /\ p.id = old.id /\ p.tracks = new /\ IsInjective(p.tracks)
    BY <2>3, <2>4 DEF Playlist
  <2> HIDE DEF p
  <2>6. /\ after \in UserData /\ DistinctUser(after)
        /\ PlaylistIndex(after.playlists, r.playlist) = i
        /\ after.playlists[i] = p
    <3>1. i = PlaylistIndex(user.playlists, r.playlist) /\ i # 0
          /\ p.id = user.playlists[i].id
      BY <1>3, <2>5 DEF i, old
    <3> QED BY <2>5, <3>1, PlaylistReplaced
  <2> HIDE DEF after
  <2>7. Apply(user, r).user = after
    BY <2>1, OutcomeFields
  <2>8. Apply(after, r) = Unchanged(after)
    BY <1>1, <1>3, <2>4, <2>5, <2>6 DEF RemovePlaylistTrack
  <2>9. RetryIsSafe(user, r)
    BY <2>7, <2>8, OutcomeFields DEF RetryIsSafe
  <2> QED BY <2>6, <2>7, <2>9 DEF AppliesWell
<1> QED BY <1>2, <1>3

\* The only request whose repetition is refused: the playlist is gone, which
\* takes that no other one has its id.
LEMMA DeletePlaylistApplies ==
  ASSUME NEW user, WellKept(user), NEW r \in Request, r.op = "delete_playlist"
  PROVE  AppliesWell(user, r)
<1> DEFINE lists == user.playlists
           i == PlaylistIndex(lists, r.playlist)
           new == RemoveAt(lists, i)
           after == [user EXCEPT !.playlists = new]
<1>0. /\ r.playlist \in PlaylistIds /\ user \in UserData
      /\ lists \in Seq(Playlist) /\ Len(lists) \in Nat
      /\ DistinctLists(lists) /\ UniqueIds(lists)
  BY UserFields, LenProperties DEF Request, WellKept, DistinctUser
<1>1. \A u : Apply(u, r) = DeletePlaylist(u, r.playlist)
  BY DEF Apply
<1>2. CASE i = 0
  <2>1. Apply(user, r) = Refused(user, "not_found")
    BY <1>1, <1>2 DEF DeletePlaylist
  <2> QED BY <2>1, OutcomeFields, NothingChanged
<1>3. CASE i # 0
  <2>1. Apply(user, r) = Changed(after)
    BY <1>1, <1>3 DEF DeletePlaylist
  <2>2. i \in 1..Len(lists) /\ lists[i].id = r.playlist
    BY <1>0, <1>3, PlaylistIndexFacts
  <2> HIDE DEF i, lists
  <2>3. /\ new \in Seq(Playlist) /\ Len(new) = Len(lists) - 1
        /\ \A j \in 1..Len(lists) - 1 :
             new[j] = IF j < i THEN lists[j] ELSE lists[j + 1]
    BY <1>0, <2>2, RemoveAtProperties
  <2> HIDE DEF new
  <2>4. \A j \in 1..Len(new) : \E k \in 1..Len(lists) : k # i /\ new[j] = lists[k]
    <3> SUFFICES ASSUME NEW j \in 1..Len(new)
                 PROVE  \E k \in 1..Len(lists) : k # i /\ new[j] = lists[k]
      OBVIOUS
    <3>1. CASE j < i
      BY <1>0, <2>2, <2>3, <3>1
    <3>2. CASE ~(j < i)
      BY <1>0, <2>2, <2>3, <3>2
    <3> QED BY <3>1, <3>2
  <2>5. DistinctLists(new)
    BY <1>0, <2>4 DEF DistinctLists
  <2>6. \A j \in 1..Len(new) : new[j].id # r.playlist
    BY <1>0, <2>2, <2>4 DEF UniqueIds
  <2>7. PlaylistIndex(new, r.playlist) = 0
    <3>1. /\ PlaylistIndex(new, r.playlist) \in 0..Len(new)
          /\ PlaylistIndex(new, r.playlist) # 0 =>
               new[PlaylistIndex(new, r.playlist)].id = r.playlist
      BY <2>3, PlaylistIndexFacts
    <3>2. Len(new) \in Nat
      BY <2>3, LenProperties
    <3> QED BY <2>6, <3>1, <3>2
  <2>8. /\ after \in UserData /\ after.playlists = new
        /\ after.favorites = user.favorites
    BY <1>0, <2>3, UserFields
  <2> HIDE DEF after
  <2>9. Apply(user, r).user = after
    BY <2>1, OutcomeFields
  <2>10. Apply(after, r) = Refused(after, "not_found")
    BY <1>1, <2>7, <2>8 DEF DeletePlaylist
  <2>11. RetryIsSafe(user, r)
    BY <2>9, <2>10, OutcomeFields DEF RetryIsSafe
  <2> QED BY <2>5, <2>8, <2>9, <2>11 DEF AppliesWell, WellKept, DistinctUser
<1> QED BY <1>2, <1>3

-----------------------------------------------------------------------------
(***************************************************************************)
(* Imports.                                                                *)
(***************************************************************************)

\* The account with everything of the older library.
Merged(user, r) == [revision  |-> user.revision,
                    favorites |-> AppendMissing(user.favorites, r.favorites),
                    playlists |-> MergedPlaylists(user.playlists, r.playlists),
                    mode      |-> user.mode]

\* A list of the account is over its limit.
Overflows(user) ==
  \/ Len(user.favorites) > MaxFavorites
  \/ Len(user.playlists) > MaxPlaylists
  \/ \E i \in DOMAIN user.playlists :
       Len(user.playlists[i].tracks) > MaxPlaylistTracks

\* The three outcomes of an import: refused, nothing to add, merged.
LEMMA ImportOutcome ==
  ASSUME NEW user, NEW r \in Request, r.op = "import"
  PROVE  /\ Apply(user, r).user \in {user, Merged(user, r)}
         /\ Apply(user, r).status = "changed" =>
              /\ Apply(user, r).user = Merged(user, r)
              /\ ImportError(r.favorites, r.playlists) = "none"
              /\ ~Overflows(Merged(user, r))
         /\ (/\ ImportError(r.favorites, r.playlists) = "none"
             /\ ~Overflows(user) /\ Merged(user, r) = user) =>
              Apply(user, r) = Unchanged(user)
<1> DEFINE error == ImportError(r.favorites, r.playlists)
<1>1. Apply(user, r) =
        IF error # "none" THEN Refused(user, error)
        ELSE IF Overflows(Merged(user, r)) THEN Refused(user, "data_limit")
        ELSE IF Merged(user, r) = user THEN Unchanged(user)
        ELSE Changed(Merged(user, r))
  BY DEF Apply, ImportCollections, Merged, Overflows
<1>2. error \in {"none", "data_limit", "invalid_playlist"}
  BY DEF ImportError
<1> HIDE DEF error
<1>3. CASE error # "none"
  BY <1>1, <1>2, <1>3, OutcomeFields DEF error
<1>4. CASE error = "none" /\ Overflows(Merged(user, r))
  BY <1>1, <1>4, OutcomeFields
<1>5. CASE error = "none" /\ ~Overflows(Merged(user, r)) /\ Merged(user, r) = user
  BY <1>1, <1>5, OutcomeFields
<1>6. CASE error = "none" /\ ~Overflows(Merged(user, r)) /\ Merged(user, r) # user
  BY <1>1, <1>6, OutcomeFields DEF error
<1> QED BY <1>3, <1>4, <1>5, <1>6

\* The merge keeps and adds, and has nothing to add a second time.
LEMMA MergedFacts ==
  ASSUME NEW user \in UserData, NEW r \in Request, r.op = "import"
  PROVE  /\ Merged(user, r) \in UserData
         /\ DistinctUser(user) => DistinctUser(Merged(user, r))
         /\ Extends(Merged(user, r).favorites, user.favorites)
         /\ ListsExtend(Merged(user, r).playlists, user.playlists)
         /\ Merged(Merged(user, r), r) = Merged(user, r)
<1> DEFINE new == Merged(user, r)
<1>1. r.favorites \in Seq(Tracks) /\ r.playlists \in Seq(Playlist)
  BY DEF Request
<1>2. /\ user.revision \in Nat /\ user.favorites \in Seq(Tracks)
      /\ user.playlists \in Seq(Playlist) /\ user.mode \in PlaybackModes
  BY UserFields
<1>3. /\ AppendMissing(user.favorites, r.favorites) \in Seq(Tracks)
      /\ Extends(AppendMissing(user.favorites, r.favorites), user.favorites)
      /\ IsInjective(user.favorites) =>
           IsInjective(AppendMissing(user.favorites, r.favorites))
      /\ \A i \in 1..Len(r.favorites) :
           Contains(AppendMissing(user.favorites, r.favorites), r.favorites[i])
  BY <1>1, <1>2, AppendMissingFacts
<1>4. /\ MergedPlaylists(user.playlists, r.playlists) \in Seq(Playlist)
      /\ ListsExtend(MergedPlaylists(user.playlists, r.playlists), user.playlists)
      /\ DistinctLists(user.playlists) =>
           DistinctLists(MergedPlaylists(user.playlists, r.playlists))
      /\ \A j \in 1..Len(r.playlists) :
           IsMerged(MergedPlaylists(user.playlists, r.playlists), r.playlists[j])
  BY <1>1, <1>2, MergedPlaylistsFacts
<1>5. /\ new.revision = user.revision /\ new.mode = user.mode
      /\ new.favorites = AppendMissing(user.favorites, r.favorites)
      /\ new.playlists = MergedPlaylists(user.playlists, r.playlists)
      /\ new = [revision |-> new.revision, favorites |-> new.favorites,
                playlists |-> new.playlists, mode |-> new.mode]
  BY DEF Merged
<1>6. new \in UserData
  BY <1>2, <1>3, <1>4, <1>5 DEF UserData
<1> HIDE DEF new
<1>7. /\ new.favorites \in Seq(Tracks)
      /\ \A i \in 1..Len(r.favorites) : Contains(new.favorites, r.favorites[i])
  BY <1>3, <1>5
<1>8. AppendMissing(new.favorites, r.favorites) = new.favorites
  BY <1>1, <1>7, AppendMissingFacts
<1>9. /\ new.playlists \in Seq(Playlist)
      /\ \A j \in 1..Len(r.playlists) : IsMerged(new.playlists, r.playlists[j])
  BY <1>4, <1>5
<1>10. MergedPlaylists(new.playlists, r.playlists) = new.playlists
  BY <1>1, <1>9, MergedPlaylistsFacts
<1>11. Merged(new, r) = new
  BY <1>5, <1>8, <1>10 DEF Merged
<1>12. DistinctUser(user) => DistinctUser(new)
  BY <1>3, <1>4, <1>5 DEF DistinctUser
<1> QED BY <1>3, <1>4, <1>5, <1>6, <1>11, <1>12 DEF new

\* The import is merged already the second time, and its limits, that held
\* after the first, hold.
LEMMA ImportApplies ==
  ASSUME NEW user, WellKept(user), NEW r \in Request, r.op = "import"
  PROVE  AppliesWell(user, r)
<1> DEFINE new == Merged(user, r)
<1>1. user \in UserData /\ DistinctUser(user)
  BY DEF WellKept
<1>2. new \in UserData /\ DistinctUser(new) /\ Merged(new, r) = new
  BY <1>1, MergedFacts
<1> HIDE DEF new
<1>3. /\ Apply(user, r).user \in {user, new}
      /\ Apply(user, r).status = "changed" =>
           /\ Apply(user, r).user = new
           /\ ImportError(r.favorites, r.playlists) = "none"
           /\ ~Overflows(new)
  BY ImportOutcome DEF new
<1>4. (/\ ImportError(r.favorites, r.playlists) = "none"
       /\ ~Overflows(new)) => Apply(new, r) = Unchanged(new)
  BY <1>2, ImportOutcome
<1>5. RetryIsSafe(user, r)
  BY <1>3, <1>4, OutcomeFields DEF RetryIsSafe
<1> QED BY <1>1, <1>2, <1>3, <1>5 DEF AppliesWell

\* Every request keeps the lists of an account free of repetitions, and can
\* be repeated.
LEMMA RequestApplies ==
  ASSUME NEW user, WellKept(user), NEW r \in Request
  PROVE  AppliesWell(user, r)
<1>1. r.op \in {"add_favorite", "remove_favorite", "create_playlist",
                "rename_playlist", "delete_playlist", "add_track",
                "remove_track", "import", "set_playback_mode"}
  BY DEF Request
<1> QED
  BY <1>1, AddFavoriteApplies, RemoveFavoriteApplies, CreatePlaylistApplies,
     RenamePlaylistApplies, DeletePlaylistApplies, AddPlaylistTrackApplies,
     RemovePlaylistTrackApplies, ImportApplies, SetPlaybackModeApplies

\* ImportOnlyAdds, of one account and one request.
LEMMA ImportAdds ==
  ASSUME NEW before \in UserData, NEW r \in Request, r.op = "import",
         NEW after, after = Apply(before, r).user
  PROVE  /\ IsPrefix(before.favorites, after.favorites)
         /\ Len(before.playlists) <= Len(after.playlists)
         /\ \A i \in DOMAIN before.playlists :
              /\ after.playlists[i].id = before.playlists[i].id
              /\ after.playlists[i].name = before.playlists[i].name
              /\ IsPrefix(before.playlists[i].tracks, after.playlists[i].tracks)
<1>1. after \in {before, Merged(before, r)}
  BY ImportOutcome
<1>2. /\ after \in UserData /\ Extends(after.favorites, before.favorites)
      /\ ListsExtend(after.playlists, before.playlists)
  <2>1. /\ before.favorites \in Seq(Tracks) /\ before.playlists \in Seq(Playlist)
    BY UserFields
  <2>2. Extends(before.favorites, before.favorites)
    BY <2>1, LenProperties DEF Extends
  <2>3. ListsExtend(before.playlists, before.playlists)
    BY <2>1, ListsExtendReflexive
  <2> QED BY <1>1, <2>2, <2>3, MergedFacts
<1>3. /\ before.favorites \in Seq(Tracks) /\ after.favorites \in Seq(Tracks)
      /\ before.playlists \in Seq(Playlist) /\ after.playlists \in Seq(Playlist)
  BY <1>2, UserFields
<1>4. IsPrefix(before.favorites, after.favorites)
  BY <1>2, <1>3, ExtendsIsPrefix
<1>5. ASSUME NEW i \in DOMAIN before.playlists
      PROVE  /\ after.playlists[i].id = before.playlists[i].id
             /\ after.playlists[i].name = before.playlists[i].name
             /\ IsPrefix(before.playlists[i].tracks, after.playlists[i].tracks)
  <2>1. i \in 1..Len(before.playlists) /\ i \in 1..Len(after.playlists)
    BY <1>2, <1>3, LenProperties DEF ListsExtend
  <2>2. /\ after.playlists[i].id = before.playlists[i].id
        /\ after.playlists[i].name = before.playlists[i].name
        /\ Extends(after.playlists[i].tracks, before.playlists[i].tracks)
    BY <1>2, <2>1 DEF ListsExtend
  <2>3. /\ before.playlists[i].tracks \in Seq(Tracks)
        /\ after.playlists[i].tracks \in Seq(Tracks)
    BY <1>3, <2>1, ListsTyped
  <2> QED BY <2>2, <2>3, ExtendsIsPrefix
<1> QED BY <1>2, <1>4, <1>5 DEF ListsExtend

\* A fold over no values.
LEMMA FoldNothing ==
  ASSUME NEW kind, NEW gone, NEW known
  PROVE  Folded(kind, gone, known, <<>>) = known
<1>1. DOMAIN <<>> = 1..0 /\ 0 \in Nat
  OBVIOUS
<1>2. PICK run : IsRun(kind, gone, known, <<>>, 0, run)
  BY <1>1, FoldRun
<1> QED BY <1>2 DEF IsRun

\* A fold over one more value.
LEMMA FoldOneMore ==
  ASSUME NEW kind, NEW gone, NEW known, NEW T, NEW values \in Seq(T), NEW x \in T
  PROVE  Folded(kind, gone, known, Append(values, x))
           = FoldStep(kind, gone, Folded(kind, gone, known, values), x)
<1> DEFINE n == Len(values)
           more == Append(values, x)
<1>1. /\ n \in Nat /\ n + 1 \in Nat /\ DOMAIN values = 1..n
      /\ DOMAIN more = 1..n + 1
      /\ \A i \in 1..n : more[i] = values[i]
      /\ more[n + 1] = x
  BY LenProperties, AppendProperties
<1> HIDE DEF n, more
<1>2. PICK old : IsRun(kind, gone, known, values, n, old)
  BY <1>1, FoldRun
<1>3. PICK new : IsRun(kind, gone, known, more, n + 1, new)
  BY <1>1, FoldRun
<1>4. /\ old[0] = known
      /\ \A k \in 1..n : old[k] = FoldStep(kind, gone, old[k - 1], values[k])
      /\ Folded(kind, gone, known, values) = old[n]
  BY <1>2 DEF IsRun
<1>5. /\ new[0] = known
      /\ \A k \in 1..n + 1 : new[k] = FoldStep(kind, gone, new[k - 1], more[k])
      /\ Folded(kind, gone, known, more) = new[n + 1]
  BY <1>3 DEF IsRun
<1> DEFINE S == {k \in 0..n : old[k] = new[k]}
<1>6. 0 \in S
  BY <1>1, <1>4, <1>5
<1>7. ASSUME NEW k \in 0..n - 1, k \in S PROVE k + 1 \in S
  <2>1. k + 1 \in 1..n /\ k + 1 \in 1..n + 1 /\ (k + 1) - 1 = k
        /\ k + 1 \in 0..n
    BY <1>1
  <2>2. /\ old[k + 1] = FoldStep(kind, gone, old[k], values[k + 1])
        /\ new[k + 1] = FoldStep(kind, gone, new[k], more[k + 1])
    BY <1>4, <1>5, <2>1
  <2>3. old[k] = new[k] /\ more[k + 1] = values[k + 1]
    BY <1>1, <1>7, <2>1
  <2> QED BY <2>1, <2>2, <2>3
<1>8. n \in S
  <2> HIDE DEF S
  <2>1. \A k \in 0..n : k \in S
    BY <1>1, <1>6, <1>7, HoldsUpTo
  <2> QED BY <1>1, <2>1
<1>9. new[n + 1] = FoldStep(kind, gone, new[n], x)
  <2>1. n + 1 \in 1..n + 1 /\ (n + 1) - 1 = n
    BY <1>1
  <2> QED BY <1>1, <1>5, <2>1
<1> QED BY <1>4, <1>5, <1>8, <1>9 DEF more

\* The prefixes of a list, and one more of its values.
LEMMA PrefixGrows ==
  ASSUME NEW T, NEW s \in Seq(T), NEW k \in 1..Len(s)
  PROVE  /\ s[k] \in T
         /\ SubSeq(s, 1, k - 1) \in Seq(T)
         /\ SubSeq(s, 1, k) = Append(SubSeq(s, 1, k - 1), s[k])
<1> DEFINE a == SubSeq(s, 1, k)
           b == SubSeq(s, 1, k - 1)
<1>1. Len(s) \in Nat /\ s[k] \in T /\ \A i \in 1..Len(s) : s[i] \in T
  BY LenProperties, ElementOfSeq
<1>2. a \in Seq(T) /\ Len(a) = k /\ \A i \in 1..k : a[i] = s[i]
  BY <1>1
<1>3. b \in Seq(T) /\ Len(b) = k - 1 /\ \A i \in 1..k - 1 : b[i] = s[i]
  BY <1>1
<1> HIDE DEF a, b
<1>4. /\ Append(b, s[k]) \in Seq(T) /\ Len(Append(b, s[k])) = k
      /\ \A i \in 1..k - 1 : Append(b, s[k])[i] = b[i]
      /\ Append(b, s[k])[k] = s[k]
  BY <1>1, <1>3, AppendProperties
<1>5. \A i \in 1..k : a[i] = Append(b, s[k])[i]
  BY <1>1, <1>2, <1>3, <1>4
<1>6. a = Append(b, s[k])
  BY <1>1, <1>2, <1>4, <1>5, SeqEqual
<1> QED BY <1>1, <1>3, <1>6 DEF a, b

\* What remains when some values are left out: all of a list that has none of
\* them, and the rest of a list that has one.
LEMMA WithoutFacts ==
  ASSUME NEW T, NEW values \in Seq(T), NEW gone
  PROVE  /\ Without(values, gone) \in Seq(T)
         /\ (\A i \in 1..Len(values) : values[i] \notin gone) =>
              Without(values, gone) = values
         /\ \A j \in 1..Len(values) :
              (\A i \in 1..Len(values) : values[i] \in gone <=> i = j) =>
                Without(values, gone) = RemoveAt(values, j)
<1> DEFINE n == Len(values)
<1>1. n \in Nat /\ DOMAIN values = 1..n /\ \A i \in 1..n : values[i] \in T
  BY LenProperties, ElementOfSeq
<1> HIDE DEF n
<1>2. PICK run : IsRun("keep", gone, <<>>, values, n, run)
  BY <1>1, FoldRun
<1>3. /\ run[0] = <<>>
      /\ \A k \in 1..n :
           run[k] = IF values[k] \in gone THEN run[k - 1]
                    ELSE Append(run[k - 1], values[k])
      /\ Without(values, gone) = run[n]
  BY <1>2, FoldsAreFolded DEF IsRun, FoldStep, KeepUnless
<1>4. \A k \in 0..n : run[k] \in Seq(T)
  <2> DEFINE S == {k \in 0..n : run[k] \in Seq(T)}
  <2>1. 0 \in S
    <3>1. run[0] \in Seq(T)
      BY <1>3
    <3> QED BY <1>1, <3>1
  <2>2. ASSUME NEW k \in 0..n - 1, k \in S PROVE k + 1 \in S
    <3>1. k + 1 \in 1..n /\ (k + 1) - 1 = k /\ k + 1 \in 0..n
      BY <1>1
    <3>2. run[k] \in Seq(T) /\ values[k + 1] \in T
      BY <1>1, <2>2, <3>1
    <3>3. run[k + 1] \in {run[k], Append(run[k], values[k + 1])}
      BY <1>3, <3>1
    <3>4. Append(run[k], values[k + 1]) \in Seq(T)
      BY <3>2, AppendProperties
    <3>5. run[k + 1] \in Seq(T)
      BY <3>2, <3>3, <3>4
    <3> QED BY <3>1, <3>5
  <2> HIDE DEF S
  <2>3. \A k \in 0..n : k \in S
    BY <1>1, <2>1, <2>2, HoldsUpTo
  <2> QED BY <2>3 DEF S
<1>5. ASSUME \A i \in 1..n : values[i] \notin gone
      PROVE  run[n] = values
  <2> DEFINE S == {k \in 0..n : /\ Len(run[k]) = k
                                /\ \A i \in 1..k : run[k][i] = values[i]}
  <2>1. 0 \in S
    BY <1>1, <1>3
  <2>2. ASSUME NEW k \in 0..n - 1, k \in S PROVE k + 1 \in S
    <3>1. k + 1 \in 1..n /\ (k + 1) - 1 = k /\ k + 1 \in 0..n /\ k \in 0..n
      BY <1>1
    <3>2. /\ run[k] \in Seq(T) /\ values[k + 1] \in T /\ Len(run[k]) = k
          /\ \A i \in 1..k : run[k][i] = values[i]
      BY <1>1, <1>4, <2>2, <3>1
    <3>3. run[k + 1] = Append(run[k], values[k + 1])
      BY <1>3, <1>5, <3>1
    <3>4. /\ Len(run[k + 1]) = k + 1
          /\ \A i \in 1..k : run[k + 1][i] = run[k][i]
          /\ run[k + 1][k + 1] = values[k + 1]
      BY <3>2, <3>3, AppendProperties
    <3>5. \A i \in 1..k + 1 : run[k + 1][i] = values[i]
      BY <3>1, <3>2, <3>4
    <3> QED BY <3>1, <3>4, <3>5
  <2> HIDE DEF S
  <2>3. n \in S
    BY <1>1, <2>1, <2>2, HoldsUpTo
  <2>4. run[n] \in Seq(T) /\ Len(run[n]) = n /\ \A i \in 1..n : run[n][i] = values[i]
    BY <1>1, <1>4, <2>3 DEF S
  <2> QED BY <1>1, <2>4, SeqEqual DEF n
<1>6. ASSUME NEW j \in 1..n, \A i \in 1..n : values[i] \in gone <=> i = j
      PROVE  run[n] = RemoveAt(values, j)
  <2> DEFINE Kept(k) == IF k < j THEN k ELSE k - 1
             S == {k \in 0..n :
                     /\ Len(run[k]) = Kept(k)
                     /\ \A i \in 1..Kept(k) :
                          run[k][i] = values[IF i < j THEN i ELSE i + 1]}
  <2>1. 0 \in S
    BY <1>1, <1>3
  <2>2. ASSUME NEW k \in 0..n - 1, k \in S PROVE k + 1 \in S
    <3>1. k + 1 \in 1..n /\ (k + 1) - 1 = k /\ k + 1 \in 0..n /\ k \in 0..n
      BY <1>1
    <3>2. /\ run[k] \in Seq(T) /\ values[k + 1] \in T /\ Len(run[k]) = Kept(k)
          /\ \A i \in 1..Kept(k) :
               run[k][i] = values[IF i < j THEN i ELSE i + 1]
      BY <1>1, <1>4, <2>2, <3>1
    <3>3. CASE k + 1 = j
      <4>1. run[k + 1] = run[k] /\ Kept(k + 1) = Kept(k)
        BY <1>3, <1>6, <3>1, <3>3
      <4> QED BY <3>1, <3>2, <4>1
    <3>4. CASE k + 1 # j
      <4>1. run[k + 1] = Append(run[k], values[k + 1])
        BY <1>3, <1>6, <3>1, <3>4
      <4>2. Kept(k + 1) = Kept(k) + 1 /\ Kept(k) \in Nat
            /\ (IF Kept(k) + 1 < j THEN Kept(k) + 1 ELSE Kept(k) + 2) = k + 1
        BY <1>1, <3>1, <3>4
      <4> HIDE DEF Kept
      <4>3. /\ Len(run[k + 1]) = Kept(k) + 1
            /\ \A i \in 1..Kept(k) : run[k + 1][i] = run[k][i]
            /\ run[k + 1][Kept(k) + 1] = values[k + 1]
        BY <3>2, <4>1, AppendProperties
      <4>4. \A i \in 1..Kept(k) + 1 :
              run[k + 1][i] = values[IF i < j THEN i ELSE i + 1]
        <5> SUFFICES ASSUME NEW i \in 1..Kept(k) + 1
                     PROVE  run[k + 1][i] = values[IF i < j THEN i ELSE i + 1]
          OBVIOUS
        <5>1. CASE i = Kept(k) + 1
          <6>1. (IF i < j THEN i ELSE i + 1) = k + 1
            BY <4>2, <5>1
          <6> QED BY <4>3, <5>1, <6>1
        <5>2. CASE i # Kept(k) + 1
          <6>1. i \in 1..Kept(k)
            BY <4>2, <5>2
          <6> QED BY <3>2, <4>3, <6>1
        <5> QED BY <5>1, <5>2
      <4> QED BY <3>1, <4>2, <4>3, <4>4
    <3> QED BY <3>3, <3>4
  <2>3. n \in S
    <3> HIDE DEF S, Kept
    <3> QED BY <1>1, <2>1, <2>2, HoldsUpTo
  <2>4. /\ run[n] \in Seq(T) /\ Len(run[n]) = n - 1
        /\ \A i \in 1..n - 1 : run[n][i] = values[IF i < j THEN i ELSE i + 1]
    BY <1>1, <1>4, <2>3
  <2>5. /\ RemoveAt(values, j) \in Seq(T) /\ Len(RemoveAt(values, j)) = n - 1
        /\ \A i \in 1..n - 1 : RemoveAt(values, j)[i] =
             IF i < j THEN values[i] ELSE values[i + 1]
    BY RemoveAtProperties DEF n
  <2>6. \A i \in 1..n - 1 : run[n][i] = RemoveAt(values, j)[i]
    BY <2>4, <2>5
  <2> QED BY <2>4, <2>5, <2>6, SeqEqual
<1> QED BY <1>1, <1>3, <1>4, <1>5, <1>6 DEF n

\* The requests that an outbox holds.
IsChange(r) == r \in Request /\ r.op \notin {"import", "set_playback_mode"}

\* No list has reached its limit.
Room(kept) ==
  /\ Len(kept.favorites) < MaxFavorites
  /\ Len(kept.playlists) < MaxPlaylists
  /\ \A i \in DOMAIN kept.playlists :
       Len(kept.playlists[i].tracks) < MaxPlaylistTracks

\* What the device makes of a change is what the server makes of it.
Agrees(user, r) ==
  /\ UniqueIds(Apply(user, r).user.playlists)
  /\ SnapshotOf(Apply(user, r).user) = Optimistic(SnapshotOf(user), r)

\* One list of a snapshot is replaced, on the server and on the device.
LEMMA SnapshotFields ==
  ASSUME NEW user \in UserData
  PROVE  /\ SnapshotOf(user) \in Snapshot
         /\ SnapshotOf(user).favorites = user.favorites
         /\ SnapshotOf(user).playlists = user.playlists
         /\ \A x \in Seq(Tracks) :
              SnapshotOf([user EXCEPT !.favorites = x])
                = [SnapshotOf(user) EXCEPT !.favorites = x]
         /\ \A x \in Seq(Playlist) :
              SnapshotOf([user EXCEPT !.playlists = x])
                = [SnapshotOf(user) EXCEPT !.playlists = x]
         /\ [SnapshotOf(user) EXCEPT !.favorites = user.favorites] = SnapshotOf(user)
         /\ [SnapshotOf(user) EXCEPT !.playlists = user.playlists] = SnapshotOf(user)
BY DEF UserData, SnapshotOf, Snapshot

\* The place of a playlist among unique ids is the only one.
LEMMA OnlyPlace ==
  ASSUME NEW lists \in Seq(Playlist), UniqueIds(lists), NEW id
  PROVE  /\ PlaylistIndex(lists, id) = 0 => \A k \in 1..Len(lists) : lists[k].id # id
         /\ PlaylistIndex(lists, id) # 0 =>
              /\ PlaylistIndex(lists, id) \in 1..Len(lists)
              /\ \A k \in 1..Len(lists) :
                   lists[k].id = id <=> k = PlaylistIndex(lists, id)
<1>1. Len(lists) \in Nat
  BY LenProperties
<1> QED BY <1>1, PlaylistIndexFacts DEF UniqueIds

\* What is found in a list is at one of its places, and is removed from there.
LEMMA RemoveFirstIs ==
  ASSUME NEW T, NEW s \in Seq(T), NEW e
  PROVE  /\ Contains(s, e) =>
              \E k \in 1..Len(s) :
                s[k] = e /\ RemoveFirst(s, e) = RemoveAt(s, k)
         /\ ~Contains(s, e) => \A k \in 1..Len(s) : s[k] # e
<1> DEFINE I == {i \in 1..Len(s) : s[i] = e}
<1>1. Len(s) \in Nat /\ DOMAIN s = 1..Len(s)
  BY LenProperties
<1>2. ASSUME Contains(s, e)
      PROVE  \E k \in 1..Len(s) : s[k] = e /\ RemoveFirst(s, e) = RemoveAt(s, k)
  <2>1. I # {} /\ I \subseteq Nat
    BY <1>1, <1>2 DEF Contains
  <2>2. Min(I) \in I
    <3> HIDE DEF I
    <3> QED BY <2>1, LeastOf
  <2>3. RemoveFirst(s, e) = RemoveAt(s, Min(I))
    BY <2>1 DEF RemoveFirst, SelectInSeq
  <2> QED BY <2>2, <2>3
<1>3. ~Contains(s, e) => \A k \in 1..Len(s) : s[k] # e
  BY DEF Contains
<1> QED BY <1>2, <1>3

\* The one place of a value is what leaving it out takes away.
LEMMA WithoutIsRemoveFirst ==
  ASSUME NEW T, NEW s \in Seq(T), IsInjective(s), NEW e
  PROVE  /\ Contains(s, e) => Without(s, {e}) = RemoveFirst(s, e)
         /\ ~Contains(s, e) => Without(s, {e}) = s
<1>1. Len(s) \in Nat /\ DOMAIN s = 1..Len(s)
  BY LenProperties
<1>2. ASSUME Contains(s, e) PROVE Without(s, {e}) = RemoveFirst(s, e)
  <2>1. PICK k \in 1..Len(s) : s[k] = e /\ RemoveFirst(s, e) = RemoveAt(s, k)
    BY <1>2, RemoveFirstIs
  <2>2. \A i \in 1..Len(s) : s[i] \in {e} <=> i = k
    BY <1>1, <2>1 DEF IsInjective
  <2>3. Without(s, {e}) = RemoveAt(s, k)
    BY <2>2, WithoutFacts
  <2> QED BY <2>1, <2>3
<1>3. ASSUME ~Contains(s, e) PROVE Without(s, {e}) = s
  <2>1. \A i \in 1..Len(s) : s[i] \notin {e}
    BY <1>3, RemoveFirstIs
  <2> QED BY <2>1, WithoutFacts
<1> QED BY <1>2, <1>3

\* A removed value leaves a list of the same kind, without new values.
LEMMA RemoveFirstTyped ==
  ASSUME NEW T, NEW s \in Seq(T), NEW e, Contains(s, e)
  PROVE  RemoveFirst(s, e) \in Seq(T)
<1>1. PICK k \in 1..Len(s) : s[k] = e /\ RemoveFirst(s, e) = RemoveAt(s, k)
  BY RemoveFirstIs
<1> QED BY <1>1, RemoveAtProperties

-----------------------------------------------------------------------------
\* A favorite is added; there is room for it.
LEMMA AddFavoriteAgrees ==
  ASSUME NEW user, WellKept(user), Room(user), NEW r, IsChange(r),
         r.op = "add_favorite"
  PROVE  Agrees(user, r)
<1>1. /\ user \in UserData /\ user.favorites \in Seq(Tracks)
      /\ user.playlists \in Seq(Playlist) /\ UniqueIds(user.playlists)
      /\ r.track \in Tracks
  BY UserFields DEF WellKept, IsChange, Request
<1>2. /\ Apply(user, r) = AddFavorite(user, r.track)
      /\ Optimistic(SnapshotOf(user), r)
           = [SnapshotOf(user) EXCEPT !.favorites = AppendOnce(user.favorites, r.track)]
  BY <1>1, SnapshotFields DEF Apply, Optimistic
<1>3. CASE Contains(user.favorites, r.track)
  <2>1. AppendOnce(user.favorites, r.track) = user.favorites
    BY <1>3 DEF AppendOnce
  <2>2. Apply(user, r).user = user
    BY <1>2, <1>3, OutcomeFields DEF AddFavorite
  <2> QED BY <1>1, <1>2, <2>1, <2>2, SnapshotFields DEF Agrees
<1>4. CASE ~Contains(user.favorites, r.track)
  <2> DEFINE new == Append(user.favorites, r.track)
  <2>1. new \in Seq(Tracks) /\ AppendOnce(user.favorites, r.track) = new
    BY <1>1, <1>4, AppendProperties DEF AppendOnce
  <2>2. Len(user.favorites) \in Nat /\ ~(Len(user.favorites) >= MaxFavorites)
    BY <1>1, LenProperties, LimitsAssumption DEF Room
  <2>3. Apply(user, r).user = [user EXCEPT !.favorites = new]
    BY <1>2, <1>4, <2>2, OutcomeFields DEF AddFavorite
  <2> HIDE DEF new
  <2>4. /\ SnapshotOf([user EXCEPT !.favorites = new])
             = [SnapshotOf(user) EXCEPT !.favorites = new]
        /\ [user EXCEPT !.favorites = new].playlists = user.playlists
    BY <1>1, <2>1, SnapshotFields, UserFields
  <2> QED BY <1>1, <1>2, <2>1, <2>3, <2>4 DEF Agrees
<1> QED BY <1>3, <1>4

\* A favorite is removed; it was there once at most.
LEMMA RemoveFavoriteAgrees ==
  ASSUME NEW user, WellKept(user), NEW r, IsChange(r), r.op = "remove_favorite"
  PROVE  Agrees(user, r)
<1>1. /\ user \in UserData /\ user.favorites \in Seq(Tracks)
      /\ user.playlists \in Seq(Playlist) /\ UniqueIds(user.playlists)
      /\ IsInjective(user.favorites)
  BY UserFields DEF WellKept, DistinctUser
<1>2. /\ Apply(user, r) = RemoveFavorite(user, r.track)
      /\ Optimistic(SnapshotOf(user), r)
           = [SnapshotOf(user) EXCEPT !.favorites = Without(user.favorites, {r.track})]
  BY <1>1, SnapshotFields DEF Apply, Optimistic
<1>3. CASE ~Contains(user.favorites, r.track)
  <2>1. Without(user.favorites, {r.track}) = user.favorites
    BY <1>1, <1>3, WithoutIsRemoveFirst
  <2>2. Apply(user, r).user = user
    BY <1>2, <1>3, OutcomeFields DEF RemoveFavorite
  <2> QED BY <1>1, <1>2, <2>1, <2>2, SnapshotFields DEF Agrees
<1>4. CASE Contains(user.favorites, r.track)
  <2> DEFINE new == RemoveFirst(user.favorites, r.track)
  <2>1. new \in Seq(Tracks) /\ Without(user.favorites, {r.track}) = new
    BY <1>1, <1>4, WithoutIsRemoveFirst, RemoveFirstTyped
  <2>3. Apply(user, r).user = [user EXCEPT !.favorites = new]
    BY <1>2, <1>4, OutcomeFields DEF RemoveFavorite
  <2> HIDE DEF new
  <2>4. /\ SnapshotOf([user EXCEPT !.favorites = new])
             = [SnapshotOf(user) EXCEPT !.favorites = new]
        /\ [user EXCEPT !.favorites = new].playlists = user.playlists
    BY <1>1, <2>1, SnapshotFields, UserFields
  <2> QED BY <1>1, <1>2, <2>1, <2>3, <2>4 DEF Agrees
<1> QED BY <1>3, <1>4

\* A playlist is created, unless there is one with its id.
LEMMA CreatePlaylistAgrees ==
  ASSUME NEW user, WellKept(user), Room(user), NEW r, IsChange(r),
         r.op = "create_playlist"
  PROVE  Agrees(user, r)
<1> DEFINE lists == user.playlists
           i == PlaylistIndex(lists, r.playlist)
           p == [id |-> r.playlist, name |-> r.name, tracks |-> <<>>]
           new == Append(lists, p)
<1>1. /\ user \in UserData /\ lists \in Seq(Playlist) /\ UniqueIds(lists)
      /\ r.playlist \in PlaylistIds /\ r.name \in Names
  BY UserFields DEF WellKept, IsChange, Request
<1>2. /\ Apply(user, r) = CreatePlaylist(user, r.playlist, r.name)
      /\ Optimistic(SnapshotOf(user), r)
           = IF i # 0 THEN SnapshotOf(user)
             ELSE [SnapshotOf(user) EXCEPT !.playlists = new]
  BY <1>1, SnapshotFields DEF Apply, Optimistic, HasPlaylist
<1>3. CASE i # 0
  <2>1. Apply(user, r).user = user
    BY <1>2, <1>3, OutcomeFields DEF CreatePlaylist
  <2> QED BY <1>1, <1>2, <1>3, <2>1 DEF Agrees
<1>4. CASE i = 0
  <2>1. p \in Playlist /\ p.id = r.playlist
    BY <1>1 DEF Playlist
  <2>2. Len(lists) \in Nat /\ ~(Len(lists) >= MaxPlaylists)
    BY <1>1, LenProperties, LimitsAssumption DEF Room
  <2>3. Apply(user, r).user = [user EXCEPT !.playlists = new]
    BY <1>2, <1>4, <2>2, OutcomeFields DEF CreatePlaylist
  <2>4. \A k \in 1..Len(lists) : lists[k].id # r.playlist
    BY <1>1, <1>4, OnlyPlace
  <2> HIDE DEF p, lists
  <2>5. /\ new \in Seq(Playlist) /\ Len(new) = Len(lists) + 1
        /\ \A k \in 1..Len(lists) : new[k] = lists[k]
        /\ new[Len(lists) + 1] = p
    BY <1>1, <2>1, AppendProperties
  <2> HIDE DEF new
  <2>6. UniqueIds(new)
    BY <1>1, <2>1, <2>2, <2>4, <2>5 DEF UniqueIds
  <2>7. /\ SnapshotOf([user EXCEPT !.playlists = new])
             = [SnapshotOf(user) EXCEPT !.playlists = new]
        /\ [user EXCEPT !.playlists = new].playlists = new
    BY <1>1, <2>5, SnapshotFields, UserFields
  <2> QED BY <1>2, <1>4, <2>3, <2>6, <2>7 DEF Agrees
<1> QED BY <1>3, <1>4

\* A playlist in the place of the one with its id.
LEMMA ReplacedAgrees ==
  ASSUME NEW user, WellKept(user), NEW id, NEW i,
         i = PlaylistIndex(user.playlists, id), i # 0,
         NEW p \in Playlist, p.id = user.playlists[i].id
  PROVE  /\ UniqueIds(WithPlaylist(user, i, p).playlists)
         /\ SnapshotOf(WithPlaylist(user, i, p))
              = [SnapshotOf(user) EXCEPT !.playlists =
                   [k \in DOMAIN user.playlists |->
                      IF user.playlists[k].id = id THEN p ELSE user.playlists[k]]]
<1> DEFINE lists == user.playlists
           new == [lists EXCEPT ![i] = p]
           other == [k \in DOMAIN lists |-> IF lists[k].id = id THEN p ELSE lists[k]]
<1>1. /\ lists \in Seq(Playlist) /\ user \in UserData /\ UniqueIds(lists)
      /\ Len(lists) \in Nat /\ DOMAIN lists = 1..Len(lists)
  BY UserFields, LenProperties DEF WellKept
<1>2. /\ i \in 1..Len(lists)
      /\ \A k \in 1..Len(lists) : lists[k].id = id <=> k = i
  BY <1>1, OnlyPlace
<1>3. /\ new \in Seq(Playlist) /\ Len(new) = Len(lists) /\ new[i] = p
      /\ \A j \in 1..Len(lists) : j # i => new[j] = lists[j]
  BY <1>1, <1>2, ExceptSeq
<1>4. WithPlaylist(user, i, p) = [user EXCEPT !.playlists = new]
  BY DEF WithPlaylist
<1>5. new = other
  BY <1>1, <1>2
<1> HIDE DEF lists, new, other
<1>6. UniqueIds(new)
  BY <1>1, <1>2, <1>3 DEF UniqueIds, lists
<1>7. /\ SnapshotOf([user EXCEPT !.playlists = new])
           = [SnapshotOf(user) EXCEPT !.playlists = new]
      /\ [user EXCEPT !.playlists = new].playlists = new
  BY <1>1, <1>3, SnapshotFields, UserFields
<1> QED BY <1>4, <1>5, <1>6, <1>7 DEF other, lists

\* What the device makes of a playlist that is there only once.
LEMMA NoPlaylistUpdated ==
  ASSUME NEW lists \in Seq(Playlist), NEW id, PlaylistIndex(lists, id) = 0
  PROVE  \A k \in DOMAIN lists : lists[k].id # id
<1>1. DOMAIN lists = 1..Len(lists)
  BY LenProperties
<1> QED BY <1>1, PlaylistIndexFacts

\* A playlist is renamed; the server has it once at most.
LEMMA RenamePlaylistAgrees ==
  ASSUME NEW user, WellKept(user), NEW r, IsChange(r), r.op = "rename_playlist"
  PROVE  Agrees(user, r)
<1> DEFINE lists == user.playlists
           i == PlaylistIndex(lists, r.playlist)
           p == [lists[i] EXCEPT !.name = r.name]
           new == [k \in DOMAIN lists |->
                     IF lists[k].id = r.playlist
                     THEN [lists[k] EXCEPT !.name = r.name] ELSE lists[k]]
           one == [k \in DOMAIN lists |->
                     IF lists[k].id = r.playlist THEN p ELSE lists[k]]
<1>1. /\ user \in UserData /\ lists \in Seq(Playlist) /\ UniqueIds(lists)
      /\ DOMAIN lists = 1..Len(lists) /\ r.name \in Names
  BY UserFields, LenProperties DEF WellKept, IsChange, Request
<1>2. /\ Apply(user, r) = RenamePlaylist(user, r.playlist, r.name)
      /\ Optimistic(SnapshotOf(user), r)
           = [SnapshotOf(user) EXCEPT !.playlists = new]
  BY <1>1, SnapshotFields DEF Apply, Optimistic, UpdatePlaylist
<1>3. CASE i = 0
  <2>1. \A k \in DOMAIN lists : lists[k].id # r.playlist
    BY <1>1, <1>3, NoPlaylistUpdated
  <2>2. new = lists
    BY <1>1, <2>1
  <2>3. Apply(user, r).user = user
    BY <1>2, <1>3, OutcomeFields DEF RenamePlaylist
  <2> QED BY <1>1, <1>2, <2>2, <2>3, SnapshotFields DEF Agrees
<1>4. CASE i # 0
  <2>1. /\ i \in 1..Len(lists)
        /\ \A k \in 1..Len(lists) : lists[k].id = r.playlist <=> k = i
    BY <1>1, <1>4, OnlyPlace
  <2>2. lists[i] \in Playlist
    BY <1>1, <2>1, ElementOfSeq
  <2>3. p \in Playlist /\ p.id = lists[i].id
    BY <1>1, <2>2 DEF Playlist
  <2>4. new = one
    BY <1>1, <2>1
  <2>5. CASE lists[i].name = r.name
    <3>1. p = lists[i]
      BY <2>2, <2>5 DEF Playlist
    <3>2. new = lists
      BY <1>1, <2>1, <2>4, <3>1
    <3>3. Apply(user, r).user = user
      BY <1>2, <1>4, <2>5, OutcomeFields DEF RenamePlaylist
    <3> QED BY <1>1, <1>2, <3>2, <3>3, SnapshotFields DEF Agrees
  <2>6. CASE lists[i].name # r.name
    <3>1. Apply(user, r).user = WithPlaylist(user, i, p)
      BY <1>2, <1>4, <2>6, OutcomeFields DEF RenamePlaylist, WithPlaylist
    <3>2. /\ UniqueIds(WithPlaylist(user, i, p).playlists)
          /\ SnapshotOf(WithPlaylist(user, i, p))
               = [SnapshotOf(user) EXCEPT !.playlists = one]
      <4> HIDE DEF p
      <4> QED BY <1>4, <2>3, ReplacedAgrees
    <3> QED BY <1>2, <2>4, <3>1, <3>2 DEF Agrees
  <2> QED BY <2>5, <2>6
<1> QED BY <1>3, <1>4

\* A track is added to a playlist that has room for it.
LEMMA AddPlaylistTrackAgrees ==
  ASSUME NEW user, WellKept(user), Room(user), NEW r, IsChange(r), r.op = "add_track"
  PROVE  Agrees(user, r)
<1> DEFINE lists == user.playlists
           i == PlaylistIndex(lists, r.playlist)
           p == [lists[i] EXCEPT !.tracks = AppendOnce(@, r.track)]
           new == [k \in DOMAIN lists |->
                     IF lists[k].id = r.playlist
                     THEN [lists[k] EXCEPT !.tracks = AppendOnce(@, r.track)]
                     ELSE lists[k]]
           one == [k \in DOMAIN lists |->
                     IF lists[k].id = r.playlist THEN p ELSE lists[k]]
<1>1. /\ user \in UserData /\ lists \in Seq(Playlist) /\ UniqueIds(lists)
      /\ DOMAIN lists = 1..Len(lists) /\ r.track \in Tracks
  BY UserFields, LenProperties DEF WellKept, IsChange, Request
<1>2. /\ Apply(user, r) = AddPlaylistTrack(user, r.playlist, r.track)
      /\ Optimistic(SnapshotOf(user), r)
           = [SnapshotOf(user) EXCEPT !.playlists = new]
  BY <1>1, SnapshotFields DEF Apply, Optimistic, UpdatePlaylist
<1>3. CASE i = 0
  <2>1. \A k \in DOMAIN lists : lists[k].id # r.playlist
    BY <1>1, <1>3, NoPlaylistUpdated
  <2>2. new = lists
    BY <1>1, <2>1
  <2>3. Apply(user, r).user = user
    BY <1>2, <1>3, OutcomeFields DEF AddPlaylistTrack
  <2> QED BY <1>1, <1>2, <2>2, <2>3, SnapshotFields DEF Agrees
<1>4. CASE i # 0
  <2>1. /\ i \in 1..Len(lists)
        /\ \A k \in 1..Len(lists) : lists[k].id = r.playlist <=> k = i
    BY <1>1, <1>4, OnlyPlace
  <2>2. lists[i] \in Playlist /\ lists[i].tracks \in Seq(Tracks)
    BY <1>1, <2>1, ListsTyped
  <2>3. p \in Playlist /\ p.id = lists[i].id
    <3>1. AppendOnce(lists[i].tracks, r.track) \in Seq(Tracks)
      BY <1>1, <2>2, AppendOnceFacts
    <3> QED BY <1>1, <2>2, <3>1 DEF Playlist
  <2>4. new = one
    BY <1>1, <2>1
  <2>5. CASE Contains(lists[i].tracks, r.track)
    <3>1. AppendOnce(lists[i].tracks, r.track) = lists[i].tracks
      BY <2>5 DEF AppendOnce
    <3>2. p = lists[i]
      BY <2>2, <3>1 DEF Playlist
    <3>3. new = lists
      BY <1>1, <2>1, <2>4, <3>2
    <3>4. Apply(user, r).user = user
      BY <1>2, <1>4, <2>5, OutcomeFields DEF AddPlaylistTrack
    <3> QED BY <1>1, <1>2, <3>3, <3>4, SnapshotFields DEF Agrees
  <2>6. CASE ~Contains(lists[i].tracks, r.track)
    <3>1. p = [lists[i] EXCEPT !.tracks = Append(@, r.track)]
      BY <2>6 DEF AppendOnce
    <3>2. ~(Len(lists[i].tracks) >= MaxPlaylistTracks)
      <4>1. Len(lists[i].tracks) < MaxPlaylistTracks
        BY <1>1, <2>1 DEF Room
      <4>2. Len(lists[i].tracks) \in Nat
        BY <2>2, LenProperties
      <4> QED BY <4>1, <4>2, LimitsAssumption
    <3>3. Apply(user, r).user = WithPlaylist(user, i, p)
      <4> DEFINE after == [user EXCEPT !.playlists[i].tracks =
                             Append(@, r.track)]
      <4>1. Apply(user, r) = Changed(after)
        BY <1>2, <1>4, <2>6, <3>2 DEF AddPlaylistTrack
      <4>2. after = WithPlaylist(user, i, p)
        BY <3>1 DEF WithPlaylist
      <4> HIDE DEF after
      <4> QED BY <4>1, <4>2, OutcomeFields
    <3>4. /\ UniqueIds(WithPlaylist(user, i, p).playlists)
          /\ SnapshotOf(WithPlaylist(user, i, p))
               = [SnapshotOf(user) EXCEPT !.playlists = one]
      <4> HIDE DEF p
      <4> QED BY <1>4, <2>3, ReplacedAgrees
    <3> QED BY <1>2, <2>4, <3>3, <3>4 DEF Agrees
  <2> QED BY <2>5, <2>6
<1> QED BY <1>3, <1>4

\* A track is removed from a playlist.
LEMMA RemovePlaylistTrackAgrees ==
  ASSUME NEW user, WellKept(user), NEW r, IsChange(r), r.op = "remove_track"
  PROVE  Agrees(user, r)
<1> DEFINE lists == user.playlists
           i == PlaylistIndex(lists, r.playlist)
           p == [lists[i] EXCEPT !.tracks = Without(@, {r.track})]
           new == [k \in DOMAIN lists |->
                     IF lists[k].id = r.playlist
                     THEN [lists[k] EXCEPT !.tracks = Without(@, {r.track})]
                     ELSE lists[k]]
           one == [k \in DOMAIN lists |->
                     IF lists[k].id = r.playlist THEN p ELSE lists[k]]
<1>1. /\ user \in UserData /\ lists \in Seq(Playlist) /\ UniqueIds(lists)
      /\ DOMAIN lists = 1..Len(lists) /\ DistinctLists(lists)
  BY UserFields, LenProperties DEF WellKept, DistinctUser
<1>2. /\ Apply(user, r) = RemovePlaylistTrack(user, r.playlist, r.track)
      /\ Optimistic(SnapshotOf(user), r)
           = [SnapshotOf(user) EXCEPT !.playlists = new]
  BY <1>1, SnapshotFields DEF Apply, Optimistic, UpdatePlaylist
<1>3. CASE i = 0
  <2>1. \A k \in DOMAIN lists : lists[k].id # r.playlist
    BY <1>1, <1>3, NoPlaylistUpdated
  <2>2. new = lists
    BY <1>1, <2>1
  <2>3. Apply(user, r).user = user
    BY <1>2, <1>3, OutcomeFields DEF RemovePlaylistTrack
  <2> QED BY <1>1, <1>2, <2>2, <2>3, SnapshotFields DEF Agrees
<1>4. CASE i # 0
  <2>1. /\ i \in 1..Len(lists)
        /\ \A k \in 1..Len(lists) : lists[k].id = r.playlist <=> k = i
    BY <1>1, <1>4, OnlyPlace
  <2>2. /\ lists[i] \in Playlist /\ lists[i].tracks \in Seq(Tracks)
        /\ IsInjective(lists[i].tracks)
    BY <1>1, <2>1, ListsTyped DEF DistinctLists
  <2>3. p \in Playlist /\ p.id = lists[i].id
    <3>1. Without(lists[i].tracks, {r.track}) \in Seq(Tracks)
      BY <1>1, <2>2, WithoutFacts
    <3> QED BY <1>1, <2>2, <3>1 DEF Playlist
  <2>4. new = one
    BY <1>1, <2>1
  <2>5. CASE ~Contains(lists[i].tracks, r.track)
    <3>1. Without(lists[i].tracks, {r.track}) = lists[i].tracks
      BY <2>2, <2>5, WithoutIsRemoveFirst
    <3>2. p = lists[i]
      BY <2>2, <3>1 DEF Playlist
    <3>3. new = lists
      BY <1>1, <2>1, <2>4, <3>2
    <3>4. Apply(user, r).user = user
      BY <1>2, <1>4, <2>5, OutcomeFields DEF RemovePlaylistTrack
    <3> QED BY <1>1, <1>2, <3>3, <3>4, SnapshotFields DEF Agrees
  <2>6. CASE Contains(lists[i].tracks, r.track)
    <3>1. p = [lists[i] EXCEPT !.tracks = RemoveFirst(@, r.track)]
      BY <2>2, <2>6, WithoutIsRemoveFirst
    <3>3. Apply(user, r).user = WithPlaylist(user, i, p)
      BY <1>2, <1>4, <2>6, <3>1, OutcomeFields DEF RemovePlaylistTrack, WithPlaylist
    <3>4. /\ UniqueIds(WithPlaylist(user, i, p).playlists)
          /\ SnapshotOf(WithPlaylist(user, i, p))
               = [SnapshotOf(user) EXCEPT !.playlists = one]
      <4> HIDE DEF p
      <4> QED BY <1>4, <2>3, ReplacedAgrees
    <3> QED BY <1>2, <2>4, <3>3, <3>4 DEF Agrees
  <2> QED BY <2>5, <2>6
<1> QED BY <1>3, <1>4

\* A playlist is deleted; the server has it once at most.
LEMMA DeletePlaylistAgrees ==
  ASSUME NEW user, WellKept(user), NEW r, IsChange(r), r.op = "delete_playlist"
  PROVE  Agrees(user, r)
<1> DEFINE lists == user.playlists
           i == PlaylistIndex(lists, r.playlist)
           gone == {p \in Range(lists) : p.id = r.playlist}
<1>1. /\ user \in UserData /\ lists \in Seq(Playlist) /\ UniqueIds(lists)
      /\ DOMAIN lists = 1..Len(lists) /\ Len(lists) \in Nat
  BY UserFields, LenProperties DEF WellKept
<1>2. /\ Apply(user, r) = DeletePlaylist(user, r.playlist)
      /\ Optimistic(SnapshotOf(user), r)
           = [SnapshotOf(user) EXCEPT !.playlists = Without(lists, gone)]
  BY <1>1, SnapshotFields DEF Apply, Optimistic
<1>3. \A k \in 1..Len(lists) : lists[k] \in gone <=> lists[k].id = r.playlist
  BY <1>1 DEF Range
<1> HIDE DEF gone
<1>4. CASE i = 0
  <2>1. \A k \in DOMAIN lists : lists[k].id # r.playlist
    BY <1>1, <1>4, NoPlaylistUpdated
  <2>2. Without(lists, gone) = lists
    BY <1>1, <1>3, <2>1, WithoutFacts
  <2>3. Apply(user, r).user = user
    BY <1>2, <1>4, OutcomeFields DEF DeletePlaylist
  <2> QED BY <1>1, <1>2, <2>2, <2>3, SnapshotFields DEF Agrees
<1>5. CASE i # 0
  <2> DEFINE new == RemoveAt(lists, i)
  <2>1. /\ i \in 1..Len(lists)
        /\ \A k \in 1..Len(lists) : lists[k].id = r.playlist <=> k = i
    BY <1>1, <1>5, OnlyPlace
  <2>2. Without(lists, gone) = new
    <3>1. \A k \in 1..Len(lists) : lists[k] \in gone <=> k = i
      BY <1>3, <2>1
    <3> HIDE DEF i, lists
    <3> QED BY <1>1, <2>1, <3>1, WithoutFacts
  <2>3. Apply(user, r).user = [user EXCEPT !.playlists = new]
    BY <1>2, <1>5, OutcomeFields DEF DeletePlaylist
  <2> HIDE DEF i, lists
  <2>4. /\ new \in Seq(Playlist) /\ Len(new) = Len(lists) - 1
        /\ \A j \in 1..Len(lists) - 1 :
             new[j] = IF j < i THEN lists[j] ELSE lists[j + 1]
    BY <1>1, <2>1, RemoveAtProperties
  <2> HIDE DEF new
  <2>5. UniqueIds(new)
    <3> DEFINE At(j) == IF j < i THEN j ELSE j + 1
    <3>1. \A j \in 1..Len(new) : At(j) \in 1..Len(lists) /\ new[j] = lists[At(j)]
      BY <1>1, <2>1, <2>4
    <3>2. \A j, k \in 1..Len(new) : At(j) = At(k) => j = k
      BY <1>1, <2>1, <2>4
    <3> HIDE DEF At
    <3> QED BY <1>1, <3>1, <3>2 DEF UniqueIds
  <2>7. /\ SnapshotOf([user EXCEPT !.playlists = new])
             = [SnapshotOf(user) EXCEPT !.playlists = new]
        /\ [user EXCEPT !.playlists = new].playlists = new
    BY <1>1, <2>4, SnapshotFields, UserFields
  <2> QED BY <1>2, <2>2, <2>3, <2>5, <2>7 DEF Agrees
<1> QED BY <1>4, <1>5

\* What the device makes of a change is what the server makes of it.
LEMMA ChangeAgrees ==
  ASSUME NEW user, WellKept(user), Room(user), NEW r, IsChange(r)
  PROVE  /\ WellKept(Apply(user, r).user)
         /\ SnapshotOf(Apply(user, r).user) = Optimistic(SnapshotOf(user), r)
<1>1. r \in Request /\ r.op \in {"add_favorite", "remove_favorite", "create_playlist",
        "rename_playlist", "delete_playlist", "add_track", "remove_track"}
  BY DEF IsChange, Request
<1>2. Agrees(user, r)
  BY <1>1, AddFavoriteAgrees, RemoveFavoriteAgrees, CreatePlaylistAgrees,
     RenamePlaylistAgrees, DeletePlaylistAgrees, AddPlaylistTrackAgrees,
     RemovePlaylistTrackAgrees
<1>3. AppliesWell(user, r)
  BY <1>1, RequestApplies
<1> QED BY <1>2, <1>3 DEF Agrees, AppliesWell, WellKept

-----------------------------------------------------------------------------
(***************************************************************************)
(* Sequences of changes: those an account got, and those an outbox holds.  *)
(***************************************************************************)

\* An answer that is not a change leaves the account as it was.
LEMMA OnlyChangesChange ==
  ASSUME NEW user, NEW r \in Request
  PROVE  Apply(user, r).status = "changed" \/ Apply(user, r).user = user
<1>1. CASE r.op = "import"
  <2>1. \/ Apply(user, r).status = "changed"
        \/ Apply(user, r).user = user
    BY <1>1, OutcomeFields DEF Apply, ImportCollections
  <2> QED BY <2>1
<1>2. CASE r.op \in {"add_favorite", "remove_favorite", "set_playback_mode"}
  BY <1>2, OutcomeFields DEF Apply, AddFavorite, RemoveFavorite, SetPlaybackMode
<1>3. CASE r.op \in {"create_playlist", "delete_playlist", "rename_playlist"}
  BY <1>3, OutcomeFields DEF Apply, CreatePlaylist, DeletePlaylist, RenamePlaylist
<1>4. CASE r.op \in {"add_track", "remove_track"}
  BY <1>4, OutcomeFields DEF Apply, AddPlaylistTrack, RemovePlaylistTrack
<1> QED BY <1>1, <1>2, <1>3, <1>4 DEF Request

\* A request that is applied twice does what it does once.
LEMMA TwiceIsOnce ==
  ASSUME NEW user, WellKept(user), NEW r \in Request
  PROVE  Apply(Apply(user, r).user, r).user = Apply(user, r).user
<1>1. AppliesWell(user, r)
  BY RequestApplies
<1>2. CASE Apply(user, r).status = "changed"
  BY <1>1, <1>2 DEF AppliesWell, RetryIsSafe
<1>3. CASE Apply(user, r).user = user
  BY <1>3
<1> QED BY <1>2, <1>3, OnlyChangesChange

\* The account after the first k requests of a log.
After(user, log, k) == Served(user, SubSeq(log, 1, k))

\* It starts as it is.
LEMMA AfterNothing ==
  ASSUME NEW T, NEW log \in Seq(T), NEW user
  PROVE  After(user, log, 0) = user /\ Served(user, <<>>) = user
<1>1. SubSeq(log, 1, 0) = <<>>
  OBVIOUS
<1>2. Served(user, <<>>) = user
  BY FoldsAreFolded, FoldNothing
<1> QED BY <1>1, <1>2 DEF After

\* Each request is applied to what the ones before it left.
LEMMA AfterOneMore ==
  ASSUME NEW T, NEW log \in Seq(T), NEW k \in 1..Len(log), NEW user
  PROVE  After(user, log, k) = Apply(After(user, log, k - 1), log[k]).user
<1> DEFINE before == SubSeq(log, 1, k - 1)
           r == log[k]
<1>1. before \in Seq(T) /\ r \in T /\ SubSeq(log, 1, k) = Append(before, r)
  BY PrefixGrows
<1> HIDE DEF before, r
<1>2. Folded("apply", {}, user, Append(before, r))
        = FoldStep("apply", {}, Folded("apply", {}, user, before), r)
  BY <1>1, FoldOneMore
<1>3. Served(user, Append(before, r)) = Apply(Served(user, before), r).user
  BY <1>2, FoldsAreFolded DEF FoldStep
<1> QED BY <1>1, <1>3 DEF After, before, r

\* A request at the end of the log leaves what came before it alone.
LEMMA AfterAppend ==
  ASSUME NEW T, NEW log \in Seq(T), NEW r \in T, NEW user
  PROVE  /\ \A k \in 0..Len(log) : After(user, Append(log, r), k) = After(user, log, k)
         /\ After(user, Append(log, r), Len(log) + 1)
              = Apply(After(user, log, Len(log)), r).user
         /\ After(user, log, Len(log)) = Served(user, log)
<1> DEFINE n == Len(log)
           more == Append(log, r)
<1>1. /\ n \in Nat /\ more \in Seq(T) /\ Len(more) = n + 1 /\ more[n + 1] = r
      /\ \A i \in 1..n : more[i] = log[i]
  BY LenProperties, AppendProperties
<1>2. SubSeq(log, 1, n) = log
  OBVIOUS
<1> HIDE DEF n, more
<1>3. ASSUME NEW k \in 0..n PROVE SubSeq(more, 1, k) = SubSeq(log, 1, k)
  <2> DEFINE a == SubSeq(more, 1, k)
             b == SubSeq(log, 1, k)
  <2>1. a \in Seq(T) /\ Len(a) = k /\ \A i \in 1..k : a[i] = more[i]
    BY <1>1
  <2>2. b \in Seq(T) /\ Len(b) = k /\ \A i \in 1..k : b[i] = log[i]
    BY <1>1 DEF n
  <2> HIDE DEF a, b
  <2>3. \A i \in 1..k : a[i] = b[i]
    BY <1>1, <2>1, <2>2
  <2>4. a = b
    BY <2>1, <2>2, <2>3, SeqEqual
  <2> QED BY <2>4 DEF a, b
<1>4. \A k \in 0..n : After(user, more, k) = After(user, log, k)
  BY <1>3 DEF After
<1>5. After(user, more, n + 1) = Apply(After(user, more, n), r).user
  <2> DEFINE k == n + 1
  <2>1. k \in 1..Len(more) /\ k - 1 = n /\ more[k] = r
    BY <1>1
  <2> HIDE DEF k
  <2>2. After(user, more, k) = Apply(After(user, more, k - 1), more[k]).user
    BY <1>1, <2>1, AfterOneMore
  <2> QED BY <2>1, <2>2 DEF k
<1>6. n \in 0..n
  BY <1>1
<1> QED BY <1>2, <1>4, <1>5, <1>6 DEF n, more, After

\* The account is well kept, with room in every list, after each change.
StaysWell(user, log) ==
  \A k \in 0..Len(log) : WellKept(After(user, log, k)) /\ Room(After(user, log, k))

(***************************************************************************)
(* What the server holds after n changes, with the outbox laid over it, is *)
(* what it will hold after all of them: the first item of the outbox may   *)
(* have been applied already.                                              *)
(***************************************************************************)
LEMMA PendingCompletes ==
  ASSUME NEW T, \A r \in T : IsChange(r), NEW log \in Seq(T), NEW user,
         StaysWell(user, log), NEW d \in 0..Len(log), NEW n \in d..Len(log),
         n <= d + 1
  PROVE  ApplyOutbox(SnapshotOf(After(user, log, n)), SubSeq(log, d + 1, Len(log)))
           = SnapshotOf(After(user, log, Len(log)))
<1> DEFINE N == Len(log)
           outbox == SubSeq(log, d + 1, N)
           U(k) == After(user, log, k)
<1>1. N \in Nat /\ d \in Nat /\ n \in Nat /\ n <= N /\ d <= n /\ d <= N
  BY LenProperties
<1>2. /\ outbox \in Seq(T) /\ Len(outbox) = N - d /\ DOMAIN outbox = 1..N - d
      /\ \A k \in 1..N - d : outbox[k] = log[d + k]
  BY <1>1
<1>3. \A k \in 0..N : WellKept(U(k)) /\ Room(U(k))
  BY DEF StaysWell
<1>4. \A k \in 1..N : U(k) = Apply(U(k - 1), log[k]).user /\ IsChange(log[k])
  BY AfterOneMore, ElementOfSeq
<1> HIDE DEF N, outbox, U
<1>5. ASSUME NEW k \in 0..N - d - 1
      PROVE  Optimistic(SnapshotOf(U(IF d + k < n THEN n ELSE d + k)), log[d + k + 1])
               = SnapshotOf(U(d + k + 1))
  <2> DEFINE j == d + k + 1
  <2>1. j \in 1..N /\ j \in 0..N /\ j - 1 \in 0..N /\ j - 1 = d + k
    BY <1>1
  <2>2. U(j) = Apply(U(j - 1), log[j]).user /\ IsChange(log[j]) /\ log[j] \in Request
        /\ WellKept(U(j)) /\ Room(U(j)) /\ WellKept(U(j - 1)) /\ Room(U(j - 1))
    BY <1>3, <1>4, <2>1 DEF IsChange
  <2>3. CASE d + k < n
    <3>1. n = j
      BY <1>1, <2>3
    <3> HIDE DEF j
    <3>2. Apply(U(j), log[j]).user = U(j)
      BY <2>2, TwiceIsOnce
    <3>3. SnapshotOf(U(j)) = Optimistic(SnapshotOf(U(j)), log[j])
      BY <2>2, <3>2, ChangeAgrees
    <3> QED BY <2>1, <2>3, <3>1, <3>3 DEF j
  <2>4. CASE ~(d + k < n)
    <3> HIDE DEF j
    <3>1. SnapshotOf(U(j)) = Optimistic(SnapshotOf(U(j - 1)), log[j])
      BY <2>2, ChangeAgrees
    <3> QED BY <2>1, <2>4, <3>1 DEF j
  <2> QED BY <2>3, <2>4
<1>6. PICK run : IsRun("optimistic", {}, SnapshotOf(U(n)), outbox, N - d, run)
  <2>1. N - d \in Nat
    BY <1>1
  <2> QED BY <1>2, <2>1, FoldRun
<1>7. /\ run[0] = SnapshotOf(U(n))
      /\ \A k \in 1..N - d : run[k] = Optimistic(run[k - 1], outbox[k])
      /\ ApplyOutbox(SnapshotOf(U(n)), outbox) = run[N - d]
  BY <1>6, FoldsAreFolded DEF IsRun, FoldStep
<1> DEFINE At(k) == IF d + k < n THEN n ELSE d + k
           S == {k \in 0..N - d : run[k] = SnapshotOf(U(At(k)))}
<1>8. 0 \in S
  <2>1. At(0) = n /\ 0 \in 0..N - d
    BY <1>1
  <2> HIDE DEF At
  <2> QED BY <1>7, <2>1
<1>9. ASSUME NEW k \in 0..N - d - 1, k \in S PROVE k + 1 \in S
  <2>1. k + 1 \in 1..N - d /\ (k + 1) - 1 = k /\ k + 1 \in 0..N - d
        /\ d + (k + 1) = d + k + 1 /\ At(k + 1) = d + k + 1
    BY <1>1
  <2>2. run[k + 1] = Optimistic(run[k], log[d + k + 1])
    BY <1>2, <1>7, <2>1
  <2>3. run[k] = SnapshotOf(U(At(k)))
    BY <1>9
  <2>4. run[k + 1] = SnapshotOf(U(d + k + 1))
    BY <1>5, <2>2, <2>3
  <2> HIDE DEF At
  <2> QED BY <2>1, <2>4
<1>10. run[N - d] = SnapshotOf(U(N))
  <2>1. N - d \in Nat /\ N - d \in 0..N - d /\ At(N - d) = N
    BY <1>1
  <2> HIDE DEF S
  <2>2. N - d \in S
    BY <1>8, <1>9, <2>1, HoldsUpTo
  <2> USE DEF S
  <2> HIDE DEF At
  <2> QED BY <2>1, <2>2
<1> QED BY <1>7, <1>10 DEF N, outbox, U

-----------------------------------------------------------------------------
(***************************************************************************)
(* Snapshots as accounts: the collections of the device, and their import. *)
(***************************************************************************)

\* An account that holds the snapshot and nothing else.
UserOf(snapshot) == [revision  |-> 0,
                     favorites |-> snapshot.favorites,
                     playlists |-> snapshot.playlists,
                     mode      |-> "sequential"]

\* A snapshot without repetitions.
Neat(snapshot) == snapshot \in Snapshot /\ WellKept(UserOf(snapshot))

\* A snapshot and the account that holds it.
LEMMA UserOfFields ==
  ASSUME NEW s \in Snapshot
  PROVE  /\ UserOf(s) \in UserData /\ SnapshotOf(UserOf(s)) = s
         /\ UserOf(s).favorites = s.favorites /\ UserOf(s).playlists = s.playlists
         /\ s.favorites \in Seq(Tracks) /\ s.playlists \in Seq(Playlist)
         /\ Room(s) => Room(UserOf(s))
         /\ s = [favorites |-> s.favorites, playlists |-> s.playlists]
BY DEF Snapshot, UserOf, UserData, SnapshotOf, PlaybackModes, Room

\* What a well kept account answers is neat.
LEMMA SnapshotIsNeat ==
  ASSUME NEW user, WellKept(user)
  PROVE  /\ Neat(SnapshotOf(user))
         /\ Room(SnapshotOf(user)) <=> Room(user)
<1>1. user \in UserData /\ SnapshotOf(user) \in Snapshot
      /\ SnapshotOf(user).favorites = user.favorites
      /\ SnapshotOf(user).playlists = user.playlists
  BY SnapshotFields DEF WellKept
<1>2. /\ UserOf(SnapshotOf(user)) \in UserData
      /\ UserOf(SnapshotOf(user)).favorites = user.favorites
      /\ UserOf(SnapshotOf(user)).playlists = user.playlists
  BY <1>1, UserOfFields
<1>3. Room(SnapshotOf(user)) <=> Room(user)
  BY <1>1 DEF Room
<1> QED BY <1>1, <1>2, <1>3 DEF Neat, WellKept, DistinctUser

\* The empty snapshot is that of the empty account.
LEMMA NothingIsNeat ==
  /\ EmptySnapshot \in Snapshot /\ EmptyUser \in UserData
  /\ UserOf(EmptySnapshot) = EmptyUser /\ Neat(EmptySnapshot)
<1>1. <<>> \in Seq(Tracks) /\ <<>> \in Seq(Playlist) /\ Len(<<>>) = 0
  OBVIOUS
<1>2. EmptySnapshot \in Snapshot /\ EmptyUser \in UserData
      /\ UserOf(EmptySnapshot) = EmptyUser
  BY <1>1 DEF EmptySnapshot, Snapshot, EmptyUser, UserData, UserOf, PlaybackModes
<1>3. WellKept(EmptyUser)
  BY <1>1, <1>2 DEF WellKept, DistinctUser, DistinctLists, UniqueIds, IsInjective,
                    EmptyUser
<1> QED BY <1>2, <1>3 DEF Neat

\* A change on the device keeps the snapshot neat.
LEMMA ChangeKeepsNeat ==
  ASSUME NEW s, Neat(s), Room(s), NEW r, IsChange(r)
  PROVE  Neat(Optimistic(s, r))
<1> DEFINE u == UserOf(s)
<1>1. WellKept(u) /\ Room(u) /\ SnapshotOf(u) = s
  BY UserOfFields DEF Neat
<1> HIDE DEF u
<1>2. WellKept(Apply(u, r).user) /\ SnapshotOf(Apply(u, r).user) = Optimistic(s, r)
  BY <1>1, ChangeAgrees
<1> QED BY <1>2, SnapshotIsNeat

\* The union of nothing and a list without repetitions is that list.
LEMMA AppendMissingToNothing ==
  ASSUME NEW T, NEW values \in Seq(T), IsInjective(values)
  PROVE  AppendMissing(<<>>, values) = values
<1> DEFINE n == Len(values)
<1>1. n \in Nat /\ DOMAIN values = 1..n
  BY LenProperties
<1> HIDE DEF n
<1>2. PICK run : IsRun("append", {}, <<>>, values, n, run)
  BY <1>1, FoldRun
<1>3. /\ run[0] = <<>>
      /\ \A k \in 1..n : run[k] = AppendOnce(run[k - 1], values[k])
      /\ AppendMissing(<<>>, values) = run[n]
  BY <1>2, FoldsAreFolded DEF IsRun, FoldStep
<1>0. SubSeq(values, 1, 0) = <<>>
  OBVIOUS
<1> DEFINE S == {k \in 0..n : run[k] = SubSeq(values, 1, k)}
<1>4. 0 \in S
  <2>1. 0 \in 0..n /\ run[0] = SubSeq(values, 1, 0)
    BY <1>0, <1>1, <1>3
  <2> QED BY <2>1
<1>5. ASSUME NEW k \in 0..n - 1, k \in S PROVE k + 1 \in S
  <2> DEFINE m == k + 1
             seen == SubSeq(values, 1, k)
  <2>1. m \in 1..n /\ m \in 1..Len(values) /\ m - 1 = k /\ m \in 0..n /\ k < m
    BY <1>1 DEF n
  <2> HIDE DEF m
  <2>2. SubSeq(values, 1, m) = Append(SubSeq(values, 1, m - 1), values[m])
    BY <2>1, PrefixGrows
  <2>3. ~Contains(seen, values[m])
    <3>1. Len(seen) = k /\ \A i \in 1..k : seen[i] = values[i]
      BY <1>1, <2>1 DEF n
    <3>2. \A i \in 1..k : values[i] # values[m]
      BY <1>1, <2>1 DEF IsInjective
    <3> HIDE DEF seen
    <3> QED BY <3>1, <3>2 DEF Contains
  <2>4. run[m] = AppendOnce(seen, values[m])
    BY <1>3, <1>5, <2>1
  <2>5. run[m] = SubSeq(values, 1, m)
    BY <2>1, <2>2, <2>3, <2>4 DEF AppendOnce
  <2> QED BY <2>1, <2>5 DEF m
<1>6. run[n] = SubSeq(values, 1, n)
  <2> HIDE DEF S
  <2>1. \A k \in 0..n : k \in S
    BY <1>1, <1>4, <1>5, HoldsUpTo
  <2> QED BY <1>1, <2>1 DEF S
<1> QED BY <1>3, <1>6 DEF n

\* The merge of nothing and neat playlists is those playlists.
LEMMA MergedToNothing ==
  ASSUME NEW lists \in Seq(Playlist), DistinctLists(lists), UniqueIds(lists)
  PROVE  MergedPlaylists(<<>>, lists) = lists
<1> DEFINE n == Len(lists)
<1>1. n \in Nat /\ DOMAIN lists = 1..n
  BY LenProperties
<1> HIDE DEF n
<1>2. PICK run : IsRun("merge", {}, <<>>, lists, n, run)
  BY <1>1, FoldRun
<1>3. /\ run[0] = <<>>
      /\ \A k \in 1..n : run[k] = MergePlaylist(run[k - 1], lists[k])
      /\ MergedPlaylists(<<>>, lists) = run[n]
  BY <1>2, FoldsAreFolded DEF IsRun, FoldStep
<1>0. SubSeq(lists, 1, 0) = <<>>
  OBVIOUS
<1> DEFINE S == {k \in 0..n : run[k] = SubSeq(lists, 1, k)}
<1>4. 0 \in S
  <2>1. 0 \in 0..n /\ run[0] = SubSeq(lists, 1, 0)
    BY <1>0, <1>1, <1>3
  <2> QED BY <2>1
<1>5. ASSUME NEW k \in 0..n - 1, k \in S PROVE k + 1 \in S
  <2> DEFINE m == k + 1
             p == lists[m]
             seen == SubSeq(lists, 1, k)
  <2>1. m \in 1..n /\ m \in 1..Len(lists) /\ m - 1 = k /\ m \in 0..n /\ k < m
    BY <1>1 DEF n
  <2> HIDE DEF m
  <2>2. SubSeq(lists, 1, m) = Append(SubSeq(lists, 1, m - 1), p)
    BY <2>1, PrefixGrows
  <2>3. PlaylistIndex(seen, p.id) = 0
    <3>1. seen \in Seq(Playlist) /\ Len(seen) = k /\ \A i \in 1..k : seen[i] = lists[i]
      BY <1>1, <2>1 DEF n
    <3>2. \A i \in 1..k : lists[i].id # p.id
      BY <1>1, <2>1 DEF UniqueIds
    <3> HIDE DEF seen, p
    <3> QED BY <2>1, <3>1, <3>2, PlaylistIndexFacts
  <2>4. /\ AppendMissing(<<>>, p.tracks) = p.tracks
        /\ p = [id |-> p.id, name |-> p.name, tracks |-> p.tracks]
    <3>1. p.tracks \in Seq(Tracks) /\ IsInjective(p.tracks)
      BY <2>1, ListsTyped DEF DistinctLists
    <3>2. p = [id |-> p.id, name |-> p.name, tracks |-> p.tracks]
      BY <2>1, ListsTyped
    <3> HIDE DEF p
    <3> QED BY <3>1, <3>2, AppendMissingToNothing
  <2>5. run[m] = MergePlaylist(seen, p)
    BY <1>3, <1>5, <2>1
  <2>6. MergePlaylist(seen, p) = Append(seen, p)
    <3> HIDE DEF seen, p
    <3> QED BY <2>3, <2>4 DEF MergePlaylist
  <2>7. run[m] = SubSeq(lists, 1, m)
    BY <2>1, <2>2, <2>5, <2>6
  <2> QED BY <2>1, <2>7 DEF m
<1>6. run[n] = SubSeq(lists, 1, n)
  <2> HIDE DEF S
  <2>1. \A k \in 0..n : k \in S
    BY <1>1, <1>4, <1>5, HoldsUpTo
  <2> QED BY <1>1, <2>1 DEF S
<1> QED BY <1>3, <1>6 DEF n

\* The import of a neat snapshot makes it the empty account's own, and the
\* second time adds nothing.
LEMMA ImportHandsOver ==
  ASSUME NEW m, Neat(m), Room(m)
  PROVE  /\ ImportRequest(m) \in Request
         /\ Apply(EmptyUser, ImportRequest(m)).user = UserOf(m)
         /\ Apply(UserOf(m), ImportRequest(m)).user = UserOf(m)
<1> DEFINE r == ImportRequest(m)
           u == UserOf(m)
<1>1. /\ m.favorites \in Seq(Tracks) /\ m.playlists \in Seq(Playlist)
      /\ IsInjective(m.favorites) /\ DistinctLists(m.playlists)
      /\ UniqueIds(m.playlists)
  BY UserOfFields DEF Neat, WellKept, DistinctUser
<1>2. /\ r \in Request /\ r.op = "import"
      /\ r.favorites = m.favorites /\ r.playlists = m.playlists
  BY <1>1 DEF ImportRequest, Request
<1>3. Merged(EmptyUser, r) = u
  <2>1. AppendMissing(<<>>, m.favorites) = m.favorites
    BY <1>1, AppendMissingToNothing
  <2>2. MergedPlaylists(<<>>, m.playlists) = m.playlists
    BY <1>1, MergedToNothing
  <2> QED BY <1>2, <2>1, <2>2 DEF Merged, EmptyUser, UserOf
<1>4. /\ Len(m.favorites) \in Nat /\ Len(m.playlists) \in Nat
      /\ DOMAIN m.playlists = 1..Len(m.playlists)
      /\ \A i \in DOMAIN m.playlists : Len(m.playlists[i].tracks) \in Nat
  BY <1>1, LenProperties, ListsTyped
<1>5. ImportError(r.favorites, r.playlists) = "none"
  BY <1>1, <1>2, <1>4, LimitsAssumption DEF ImportError, Room, UniqueIds
<1>6. ~Overflows(u)
  BY <1>4, LimitsAssumption DEF Overflows, UserOf, Room
<1>7. Apply(EmptyUser, r).user = u
  <2>1. Apply(EmptyUser, r) =
          IF u = EmptyUser THEN Unchanged(EmptyUser) ELSE Changed(u)
    <3> HIDE DEF r, u
    <3>1. Apply(EmptyUser, r) =
            ImportCollections(EmptyUser, r.favorites, r.playlists)
      BY <1>2 DEF Apply
    <3> QED BY <1>3, <1>5, <1>6, <3>1 DEF ImportCollections, Merged, Overflows
  <2> QED BY <2>1, OutcomeFields
<1>8. WellKept(EmptyUser)
  BY NothingIsNeat DEF Neat
<1> HIDE DEF r, u
<1>9. Apply(u, r).user = u
  BY <1>2, <1>7, <1>8, TwiceIsOnce
<1> QED BY <1>2, <1>7, <1>9 DEF r, u

-----------------------------------------------------------------------------
(***************************************************************************)
(* Types: requests make accounts of accounts, changes snapshots of         *)
(* snapshots, whatever repetitions are in them.                            *)
(***************************************************************************)

\* A list that is made element by element.
LEMMA ListIsSeq ==
  ASSUME NEW T, NEW n \in Nat, NEW s, DOMAIN s = 1..n, s = [k \in 1..n |-> s[k]],
         \A k \in 1..n : s[k] \in T
  PROVE  s \in Seq(T)
<1>1. s \in [1..n -> T]
  OBVIOUS
<1> QED BY <1>1

\* Any playlist in the place of one.
LEMMA WithPlaylistTyped ==
  ASSUME NEW user \in UserData, NEW i \in 1..Len(user.playlists), NEW p \in Playlist
  PROVE  WithPlaylist(user, i, p) \in UserData
<1>1. user.playlists \in Seq(Playlist)
  BY UserFields
<1>2. [user.playlists EXCEPT ![i] = p] \in Seq(Playlist)
  BY <1>1, ExceptSeq
<1> QED BY <1>2, UserFields DEF WithPlaylist

\* Requests about the favorites, the mode and whole playlists.
LEMMA ApplyTypedWhole ==
  ASSUME NEW user \in UserData, NEW r \in Request,
         r.op \in {"add_favorite", "remove_favorite", "create_playlist",
                   "delete_playlist", "set_playback_mode"}
  PROVE  Apply(user, r).user \in UserData
<1>1. user.favorites \in Seq(Tracks) /\ user.playlists \in Seq(Playlist)
  BY UserFields
<1>2. CASE r.op = "add_favorite"
  <2>1. r.track \in Tracks
    BY <1>2 DEF Request
  <2>2. Append(user.favorites, r.track) \in Seq(Tracks)
    BY <1>1, <2>1, AppendProperties
  <2>3. Apply(user, r).user \in
          {user, [user EXCEPT !.favorites = Append(@, r.track)]}
    BY <1>2, OutcomeFields DEF Apply, AddFavorite
  <2>4. [user EXCEPT !.favorites = Append(@, r.track)] \in UserData
    BY <2>2, UserFields
  <2> QED BY <2>3, <2>4
<1>3. CASE r.op = "remove_favorite"
  <2>1. CASE Contains(user.favorites, r.track)
    <3>1. RemoveFirst(user.favorites, r.track) \in Seq(Tracks)
      BY <1>1, <2>1, RemoveFirstTyped
    <3>2. Apply(user, r).user = [user EXCEPT !.favorites = RemoveFirst(@, r.track)]
      BY <1>3, <2>1, OutcomeFields DEF Apply, RemoveFavorite
    <3> QED BY <3>1, <3>2, UserFields
  <2>2. CASE ~Contains(user.favorites, r.track)
    BY <1>3, <2>2, OutcomeFields DEF Apply, RemoveFavorite
  <2> QED BY <2>1, <2>2
<1>4. CASE r.op = "create_playlist"
  <2> DEFINE p == [id |-> r.playlist, name |-> r.name, tracks |-> <<>>]
  <2>1. p \in Playlist
    BY <1>4 DEF Request, Playlist
  <2>2. Apply(user, r).user \in
          {user, [user EXCEPT !.playlists = Append(@, p)]}
    BY <1>4, OutcomeFields DEF Apply, CreatePlaylist
  <2> HIDE DEF p
  <2>3. Append(user.playlists, p) \in Seq(Playlist)
    BY <1>1, <2>1, AppendProperties
  <2>4. [user EXCEPT !.playlists = Append(@, p)] \in UserData
    BY <2>3, UserFields
  <2> QED BY <2>2, <2>4
<1>5. CASE r.op = "delete_playlist"
  <2> DEFINE i == PlaylistIndex(user.playlists, r.playlist)
  <2>1. CASE i = 0
    BY <1>5, <2>1, OutcomeFields DEF Apply, DeletePlaylist
  <2>2. CASE i # 0
    <3>1. i \in 1..Len(user.playlists)
      BY <1>1, <2>2, PlaylistIndexFacts, LenProperties
    <3>2. Apply(user, r).user = [user EXCEPT !.playlists = RemoveAt(@, i)]
      BY <1>5, <2>2, OutcomeFields DEF Apply, DeletePlaylist
    <3> HIDE DEF i
    <3>3. RemoveAt(user.playlists, i) \in Seq(Playlist)
      BY <1>1, <3>1, RemoveAtProperties
    <3> QED BY <3>2, <3>3, UserFields
  <2> QED BY <2>1, <2>2
<1>6. CASE r.op = "set_playback_mode"
  <2>1. r.mode \in PlaybackModes
    BY <1>6 DEF Request
  <2>2. Apply(user, r).user \in {user, [user EXCEPT !.mode = r.mode]}
    BY <1>6, OutcomeFields DEF Apply, SetPlaybackMode
  <2>3. [user EXCEPT !.mode = r.mode] \in UserData
    BY <2>1, UserFields
  <2> QED BY <2>2, <2>3
<1> QED BY <1>2, <1>3, <1>4, <1>5, <1>6

\* Requests about one playlist.
LEMMA ApplyTypedPart ==
  ASSUME NEW user \in UserData, NEW r \in Request,
         r.op \in {"rename_playlist", "add_track", "remove_track"}
  PROVE  Apply(user, r).user \in UserData
<1> DEFINE i == PlaylistIndex(user.playlists, r.playlist)
           old == user.playlists[i]
           named == [old EXCEPT !.name = r.name]
           added == [old EXCEPT !.tracks = Append(@, r.track)]
           removed == [old EXCEPT !.tracks = RemoveFirst(@, r.track)]
<1>1. user.playlists \in Seq(Playlist)
  BY UserFields
<1>2. CASE i = 0
  BY <1>2, OutcomeFields
     DEF Apply, RenamePlaylist, AddPlaylistTrack, RemovePlaylistTrack
<1>3. CASE i # 0
  <2>1. i \in 1..Len(user.playlists)
    BY <1>1, <1>3, PlaylistIndexFacts, LenProperties
  <2>2. old \in Playlist /\ old.tracks \in Seq(Tracks)
    BY <1>1, <2>1, ListsTyped
  <2>3. CASE r.op = "rename_playlist"
    <3>1. named \in Playlist
      BY <2>2, <2>3 DEF Playlist, Request
    <3>2. Apply(user, r).user \in {user, WithPlaylist(user, i, named)}
      BY <1>3, <2>3, OutcomeFields DEF Apply, RenamePlaylist, WithPlaylist
    <3> HIDE DEF i, named
    <3> QED BY <2>1, <3>1, <3>2, WithPlaylistTyped
  <2>4. CASE r.op = "add_track"
    <3>1. added \in Playlist
      <4>1. r.track \in Tracks
        BY <2>4 DEF Request
      <4>2. Append(old.tracks, r.track) \in Seq(Tracks)
        BY <2>2, <4>1, AppendProperties
      <4> QED BY <2>2, <4>2 DEF Playlist
    <3>2. Apply(user, r).user \in {user, WithPlaylist(user, i, added)}
      BY <1>3, <2>4, OutcomeFields DEF Apply, AddPlaylistTrack, WithPlaylist
    <3> HIDE DEF i, added
    <3> QED BY <2>1, <3>1, <3>2, WithPlaylistTyped
  <2>5. CASE r.op = "remove_track"
    <3>1. CASE Contains(old.tracks, r.track)
      <4>1. RemoveFirst(old.tracks, r.track) \in Seq(Tracks)
        BY <2>2, <3>1, RemoveFirstTyped
      <4>2. removed \in Playlist
        BY <2>2, <4>1 DEF Playlist
      <4>3. Apply(user, r).user = WithPlaylist(user, i, removed)
        BY <1>3, <2>5, <3>1, OutcomeFields DEF Apply, RemovePlaylistTrack, WithPlaylist
      <4> HIDE DEF i, removed
      <4> QED BY <2>1, <4>2, <4>3, WithPlaylistTyped
    <3>2. CASE ~Contains(old.tracks, r.track)
      BY <2>5, <3>2, <1>3, OutcomeFields DEF Apply, RemovePlaylistTrack
    <3> QED BY <3>1, <3>2
  <2> QED BY <2>3, <2>4, <2>5
<1> QED BY <1>2, <1>3

\* Every request makes an account of an account.
LEMMA ApplyTyped ==
  ASSUME NEW user \in UserData, NEW r \in Request
  PROVE  Apply(user, r).user \in UserData
<1>1. CASE r.op = "import"
  <2>1. Merged(user, r) \in UserData
    BY <1>1, MergedFacts
  <2> QED BY <1>1, <2>1, ImportOutcome
<1> QED BY <1>1, ApplyTypedWhole, ApplyTypedPart DEF Request

\* The lists of a snapshot.
LEMMA SnapshotTyped ==
  ASSUME NEW s \in Snapshot
  PROVE  /\ s.favorites \in Seq(Tracks) /\ s.playlists \in Seq(Playlist)
         /\ \A x \in Seq(Tracks) : [s EXCEPT !.favorites = x] \in Snapshot
         /\ \A x \in Seq(Playlist) : [s EXCEPT !.playlists = x] \in Snapshot
BY DEF Snapshot

\* Every change makes a snapshot of a snapshot.
LEMMA OptimisticTyped ==
  ASSUME NEW s \in Snapshot, NEW r, IsChange(r)
  PROVE  Optimistic(s, r) \in Snapshot
<1> DEFINE lists == s.playlists
<1>1. /\ s.favorites \in Seq(Tracks) /\ lists \in Seq(Playlist) /\ r \in Request
      /\ Len(lists) \in Nat /\ DOMAIN lists = 1..Len(lists)
      /\ \A k \in DOMAIN lists :
           lists[k] \in Playlist /\ lists[k].tracks \in Seq(Tracks)
  BY SnapshotTyped, ListsTyped DEF IsChange
<1>2. CASE r.op \in {"add_favorite", "remove_favorite"}
  <2>1. r.track \in Tracks
    BY <1>1, <1>2 DEF Request
  <2>2. /\ AppendOnce(s.favorites, r.track) \in Seq(Tracks)
        /\ Without(s.favorites, {r.track}) \in Seq(Tracks)
    BY <1>1, <2>1, AppendOnceFacts, WithoutFacts
  <2>3. Optimistic(s, r) \in
          {[s EXCEPT !.favorites = AppendOnce(s.favorites, r.track)],
           [s EXCEPT !.favorites = Without(s.favorites, {r.track})]}
    BY <1>2 DEF Optimistic
  <2> QED BY <2>2, <2>3, SnapshotTyped
<1>3. CASE r.op = "create_playlist"
  <2> DEFINE p == [id |-> r.playlist, name |-> r.name, tracks |-> <<>>]
  <2>1. p \in Playlist
    BY <1>1, <1>3 DEF Request, Playlist
  <2>2. Optimistic(s, r) \in {s, [s EXCEPT !.playlists = Append(lists, p)]}
    BY <1>3 DEF Optimistic
  <2> HIDE DEF p
  <2>3. Append(lists, p) \in Seq(Playlist)
    BY <1>1, <2>1, AppendProperties
  <2> QED BY <2>2, <2>3, SnapshotTyped
<1>4. CASE r.op = "delete_playlist"
  <2> DEFINE new == Without(lists, {p \in Range(lists) : p.id = r.playlist})
  <2>1. Optimistic(s, r) = [s EXCEPT !.playlists = new]
    BY <1>4 DEF Optimistic
  <2>2. new \in Seq(Playlist)
    BY <1>1, WithoutFacts
  <2> QED BY <2>1, <2>2, SnapshotTyped
<1>5. CASE r.op \in {"rename_playlist", "add_track", "remove_track"}
  <2> DEFINE named == [k \in DOMAIN lists |-> IF lists[k].id = r.playlist
                         THEN [lists[k] EXCEPT !.name = r.name] ELSE lists[k]]
             added == [k \in DOMAIN lists |-> IF lists[k].id = r.playlist
                         THEN [lists[k] EXCEPT !.tracks = AppendOnce(@, r.track)]
                         ELSE lists[k]]
             removed == [k \in DOMAIN lists |-> IF lists[k].id = r.playlist
                           THEN [lists[k] EXCEPT !.tracks = Without(@, {r.track})]
                           ELSE lists[k]]
  <2>1. CASE r.op = "rename_playlist"
    <3>1. Optimistic(s, r) = [s EXCEPT !.playlists = named]
      BY <2>1 DEF Optimistic, UpdatePlaylist
    <3>2. \A k \in 1..Len(lists) : named[k] \in Playlist
      BY <1>1, <2>1 DEF Playlist, Request
    <3>3. named \in Seq(Playlist)
      <4>1. DOMAIN named = 1..Len(lists) /\ named = [k \in 1..Len(lists) |-> named[k]]
        BY <1>1
      <4> HIDE DEF named, lists
      <4> QED BY <1>1, <3>2, <4>1, ListIsSeq
    <3> QED BY <3>1, <3>3, SnapshotTyped
  <2>2. CASE r.op = "add_track"
    <3>1. Optimistic(s, r) = [s EXCEPT !.playlists = added]
      BY <2>2 DEF Optimistic, UpdatePlaylist
    <3>2. \A k \in 1..Len(lists) : AppendOnce(lists[k].tracks, r.track) \in Seq(Tracks)
      BY <1>1, <2>2, AppendOnceFacts DEF Request
    <3>3. \A k \in 1..Len(lists) : added[k] \in Playlist
      BY <1>1, <3>2 DEF Playlist
    <3>4. added \in Seq(Playlist)
      <4>1. DOMAIN added = 1..Len(lists) /\ added = [k \in 1..Len(lists) |-> added[k]]
        BY <1>1
      <4> HIDE DEF added, lists
      <4> QED BY <1>1, <3>3, <4>1, ListIsSeq
    <3> QED BY <3>1, <3>4, SnapshotTyped
  <2>3. CASE r.op = "remove_track"
    <3>1. Optimistic(s, r) = [s EXCEPT !.playlists = removed]
      BY <2>3 DEF Optimistic, UpdatePlaylist
    <3>2. \A k \in 1..Len(lists) : Without(lists[k].tracks, {r.track}) \in Seq(Tracks)
      BY <1>1, WithoutFacts
    <3>3. \A k \in 1..Len(lists) : removed[k] \in Playlist
      BY <1>1, <3>2 DEF Playlist
    <3>4. removed \in Seq(Playlist)
      <4>1. /\ DOMAIN removed = 1..Len(lists)
            /\ removed = [k \in 1..Len(lists) |-> removed[k]]
        BY <1>1
      <4> HIDE DEF removed, lists
      <4> QED BY <1>1, <3>3, <4>1, ListIsSeq
    <3> QED BY <3>1, <3>4, SnapshotTyped
  <2> QED BY <1>5, <2>1, <2>2, <2>3
<1> QED BY <1>1, <1>2, <1>3, <1>4, <1>5 DEF IsChange, Request

\* And so does an outbox.
LEMMA ApplyOutboxTyped ==
  ASSUME NEW T, \A r \in T : IsChange(r), NEW s \in Snapshot, NEW outbox \in Seq(T)
  PROVE  ApplyOutbox(s, outbox) \in Snapshot
<1> DEFINE n == Len(outbox)
<1>1. n \in Nat /\ DOMAIN outbox = 1..n /\ \A k \in 1..n : IsChange(outbox[k])
  BY LenProperties, ElementOfSeq
<1> HIDE DEF n
<1>2. PICK run : IsRun("optimistic", {}, s, outbox, n, run)
  BY <1>1, FoldRun
<1>3. /\ run[0] = s
      /\ \A k \in 1..n : run[k] = Optimistic(run[k - 1], outbox[k])
      /\ ApplyOutbox(s, outbox) = run[n]
  BY <1>2, FoldsAreFolded DEF IsRun, FoldStep
<1> DEFINE S == {k \in 0..n : run[k] \in Snapshot}
<1>4. 0 \in S
  BY <1>1, <1>3
<1>5. ASSUME NEW k \in 0..n - 1, k \in S PROVE k + 1 \in S
  <2>1. k + 1 \in 1..n /\ (k + 1) - 1 = k /\ k + 1 \in 0..n
    BY <1>1
  <2>2. run[k + 1] = Optimistic(run[k], outbox[k + 1]) /\ run[k] \in Snapshot
        /\ IsChange(outbox[k + 1])
    BY <1>1, <1>3, <1>5, <2>1
  <2> QED BY <2>1, <2>2, OptimisticTyped
<1>6. run[n] \in Snapshot
  <2> HIDE DEF S
  <2>1. n \in S
    BY <1>1, <1>4, <1>5, HoldsUpTo
  <2> QED BY <2>1 DEF S
<1> QED BY <1>3, <1>6
=============================================================================
