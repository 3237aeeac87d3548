-------------------------- MODULE PlayQueueProofs --------------------------
(***************************************************************************)
(* Proofs about PlayQueue, for every set of tracks, every length of the    *)
(* queue and of the shuffle history, and every number of waiting writes.   *)
(***************************************************************************)
EXTENDS PlayQueue, SequenceLemmas, FiniteSetTheorems

-----------------------------------------------------------------------------
(***************************************************************************)
(* Sequences of tracks.                                                    *)
(***************************************************************************)

\* A track in the queue is found at its first position, any other at 0.
LEMMA IndexOfFinds ==
  ASSUME NEW s \in Seq(Tracks), NEW t
  PROVE  /\ IndexOf(s, t) \in 0..Len(s)
         /\ IndexOf(s, t) # 0 => s[IndexOf(s, t)] = t
         /\ IndexOf(s, t) = 0 => \A i \in 1..Len(s) : s[i] # t
<1> DEFINE found == {i \in DOMAIN s : s[i] = t}
<1>1. DOMAIN s = 1..Len(s) /\ Len(s) \in Nat
  BY LenProperties
<1>2. CASE found = {}
  BY <1>1, <1>2 DEF IndexOf
<1>3. CASE found # {}
  <2>1. found \subseteq Nat
    BY <1>1
  <2>2. PICK i \in found : \A j \in found : <<j, i>> \notin OpToRel(<, Nat)
    BY <2>1, <1>3, NatLessThanWellFounded, WFMin, Zenon
  <2>3. \A j \in found : ~(j < i)
    BY <2>1, <2>2, Zenon DEF OpToRel
  <2>4. \A j \in found : i <= j
    BY <2>1, <2>3
  <2>5. IndexOf(s, t) = CHOOSE k \in found : \A j \in found : k <= j
    BY <1>3 DEF IndexOf
  <2>6. IndexOf(s, t) \in found
    BY <2>4, <2>5
  <2> QED
    BY <2>6, <1>1
<1> QED
  BY <1>2, <1>3

\* Each track of a queue without repeats is found where it is.
LEMMA IndexOfIs ==
  ASSUME NEW s \in Seq(Tracks), IsInjective(s), NEW i \in 1..Len(s)
  PROVE  IndexOf(s, s[i]) = i
<1>1. DOMAIN s = 1..Len(s)
  BY LenProperties
<1>2. IndexOf(s, s[i]) # 0
  BY IndexOfFinds
<1> QED
  BY <1>1, <1>2, IndexOfFinds DEF IsInjective

-----------------------------------------------------------------------------
(***************************************************************************)
(* The queue after a part of it was replaced.  Whole is what an edit must  *)
(* see to before the history begins anew, Fit is what it leaves behind.    *)
(***************************************************************************)
Whole(p) == p \in PlayQueueType /\ IsInjective(p.tracks) /\ CurrentFits(p)

\* The round of shuffle, see EveryTrackOncePerRound: what it has drawn is the
\* end of the history.
RoundFits(p) ==
  LET drawn == Len(p.tracks) - Cardinality(p.remaining) IN
  p.history # <<>> /\ drawn <= Len(p.history) =>
    {p.history[i] : i \in Len(p.history) - drawn + 1..Len(p.history)}
      = DOMAIN p.tracks \ p.remaining

Fit(p) == Whole(p) /\ HistoryFits(p) /\ RoundFits(p)

\* A round is one of the tracks, the history and what remains.
LEMMA SameRound ==
  ASSUME NEW p, RoundFits(p), NEW e, e.tracks = p.tracks,
         e.history = p.history, e.remaining = p.remaining
  PROVE  RoundFits(e)
BY DEF RoundFits

\* A new round of shuffle fits every whole queue (_resetShuffleHistory).
LEMMA ResetFits ==
  ASSUME NEW p, Whole(p)
  PROVE  Fit(Reset(p, p.index)) /\ Reset(p, p.index).tracks = p.tracks
<1> DEFINE e == Reset(p, p.index)
<1>0. /\ p \in PlayQueueType /\ p.tracks \in Seq(Tracks)
      /\ p.index \in Nat /\ MaxHistory \in Nat /\ MaxHistory >= 2
      /\ DOMAIN p.tracks = 1..Len(p.tracks) /\ Len(p.tracks) \in Nat
  BY LenProperties, OrderAssumption DEF Whole, PlayQueueType
<1>1. CASE p.index \notin DOMAIN p.tracks
  <2>1. p.index = 0
    BY <1>1 DEF Whole, CurrentFits
  <2>2. e = [p EXCEPT !.history = <<>>, !.at = 0, !.remaining = {}]
    BY <1>1 DEF Reset
  <2> HIDE DEF e
  <2>3. /\ e \in PlayQueueType
        /\ e.tracks = p.tracks /\ e.index = p.index /\ e.current = p.current
        /\ e.mode = p.mode /\ e.history = <<>> /\ e.at = 0 /\ e.remaining = {}
    <3>1. <<>> \in Seq(Nat) /\ 0 \in Nat /\ {} \in SUBSET Nat
      OBVIOUS
    <3> QED
      BY <1>0, <2>2, <3>1 DEF PlayQueueType
  <2>4. Whole(e)
    BY <2>3 DEF Whole, CurrentFits
  <2>5. Len(e.history) = 0 /\ DOMAIN e.history = {}
    BY <2>3
  <2>6. HistoryFits(e)
    BY <1>0, <2>1, <2>3, <2>5 DEF HistoryFits
  <2>7. RoundFits(e)
    BY <2>3 DEF RoundFits
  <2> QED
    BY <2>3, <2>4, <2>6, <2>7 DEF Fit, e
<1>2. CASE p.index \in DOMAIN p.tracks
  <2>2. e = [p EXCEPT !.history = <<p.index>>, !.at = 1,
                      !.remaining = DOMAIN p.tracks \ {p.index}]
    BY <1>2 DEF Reset
  <2> HIDE DEF e
  <2>3. /\ e \in PlayQueueType
        /\ e.tracks = p.tracks /\ e.index = p.index /\ e.current = p.current
        /\ e.mode = p.mode /\ e.history = <<p.index>> /\ e.at = 1
        /\ e.remaining = DOMAIN p.tracks \ {p.index}
    <3>1. <<p.index>> \in Seq(Nat) /\ 1 \in Nat
      BY <1>0
    <3>2. DOMAIN p.tracks \ {p.index} \in SUBSET Nat
      BY <1>0
    <3> QED
      BY <1>0, <2>2, <3>1, <3>2 DEF PlayQueueType
  <2>4. Whole(e)
    BY <2>3 DEF Whole, CurrentFits
  <2>5. Len(e.history) = 1 /\ DOMAIN e.history = {1} /\ e.history[1] = p.index
    BY <2>3
  <2>6. HistoryFits(e)
    BY <1>0, <1>2, <2>3, <2>5 DEF HistoryFits
  <2>7. Cardinality(e.remaining) = Len(p.tracks) - 1
    <3>1. /\ IsFiniteSet(1..Len(p.tracks))
          /\ Cardinality(1..Len(p.tracks)) = Len(p.tracks)
      BY <1>0, FS_Interval
    <3>2. Cardinality(1..Len(p.tracks) \ {p.index}) = Cardinality(1..Len(p.tracks)) - 1
      BY <1>0, <1>2, <3>1, FS_RemoveElement, Zenon
    <3> QED
      BY <1>0, <2>3, <3>1, <3>2
  <2>8. RoundFits(e)
    <3>1. Len(e.tracks) - Cardinality(e.remaining) = 1
      BY <1>0, <2>3, <2>7
    <3>2. {e.history[i] : i \in 1 - 1 + 1..1} = {p.index}
      BY <2>5
    <3>3. DOMAIN e.tracks \ e.remaining = {p.index}
      BY <1>2, <2>3
    <3> QED
      BY <2>5, <3>1, <3>2, <3>3 DEF RoundFits
  <2> QED
    BY <2>3, <2>4, <2>6, <2>8 DEF Fit, e
<1> QED
  BY <1>1, <1>2

\* Any position of a queue without repeats can be the current one.
LEMMA AtIsWhole ==
  ASSUME NEW p \in PlayQueueType, NEW s \in Seq(Tracks), IsInjective(s),
         NEW i \in 1..Len(s)
  PROVE  /\ Whole(At(p, s, i)) /\ At(p, s, i).tracks = s
         /\ At(p, s, i).index = i
<1>1. s[i] \in Tracks /\ DOMAIN s = 1..Len(s) /\ s[i] # NoTrack /\ i \in Nat
  BY ElementOfSeq, LenProperties, OrderAssumption
<1>2. At(p, s, i) = [p EXCEPT !.tracks = s, !.index = i, !.current = s[i]]
  BY DEF At
<1> QED
  BY <1>1, <1>2 DEF Whole, PlayQueueType, CurrentFits

\* _selectQueueTrack with a position of the queue it is given.
LEMMA ChosenFits ==
  ASSUME NEW p \in PlayQueueType, NEW s \in Seq(Tracks), IsInjective(s),
         NEW i \in 1..Len(s)
  PROVE  Fit(Chosen(p, s, i)) /\ Chosen(p, s, i).tracks = s
BY AtIsWhole, ResetFits DEF Chosen

\* An edit that knows where the current track has come to.
LEMMA EditedFits ==
  ASSUME NEW p \in PlayQueueType, NEW s \in Seq(Tracks), IsInjective(s),
         NEW i \in Nat,
         IF p.current = NoTrack THEN i = 0
         ELSE i \in 1..Len(s) /\ s[i] = p.current
  PROVE  Fit(Edited(p, s, i)) /\ Edited(p, s, i).tracks = s
<1> DEFINE e == [p EXCEPT !.tracks = s, !.index = i]
<1>1. Whole(e) /\ e.tracks = s /\ e.index = i
  BY LenProperties DEF Whole, PlayQueueType, CurrentFits
<1> QED
  BY <1>1, ResetFits DEF Edited

\* _resolvedCurrentIndex has nothing to correct.
LEMMA ResolvedIsIndex ==
  ASSUME NEW p, Whole(p), p.current # NoTrack
  PROVE  /\ Resolved(p) = p.index /\ p.index \in 1..Len(p.tracks)
         /\ p.tracks[p.index] = p.current
<1>1. p.tracks \in Seq(Tracks)
  BY DEF Whole, PlayQueueType
<1> QED
  BY <1>1, LenProperties DEF Whole, CurrentFits, Resolved

-----------------------------------------------------------------------------
(***************************************************************************)
(* The edits.                                                              *)
(***************************************************************************)

\* An empty queue has nothing that could be wrong.
LEMMA EmptyFits ==
  ASSUME NEW mode \in Modes, NEW s \in Seq(Tracks), IsInjective(s)
  PROVE  /\ Fit([EmptyQueue(mode) EXCEPT !.tracks = s])
         /\ Fit(EmptyQueue(mode))
         /\ EmptyQueue(mode).tracks = <<>>
         /\ [EmptyQueue(mode) EXCEPT !.tracks = s].tracks = s
<1>1. MaxHistory \in Nat /\ NoTrack \notin Tracks
  BY OrderAssumption
<1>2. ASSUME NEW e \in PlayQueueType, IsInjective(e.tracks), e.index = 0,
             e.current = NoTrack, e.history = <<>>, e.at = 0, e.remaining = {}
      PROVE  Fit(e)
  <2>1. Whole(e)
    BY <1>2 DEF Whole, CurrentFits
  <2>2. Len(e.history) = 0 /\ DOMAIN e.history = {}
    BY <1>2
  <2>3. HistoryFits(e)
    BY <1>1, <1>2, <2>2 DEF HistoryFits
  <2>4. RoundFits(e)
    BY <1>2 DEF RoundFits
  <2> QED
    BY <2>1, <2>3, <2>4 DEF Fit
<1>3. <<>> \in Seq(Tracks) /\ IsInjective(<<>>)
  BY DEF IsInjective
<1> DEFINE e == EmptyQueue(mode)
           r == [e EXCEPT !.tracks = s]
<1>4. /\ e \in PlayQueueType /\ e.tracks = <<>> /\ e.index = 0
      /\ e.current = NoTrack /\ e.history = <<>> /\ e.at = 0 /\ e.remaining = {}
  BY <1>3, <<>> \in Seq(Nat) DEF EmptyQueue, PlayQueueType
<1> HIDE DEF e
<1>5. /\ r \in PlayQueueType /\ r.tracks = s /\ r.index = 0
      /\ r.current = NoTrack /\ r.history = <<>> /\ r.at = 0 /\ r.remaining = {}
  BY <1>4 DEF PlayQueueType
<1> HIDE DEF r
<1>6. Fit(e) /\ Fit(r)
  BY <1>2, <1>3, <1>4, <1>5
<1> QED
  BY <1>4, <1>5, <1>6 DEF e, r

\* select, for a track that is in the queue or new to it.
LEMMA SelectFits ==
  ASSUME NEW p, Whole(p), NEW t \in Tracks
  PROVE  Fit(Select(p, t))
<1>0. /\ p \in PlayQueueType /\ p.tracks \in Seq(Tracks) /\ IsInjective(p.tracks)
      /\ Whole(p) /\ Len(p.tracks) \in Nat /\ DOMAIN p.tracks = 1..Len(p.tracks)
  BY LenProperties DEF Fit, Whole, PlayQueueType
<1> DEFINE found == IndexOf(p.tracks, t)
<1>1. found \in 0..Len(p.tracks) /\ (found = 0 => \A i \in 1..Len(p.tracks) : p.tracks[i] # t)
  BY <1>0, IndexOfFinds
<1>2. CASE found # 0
  <2>1. Fit(Chosen(p, p.tracks, found))
    BY <1>0, <1>1, <1>2, ChosenFits
  <2> QED
    BY <1>2, <2>1 DEF Select
<1>3. CASE found = 0 /\ p.tracks # <<>> /\ p.current # NoTrack
  <2> DEFINE k == Resolved(p) + 1
  <2>1. k \in 1..Len(p.tracks) + 1
    BY <1>0, <1>3, ResolvedIsIndex
  <2>2. IsInjective(InsertAt(p.tracks, k, t))
    BY <1>0, <1>1, <1>3, <2>1, InsertKeepsInjective
  <2>3. Fit(Chosen(p, InsertAt(p.tracks, k, t), k))
    BY <1>0, <2>1, <2>2, ChosenFits, InsertAtProperties
  <2> QED
    BY <1>3, <2>3 DEF Select
<1>4. CASE found = 0 /\ ~(p.tracks # <<>> /\ p.current # NoTrack)
  <2> DEFINE new == Append(p.tracks, t)
  <2>1. new \in Seq(Tracks) /\ Len(new) = Len(p.tracks) + 1 /\ IsInjective(new)
    BY <1>0, <1>1, <1>4, AppendKeepsInjective
  <2> HIDE DEF new
  <2>2. Len(p.tracks) + 1 \in 1..Len(new)
    BY <1>0, <2>1
  <2>3. Fit(Chosen(p, new, Len(p.tracks) + 1))
    BY <1>0, <2>1, <2>2, ChosenFits
  <2> QED
    BY <1>4, <2>3 DEF Select, new
<1> QED
  BY <1>2, <1>3, <1>4

\* addToQueue.
LEMMA AddToQueueFits ==
  ASSUME NEW p, Whole(p), NEW t \in Tracks
  PROVE  Fit(AddToQueue(p, t))
<1>0. /\ p \in PlayQueueType /\ p.tracks \in Seq(Tracks) /\ IsInjective(p.tracks)
      /\ p.index \in Nat
      /\ Whole(p) /\ Len(p.tracks) \in Nat /\ DOMAIN p.tracks = 1..Len(p.tracks)
  BY LenProperties DEF Fit, Whole, PlayQueueType
<1> DEFINE found == IndexOf(p.tracks, t)
<1>1. found \in 0..Len(p.tracks) /\ (found = 0 => \A i \in 1..Len(p.tracks) : p.tracks[i] # t)
  BY <1>0, IndexOfFinds
<1>2. CASE found # 0
  BY <1>0, <1>2, ResetFits DEF AddToQueue
<1>3. CASE found = 0
  <2> DEFINE new == Append(p.tracks, t)
  <2>1. /\ new \in Seq(Tracks) /\ Len(new) = Len(p.tracks) + 1 /\ IsInjective(new)
        /\ \A i \in 1..Len(p.tracks) : new[i] = p.tracks[i]
    BY <1>0, <1>1, <1>3, AppendKeepsInjective
  <2> HIDE DEF new
  <2>3. IF p.current = NoTrack THEN p.index = 0
        ELSE p.index \in 1..Len(new) /\ new[p.index] = p.current
    BY <1>0, <2>1 DEF Whole, CurrentFits
  <2>4. Fit(Edited(p, new, p.index))
    BY <1>0, <2>1, <2>3, EditedFits
  <2> QED
    BY <1>3, <2>4 DEF AddToQueue, new
<1> QED
  BY <1>2, <1>3

\* Where the current track is, and that there is none without a position.
LEMMA NowFits ==
  ASSUME NEW p, Whole(p)
  PROVE  LET now == IF p.current = NoTrack THEN 0 ELSE Resolved(p)
         IN  /\ now = p.index /\ now \in 0..Len(p.tracks)
             /\ p.current = NoTrack <=> now = 0
             /\ now # 0 => p.tracks[now] = p.current
<1>1. CASE p.current = NoTrack
  <2>1. p.index = 0 /\ Len(p.tracks) \in Nat
    BY <1>1, LenProperties DEF Whole, PlayQueueType, CurrentFits
  <2> QED
    BY <1>1, <2>1
<1>2. CASE p.current # NoTrack
  <2>1. Len(p.tracks) \in Nat
    BY LenProperties DEF Whole, PlayQueueType
  <2> QED
    BY <1>2, <2>1, ResolvedIsIndex
<1> QED
  BY <1>1, <1>2

\* playNext: the position of the current track is corrected exactly when the
\* inserted track came from before it.
LEMMA PlayNextFits ==
  ASSUME NEW p, Whole(p), NEW t \in Tracks
  PROVE  Fit(PlayNext(p, t))
<1> DEFINE s == p.tracks
           now == IF p.current = NoTrack THEN 0 ELSE Resolved(p)
           found == IndexOf(s, t)
           others == IF found = 0 THEN s ELSE RemoveAt(s, found)
           index == IF found # 0 /\ found < now THEN now - 1 ELSE now
           new == InsertAt(others, index + 1, t)
<1>0. /\ p \in PlayQueueType /\ s \in Seq(Tracks) /\ IsInjective(s)
      /\ Whole(p) /\ Len(s) \in Nat /\ DOMAIN s = 1..Len(s)
  BY LenProperties DEF Fit, Whole, PlayQueueType
<1>1. /\ now = p.index /\ now \in 0..Len(s) /\ (p.current = NoTrack <=> now = 0)
      /\ now # 0 => s[now] = p.current
  BY <1>0, NowFits
<1>2. /\ found \in 0..Len(s) /\ (found # 0 => s[found] = t)
      /\ found = 0 => \A i \in 1..Len(s) : s[i] # t
  BY <1>0, IndexOfFinds
<1>3. PlayNext(p, t) = IF found # 0 /\ found = now THEN Reset(p, p.index)
                       ELSE Edited(p, new, index)
  BY DEF PlayNext
<1>4. CASE found # 0 /\ found = now
  BY <1>0, <1>3, <1>4, ResetFits
<1>5. CASE ~(found # 0 /\ found = now)
  <2>1. /\ others \in Seq(Tracks) /\ IsInjective(others)
        /\ \A i \in 1..Len(others) : others[i] # t
        /\ index \in 0..Len(others) /\ (p.current = NoTrack <=> index = 0)
        /\ index # 0 => others[index] = p.current
    <3>1. CASE found = 0
      BY <1>0, <1>1, <1>2, <3>1
    <3>2. CASE found # 0
      <4> HIDE DEF now, found
      <4>1. found \in 1..Len(s) /\ found # now
        BY <1>2, <1>5, <3>2
      <4>2. /\ RemoveAt(s, found) \in Seq(Tracks)
            /\ Len(RemoveAt(s, found)) = Len(s) - 1
            /\ \A i \in 1..Len(s) - 1 : RemoveAt(s, found)[i] =
                  IF i < found THEN s[i] ELSE s[i + 1]
        BY <1>0, <4>1, RemoveAtProperties
      <4>3. /\ IsInjective(RemoveAt(s, found))
            /\ \A i \in 1..Len(s) - 1 : RemoveAt(s, found)[i] # t
        BY <1>0, <1>2, <4>1, RemoveKeepsInjective
      <4>4. index \in 0..Len(s) - 1 /\ (index = 0 <=> now = 0)
        BY <1>0, <1>1, <4>1
      <4> DEFINE less == RemoveAt(s, found)
      <4> HIDE DEF less
      <4>5. index # 0 => less[index] = s[now]
        <5>1. CASE found < now
          <6>1. /\ now - 1 \in 1..Len(s) - 1 /\ ~(now - 1 < found)
                /\ (now - 1) + 1 = now
            BY <1>0, <1>1, <4>1, <5>1
          <6> QED
            BY <3>2, <5>1, <6>1, <4>2 DEF less
        <5>2. CASE now < found
          BY <1>0, <1>1, <4>1, <4>2, <5>2 DEF less
        <5> QED
          BY <5>1, <5>2, <1>0, <1>1, <4>1
      <4> QED
        BY <3>2, <1>1, <4>2, <4>3, <4>4, <4>5 DEF less
    <3> QED
      BY <3>1, <3>2
  <2> HIDE DEF others, index, now, found
  <2>2. /\ Len(others) \in Nat /\ index \in Nat /\ index + 1 \in 1..Len(others) + 1
    BY <2>1, LenProperties
  <2>3. /\ new \in Seq(Tracks) /\ Len(new) = Len(others) + 1
        /\ \A i \in 1..index : new[i] = others[i]
    <3> DEFINE k == index + 1
    <3>1. /\ new \in Seq(Tracks) /\ Len(new) = Len(others) + 1
          /\ \A i \in 1..Len(others) + 1 : i < k => new[i] = others[i]
      <4> HIDE DEF k
      <4>1. k \in 1..Len(others) + 1
        BY <2>2 DEF k
      <4>2. new = InsertAt(others, k, t)
        BY DEF k
      <4> QED
        BY <2>1, <4>1, <4>2, InsertAtProperties
    <3> QED
      BY <2>2, <3>1
  <2>4. IsInjective(new)
    BY <2>1, <2>2, InsertKeepsInjective
  <2> HIDE DEF new
  <2>5. IF p.current = NoTrack THEN index = 0
        ELSE index \in 1..Len(new) /\ new[index] = p.current
    BY <2>1, <2>2, <2>3
  <2>6. Fit(Edited(p, new, index))
    BY <1>0, <2>2, <2>3, <2>4, <2>5, EditedFits
  <2> QED
    BY <1>3, <1>5, <2>6
<1> QED
  BY <1>4, <1>5

\* removeFromQueue.
LEMMA RemoveFromQueueFits ==
  ASSUME NEW p, Whole(p), NEW i \in 1..Len(p.tracks)
  PROVE  Fit(RemoveFromQueue(p, i))
<1> DEFINE s == p.tracks
           now == IF p.current = NoTrack THEN 0 ELSE Resolved(p)
           new == RemoveAt(s, i)
           index == IF now > i THEN now - 1 ELSE now
           last == IF i <= Len(new) THEN i ELSE Len(new)
<1>0. /\ p \in PlayQueueType /\ s \in Seq(Tracks) /\ IsInjective(s)
      /\ Whole(p) /\ Len(s) \in Nat /\ DOMAIN s = 1..Len(s) /\ p.mode \in Modes
  BY LenProperties DEF Fit, Whole, PlayQueueType
<1>1. /\ now = p.index /\ now \in 0..Len(s) /\ (p.current = NoTrack <=> now = 0)
      /\ now # 0 => s[now] = p.current
  BY <1>0, NowFits
<1>2. RemoveFromQueue(p, i) =
        IF new = <<>> THEN EmptyQueue(p.mode)
        ELSE IF now = i THEN Chosen(p, new, last)
        ELSE Edited(p, new, index)
  BY DEF RemoveFromQueue
<1> HIDE DEF now
<1>3. /\ new \in Seq(Tracks) /\ Len(new) = Len(s) - 1
      /\ \A j \in 1..Len(s) - 1 : new[j] = IF j < i THEN s[j] ELSE s[j + 1]
  BY <1>0, RemoveAtProperties
<1>4. IsInjective(new)
  BY <1>0, RemoveKeepsInjective
<1> HIDE DEF new
<1>5. CASE new = <<>>
  <2>1. <<>> \in Seq(Tracks) /\ IsInjective(<<>>)
    BY DEF IsInjective
  <2> QED
    BY <1>0, <1>2, <1>5, <2>1, EmptyFits
<1>6. CASE new # <<>> /\ now = i
  <2>1. last \in 1..Len(new)
    BY <1>0, <1>3, <1>6, EmptySeq
  <2> QED
    BY <1>0, <1>2, <1>3, <1>4, <1>6, <2>1, ChosenFits
<1>7. CASE new # <<>> /\ now # i
  <2>1. index \in 0..Len(s) - 1 /\ (index = 0 <=> now = 0)
    BY <1>0, <1>1, <1>7
  <2>2. index # 0 => new[index] = s[now]
    <3>1. CASE now > i
      <4>1. now - 1 \in 1..Len(s) - 1 /\ ~(now - 1 < i) /\ (now - 1) + 1 = now
        BY <1>0, <1>1, <3>1
      <4> QED
        BY <3>1, <4>1, <1>3
    <3>2. CASE now < i
      BY <1>0, <1>1, <1>3, <3>2
    <3> QED
      BY <3>1, <3>2, <1>0, <1>1, <1>7
  <2>3. IF p.current = NoTrack THEN index = 0
        ELSE index \in 1..Len(new) /\ new[index] = p.current
    BY <1>0, <1>1, <1>3, <2>1, <2>2
  <2>4. Fit(Edited(p, new, index))
    BY <1>0, <1>3, <1>4, <2>1, <2>3, EditedFits
  <2> QED
    BY <1>2, <1>7, <2>4
<1> QED
  BY <1>5, <1>6, <1>7

\* moveQueueItem: the current track is still in the queue, at the position
\* where it is found.
LEMMA MoveQueueItemFits ==
  ASSUME NEW p, Fit(p), NEW old \in 1..Len(p.tracks),
         NEW new \in 1..Len(p.tracks) + 1
  PROVE  Fit(MoveQueueItem(p, old, new))
<1> DEFINE s == p.tracks
           target == IF new <= Len(s) THEN new ELSE Len(s)
           rest == RemoveAt(s, old)
           moved == InsertAt(rest, target, s[old])
           index == IF p.current = NoTrack THEN 0 ELSE IndexOf(moved, p.current)
<1>0. /\ p \in PlayQueueType /\ s \in Seq(Tracks) /\ IsInjective(s)
      /\ Whole(p) /\ Len(s) \in Nat /\ s[old] \in Tracks
  BY LenProperties, ElementOfSeq DEF Fit, Whole, PlayQueueType
<1>1. MoveQueueItem(p, old, new) = IF old = target THEN p ELSE Edited(p, moved, index)
  BY DEF MoveQueueItem
<1>2. /\ rest \in Seq(Tracks) /\ Len(rest) = Len(s) - 1
      /\ \A i \in 1..Len(s) - 1 : rest[i] = IF i < old THEN s[i] ELSE s[i + 1]
  BY <1>0, RemoveAtProperties
<1>3. IsInjective(rest) /\ \A i \in 1..Len(s) - 1 : rest[i] # s[old]
  BY <1>0, RemoveKeepsInjective
<1> HIDE DEF rest
<1>4. target \in 1..Len(s)
  BY <1>0
<1> HIDE DEF target
<1>4a. target \in 1..Len(rest) + 1
  BY <1>0, <1>2, <1>4
<1>5. /\ moved \in Seq(Tracks) /\ Len(moved) = Len(s)
      /\ \A i \in 1..Len(s) : moved[i] =
           IF i < target THEN rest[i] ELSE IF i = target THEN s[old] ELSE rest[i - 1]
  <2>1. Len(rest) + 1 = Len(s)
    BY <1>0, <1>2
  <2>2. ASSUME NEW t \in Tracks
        PROVE  /\ InsertAt(rest, target, t) \in Seq(Tracks)
               /\ Len(InsertAt(rest, target, t)) = Len(rest) + 1
               /\ \A i \in 1..Len(rest) + 1 : InsertAt(rest, target, t)[i] =
                    IF i < target THEN rest[i]
                    ELSE IF i = target THEN t ELSE rest[i - 1]
    BY <1>2, <1>4a, InsertAtProperties
  <2>3. /\ moved \in Seq(Tracks) /\ Len(moved) = Len(rest) + 1
        /\ \A i \in 1..Len(rest) + 1 : moved[i] =
             IF i < target THEN rest[i] ELSE IF i = target THEN s[old] ELSE rest[i - 1]
    BY <1>0, <2>2
  <2> HIDE DEF moved
  <2> QED
    BY <2>1, <2>3
<1>6. IsInjective(moved)
  <2>1. \A i \in 1..Len(rest) : rest[i] # s[old]
    BY <1>2, <1>3
  <2> QED
    BY <1>0, <1>2, <1>3, <1>4a, <2>1, InsertKeepsInjective
<1> HIDE DEF moved
<1>7. ASSUME NEW n \in 1..Len(s)
      PROVE  \E j \in 1..Len(s) : moved[j] = s[n]
  <2>1. CASE n = old
    BY <2>1, <1>4, <1>5
  <2>2. CASE n # old
    <3> DEFINE r == IF n < old THEN n ELSE n - 1
    <3>1. r \in 1..Len(s) - 1 /\ rest[r] = s[n]
      <4>1. CASE n < old
        BY <4>1, <1>0, <1>2
      <4>2. CASE n > old
        <5>1. n - 1 \in 1..Len(s) - 1 /\ ~(n - 1 < old) /\ (n - 1) + 1 = n
          BY <4>2, <1>0
        <5> QED
          BY <4>2, <5>1, <1>2
      <4> QED
        BY <4>1, <4>2, <2>2
    <3> HIDE DEF r
    <3>2. CASE r < target
      <4>1. r \in 1..Len(s)
        BY <3>1, <1>0
      <4>2. moved[r] = rest[r]
        BY <3>2, <4>1, <1>5
      <4> QED
        BY <3>1, <4>1, <4>2
    <3>3. CASE r >= target
      <4>1. r + 1 \in 1..Len(s) /\ ~(r + 1 < target) /\ r + 1 # target /\ (r + 1) - 1 = r
        BY <3>1, <3>3, <1>0, <1>4
      <4> QED
        BY <3>1, <4>1, <1>5
    <3> QED
      BY <3>1, <3>2, <3>3, <1>4
  <2> QED
    BY <2>1, <2>2
<1>8. IF p.current = NoTrack THEN index = 0
      ELSE index \in 1..Len(moved) /\ moved[index] = p.current
  <2>1. CASE p.current # NoTrack
    <3>1. \E j \in 1..Len(s) : moved[j] = p.current
      BY <1>0, <1>7, <2>1, ResolvedIsIndex
    <3> QED
      BY <2>1, <3>1, <1>5, IndexOfFinds
  <2> QED
    BY <2>1
<1>9. index \in Nat
  BY <1>5, <1>8, LenProperties
<1> HIDE DEF index
<1>10. Fit(Edited(p, moved, index))
  BY <1>0, <1>5, <1>6, <1>8, <1>9, EditedFits
<1> QED
  BY <1>1, <1>10

-----------------------------------------------------------------------------
(***************************************************************************)
(* next and previous.                                                      *)
(***************************************************************************)

\* A history that can be followed: it fits but for the current track.
Followable(h) ==
  /\ h \in PlayQueueType /\ IsInjective(h.tracks)
  /\ \A i \in DOMAIN h.history : h.history[i] \in DOMAIN h.tracks
  /\ Len(h.history) <= MaxHistory
  /\ h.at \in 1..Len(h.history)
  /\ h.remaining \subseteq DOMAIN h.tracks
  /\ \A i \in 1..Len(h.history) - 1 : h.history[i] # h.history[i + 1]
  /\ h.history[Len(h.history)] \notin h.remaining
  /\ RoundFits(h)

\* The track that a history has come to can be the current one.
LEMMA FollowFits ==
  ASSUME NEW h, Followable(h)
  PROVE  Fit(FollowHistory(h)) /\ FollowHistory(h).tracks = h.tracks
<1> DEFINE i == h.history[h.at]
           e == At(h, h.tracks, i)
<1>0. /\ h \in PlayQueueType /\ h.tracks \in Seq(Tracks) /\ IsInjective(h.tracks)
      /\ DOMAIN h.tracks = 1..Len(h.tracks) /\ h.history \in Seq(Nat)
      /\ DOMAIN h.history = 1..Len(h.history) /\ Len(h.history) \in Nat
  BY LenProperties DEF Followable, PlayQueueType
<1>1. i \in 1..Len(h.tracks)
  BY <1>0 DEF Followable
<1>2. Whole(e) /\ e.tracks = h.tracks /\ e.index = i
  BY <1>0, <1>1, AtIsWhole
<1>3. e.history = h.history /\ e.at = h.at /\ e.remaining = h.remaining
  BY DEF At, Followable, PlayQueueType
<1> HIDE DEF e
<1>4. HistoryFits(e)
  <2>1. h.history # <<>> /\ h.at # 0 /\ i # 0
    BY <1>0, <1>1 DEF Followable
  <2>2. h.at \in 0..Len(h.history)
    BY <1>0 DEF Followable
  <2> QED
    BY <1>2, <1>3, <2>1, <2>2 DEF HistoryFits, Followable
<1>5. RoundFits(e)
  BY <1>2, <1>3, SameRound DEF Followable
<1> QED
  BY <1>2, <1>4, <1>5 DEF Fit, FollowHistory, e

\* _ensureShuffleHistory, for a queue that plays in shuffle.
LEMMA EnsuredFollowable ==
  ASSUME NEW p, Fit(p), p.current # NoTrack, p.mode = "shuffle"
  PROVE  LET h == Ensured(p, p.index)
         IN  /\ h = p /\ Followable(h) /\ h.history[h.at] = p.index
<1>1. p.index \in 1..Len(p.tracks)
  BY ResolvedIsIndex DEF Fit
<1>2. p.at # 0 /\ p.history[p.at] = p.index
  BY <1>1 DEF Fit, HistoryFits
<1>3. p.history \in Seq(Nat) /\ DOMAIN p.history = 1..Len(p.history) /\ p.history # <<>>
  BY <1>2, LenProperties DEF Fit, Whole, HistoryFits, PlayQueueType
<1>4. p.at \in DOMAIN p.history
  BY <1>2, <1>3, LenProperties DEF Fit, HistoryFits
<1>5. Ensured(p, p.index) = p
  BY <1>2, <1>4 DEF Ensured
<1>6. Followable(p)
  BY <1>3, <1>4 DEF Followable, Fit, Whole, HistoryFits
<1> QED
  BY <1>2, <1>5, <1>6

\* Without shuffle, any position can become the current one: the history is
\* not looked at.
LEMMA MovedFits ==
  ASSUME NEW p, Fit(p), p.mode # "shuffle", NEW i \in 1..Len(p.tracks)
  PROVE  Fit(At(p, p.tracks, i)) /\ At(p, p.tracks, i).tracks = p.tracks
<1> DEFINE e == At(p, p.tracks, i)
<1>0. /\ p \in PlayQueueType /\ p.tracks \in Seq(Tracks) /\ IsInjective(p.tracks)
      /\ HistoryFits(p)
  BY DEF Fit, Whole, PlayQueueType
<1>1. Whole(e) /\ e.tracks = p.tracks /\ e.index = i
  BY <1>0, AtIsWhole
<1>2. /\ e.history = p.history /\ e.at = p.at /\ e.remaining = p.remaining
      /\ e.mode = p.mode
  BY <1>0 DEF At, PlayQueueType
<1> HIDE DEF e
<1>3. HistoryFits(e)
  BY <1>0, <1>1, <1>2, i # 0 DEF HistoryFits
<1>4. RoundFits(e)
  BY <1>1, <1>2, SameRound DEF Fit
<1> QED
  BY <1>1, <1>3, <1>4 DEF Fit, e

\* A step within the history.
LEMMA SteppedFollowable ==
  ASSUME NEW h, Followable(h), NEW k \in 1..Len(h.history)
  PROVE  /\ Followable([h EXCEPT !.at = k])
         /\ [h EXCEPT !.at = k].tracks = h.tracks
<1> DEFINE e == [h EXCEPT !.at = k]
<1>1. k \in Nat
  BY DEF Followable, PlayQueueType
<1>2. /\ e \in PlayQueueType /\ e.tracks = h.tracks /\ e.at = k
      /\ e.history = h.history /\ e.remaining = h.remaining
  BY <1>1 DEF Followable, PlayQueueType
<1> HIDE DEF e
<1>3. RoundFits(e)
  BY <1>2, SameRound DEF Followable
<1>4. Followable(e)
  BY <1>2, <1>3 DEF Followable
<1> QED
  BY <1>2, <1>4 DEF e

\* A track drawn at the end of the history is not the one it follows, and
\* what a full history forgets is its oldest entry.
LEMMA DrawnFollowable ==
  ASSUME NEW h, Followable(h), NEW now, h.history[Len(h.history)] = now,
         h.at = Len(h.history), NEW e \in Drawn(h, now)
  PROVE  /\ Followable(e) /\ e.tracks = h.tracks /\ e.mode = h.mode
         /\ e.history[e.at] # now
         /\ e.at - 1 \in 1..Len(e.history) /\ e.history[e.at - 1] = now
<1> DEFINE s == h.history
           n == Len(s)
           pool == IF h.remaining = {} THEN DOMAIN h.tracks \ {now} ELSE h.remaining
           Longer(j) == Append(s, j)
           G(j) == IF Len(Longer(j)) > MaxHistory THEN Tail(Longer(j)) ELSE Longer(j)
           A(j) == IF Len(Longer(j)) > MaxHistory THEN h.at ELSE h.at + 1
<1>0. /\ h \in PlayQueueType /\ s \in Seq(Nat) /\ DOMAIN s = 1..n /\ n \in Nat
      /\ h.tracks \in Seq(Tracks) /\ DOMAIN h.tracks = 1..Len(h.tracks)
      /\ n <= MaxHistory /\ n >= 1 /\ MaxHistory \in Nat /\ MaxHistory >= 2
  BY LenProperties, OrderAssumption DEF Followable, PlayQueueType
<1>1. PICK i \in pool : e = [h EXCEPT !.remaining = pool \ {i}, !.history = G(i), !.at = A(i)]
  BY DEF Drawn
<1>2. pool \subseteq DOMAIN h.tracks /\ i \in DOMAIN h.tracks /\ i # now /\ i \in Nat
  BY <1>0, <1>1 DEF Followable
<1>2a. /\ \A j \in 1..n : s[j] \in DOMAIN h.tracks
       /\ \A j \in 1..n - 1 : s[j] # s[j + 1]
       /\ s[n] = now /\ h.at = n
  BY <1>0 DEF Followable
<1> DEFINE l == Append(s, i)
<1>3. /\ l \in Seq(Nat) /\ Len(l) = n + 1 /\ l[n + 1] = i /\ l # <<>>
      /\ \A j \in 1..n : l[j] = s[j]
  BY <1>0, <1>2, AppendProperties
<1>3a. e = [h EXCEPT !.remaining = pool \ {i},
                     !.history = IF n + 1 > MaxHistory THEN Tail(l) ELSE l,
                     !.at = IF n + 1 > MaxHistory THEN n ELSE n + 1]
  BY <1>1, <1>2a, <1>3
<1> HIDE DEF l, n, s
<1>4. /\ \A j \in 1..n + 1 : l[j] \in DOMAIN h.tracks
      /\ \A j \in 1..n : l[j] # l[j + 1]
  <2>3. \A j \in 1..n + 1 : j \in 1..n \/ j = n + 1
    BY <1>0
  <2>4. \A j \in 1..n + 1 : l[j] \in DOMAIN h.tracks
    BY <1>2, <1>2a, <1>3, <2>3
  <2>5. l[n] # l[n + 1]
    BY <1>0, <1>2, <1>2a, <1>3
  <2>6. ASSUME NEW j \in 1..n, j # n
        PROVE  l[j] # l[j + 1]
    <3>1. j \in 1..n - 1 /\ j + 1 \in 1..n
      BY <1>0, <2>6
    <3>2. l[j] = s[j] /\ l[j + 1] = s[j + 1]
      BY <1>3, <3>1
    <3> QED
      BY <1>2a, <3>1, <3>2
  <2> QED
    BY <2>4, <2>5, <2>6
<1> DEFINE g == IF n + 1 > MaxHistory THEN Tail(l) ELSE l
           a == IF n + 1 > MaxHistory THEN n ELSE n + 1
<1>5. /\ g \in Seq(Nat) /\ Len(g) = a /\ g[a] = i /\ a \in 1..MaxHistory
      /\ \A j \in 1..a : g[j] \in DOMAIN h.tracks
      /\ \A j \in 1..a - 1 : g[j] # g[j + 1]
  <2>1. CASE n + 1 > MaxHistory
    <3> DEFINE u == Tail(l)
    <3>0. /\ u \in Seq(Nat) /\ Len(u) = Len(l) - 1
          /\ \A j \in 1..Len(u) : u[j] = l[j + 1]
      BY <1>3, HeadTailProperties, Zenon
    <3> HIDE DEF u
    <3>1. u \in Seq(Nat) /\ Len(u) = n /\ \A j \in 1..n : u[j] = l[j + 1]
      BY <1>0, <1>3, <3>0
    <3>2. u[n] = i /\ \A j \in 1..n : u[j] \in DOMAIN h.tracks
      <4>1. \A j \in 1..n : j + 1 \in 1..n + 1
        BY <1>0
      <4> QED
        BY <1>0, <1>3, <1>4, <3>1, <4>1
    <3>3. \A j \in 1..n - 1 : u[j] # u[j + 1]
      <4>1. \A j \in 1..n - 1 : j \in 1..n /\ j + 1 \in 1..n
        BY <1>0
      <4> QED
        BY <1>4, <3>1, <4>1
    <3>4. g = u /\ a = n
      BY <2>1 DEF u
    <3> HIDE DEF g, a
    <3> QED
      BY <1>0, <3>1, <3>2, <3>3, <3>4
  <2>2. CASE ~(n + 1 > MaxHistory)
    BY <2>2, <1>0, <1>3, <1>4
  <2> QED
    BY <2>1, <2>2
<1>5a. a \in Nat /\ n \in Nat /\ a >= 2 /\ a <= n + 1 /\ 1 <= n
  BY <1>0
<1>5b. ASSUME NEW j \in 1..a - 1
       PROVE  n + 1 - a + j \in 1..n /\ g[j] = s[n + 1 - a + j]
  <2>1. CASE n + 1 > MaxHistory
    <3>1. Len(l) \in Nat /\ Len(l) = n + 1
      BY <1>0, <1>3
    <3>2. j + 1 \in 1..n /\ j \in 1..n /\ n + 1 - a + j = j + 1
      BY <1>0, <2>1
    <3> DEFINE u == Tail(l)
    <3>3. /\ Len(u) = Len(l) - 1
          /\ \A k \in 1..Len(u) : u[k] = l[k + 1]
      BY <1>3, HeadTailProperties, Zenon
    <3> HIDE DEF u
    <3>4. Len(u) = n
      BY <3>1, <3>3, <1>5a
    <3>5. u[j] = l[j + 1]
      BY <3>2, <3>3, <3>4
    <3> QED
      BY <1>3, <2>1, <3>2, <3>5 DEF u
  <2>2. CASE ~(n + 1 > MaxHistory)
    <3>1. j \in 1..n /\ n + 1 - a + j = j
      BY <1>0, <2>2
    <3> QED
      BY <1>3, <2>2, <3>1
  <2> QED
    BY <2>1, <2>2
<1>6. e = [h EXCEPT !.remaining = pool \ {i}, !.history = g, !.at = a]
  BY <1>3a
<1>p. pool = IF h.remaining = {} THEN DOMAIN h.tracks \ {now} ELSE h.remaining
  OBVIOUS
<1> HIDE DEF g, a, pool
<1>7. /\ e \in PlayQueueType /\ e.tracks = h.tracks /\ e.history = g
      /\ e.at = a /\ e.remaining = pool \ {i} /\ e.mode = h.mode
  <2>1. pool \ {i} \in SUBSET Nat /\ a \in Nat
    BY <1>0, <1>2, <1>5
  <2> QED
    BY <1>0, <1>5, <1>6, <2>1 DEF PlayQueueType
<1>8. DOMAIN g = 1..a /\ a \in 1..a
  BY <1>0, <1>5, LenProperties
<1>11. a - 1 \in 1..a /\ g[a - 1] = now /\ g[a] # now
  <2>1. /\ a - 1 \in 1..a - 1 /\ n + 1 - a + (a - 1) = n
        /\ a - 1 \in 1..a
    BY <1>5a
  <2>2. g[a - 1] = s[n + 1 - a + (a - 1)]
    BY <1>5b, <2>1
  <2> QED
    BY <1>2, <1>2a, <1>5, <2>1, <2>2
<1>9. RoundFits(e)
  <2> DEFINE D == DOMAIN h.tracks
             m == Len(h.tracks)
             R == h.remaining
  <2>0. D = 1..m /\ m \in Nat /\ IsFiniteSet(D) /\ Cardinality(D) = m /\ now \in D
    <3>1. m \in Nat /\ D = 1..m /\ now \in D
      BY <1>0, <1>2a, LenProperties
    <3> HIDE DEF m, D
    <3>2. IsFiniteSet(1..m) /\ Cardinality(1..m) = m
      BY <3>1, FS_Interval
    <3> QED
      BY <3>1, <3>2
  <2> HIDE DEF m, D
  <2>1. CASE R = {}
    <3>1. pool = D \ {now} /\ i \in D \ {now}
      BY <1>p, <1>1, <2>1 DEF D
    <3>2. /\ IsFiniteSet(D \ {now}) /\ Cardinality(D \ {now}) = Cardinality(D) - 1
      BY <2>0, FS_RemoveElement, Zenon
    <3>3. Cardinality((D \ {now}) \ {i}) = Cardinality(D \ {now}) - 1
      BY <3>1, <3>2, FS_RemoveElement, Zenon
    <3>4. m - Cardinality(pool \ {i}) = 2
      BY <2>0, <3>1, <3>2, <3>3
    <3>5. /\ \A j \in a - 2 + 1..a : g[j] \in {now, i}
          /\ \A x \in {now, i} : \E j \in a - 2 + 1..a : g[j] = x
      <4>1. \A j \in a - 2 + 1..a : j = a - 1 \/ j = a
        BY <1>5a
      <4>2. a - 1 \in a - 2 + 1..a /\ a \in a - 2 + 1..a
        BY <1>5a
      <4> QED
        BY <4>1, <4>2, <1>5, <1>11
    <3>6. D \ (pool \ {i}) = {now, i}
      BY <2>0, <3>1
    <3> QED
      <4>1. Len(e.history) = a /\ DOMAIN e.tracks \ e.remaining = {now, i}
        BY <1>5, <1>7, <3>6 DEF D
      <4>2. Len(e.tracks) - Cardinality(e.remaining) = 2
        BY <1>7, <3>4 DEF m
      <4>3. {e.history[j] : j \in a - 2 + 1..a} = {now, i}
        BY <1>7, <3>5
      <4> QED
        BY <4>1, <4>2, <4>3 DEF RoundFits
  <2>2. CASE R # {}
    <3> DEFINE drawn == m - Cardinality(R)
    <3>1. pool = R /\ i \in R /\ R \subseteq D
      BY <1>p, <1>1, <2>2 DEF D, Followable
    <3>2. IsFiniteSet(R) /\ Cardinality(R) \in Nat /\ Cardinality(R) <= m
      BY <2>0, <3>1, FS_Subset, FS_CardinalityType
    <3>3. Cardinality(R \ {i}) = Cardinality(R) - 1
      BY <3>1, <3>2, FS_RemoveElement, Zenon
    <3>4. drawn \in Nat /\ m - Cardinality(pool \ {i}) = drawn + 1
      BY <2>0, <3>1, <3>2, <3>3
    <3>5. s # <<>> /\ (drawn <= n => {s[k] : k \in n - drawn + 1..n} = D \ R)
      BY <1>0 DEF Followable, RoundFits, D, m, s, n
    <3> HIDE DEF drawn
    <3>6. ASSUME drawn + 1 <= a
          PROVE  /\ \A j \in a - (drawn + 1) + 1..a : g[j] \in D \ (R \ {i})
                 /\ \A x \in D \ (R \ {i}) : \E j \in a - (drawn + 1) + 1..a : g[j] = x
      <4>1. drawn <= n
        BY <1>5a, <3>4, <3>6
      <4>2. {s[k] : k \in n - drawn + 1..n} = D \ R
        BY <3>5, <4>1
      <4>3. ASSUME NEW j \in a - drawn..a
            PROVE  g[j] \in D \ (R \ {i})
        <5>1. CASE j = a
          BY <5>1, <1>5, <3>1
        <5>2. CASE j # a
          <6>1. /\ j \in 1..a - 1 /\ n + 1 - a + j \in n - drawn + 1..n
            BY <1>5a, <3>4, <3>6, <5>2
          <6>2. g[j] = s[n + 1 - a + j]
            BY <1>5b, <6>1
          <6> QED
            BY <4>2, <6>1, <6>2
        <5> QED
          BY <5>1, <5>2
      <4>4. ASSUME NEW x \in D \ (R \ {i})
            PROVE  \E j \in a - drawn..a : g[j] = x
        <5>1. CASE x = i
          BY <5>1, <1>5, <1>5a, <3>4
        <5>2. CASE x # i
          <6>1. PICK k \in n - drawn + 1..n : s[k] = x
            BY <4>2, <5>2
          <6>2. /\ k + a - n - 1 \in 1..a - 1 /\ k + a - n - 1 \in a - drawn..a
                /\ n + 1 - a + (k + a - n - 1) = k
            BY <1>5a, <3>4, <3>6, <6>1
          <6>3. g[k + a - n - 1] = s[n + 1 - a + (k + a - n - 1)]
            BY <1>5b, <6>2
          <6> QED
            BY <6>1, <6>2, <6>3
        <5> QED
          BY <5>1, <5>2
      <4>5. a - (drawn + 1) + 1..a = a - drawn..a
        BY <1>5a, <3>4
      <4> QED
        BY <4>3, <4>4, <4>5
    <3> QED
      <4>1. Len(e.history) = a /\ DOMAIN e.tracks \ e.remaining = D \ (R \ {i})
        BY <1>5, <1>7, <3>1 DEF D
      <4>2. Len(e.tracks) - Cardinality(e.remaining) = drawn + 1
        BY <1>7, <3>4 DEF m
      <4>3. drawn + 1 <= a =>
              {e.history[j] : j \in a - (drawn + 1) + 1..a} = D \ (R \ {i})
        BY <1>7, <3>6
      <4> QED
        BY <4>1, <4>2, <4>3 DEF RoundFits
  <2> QED
    BY <2>1, <2>2
<1>10. Followable(e)
  BY <1>0, <1>2, <1>5, <1>7, <1>8, <1>9 DEF Followable
<1> QED
  BY <1>5, <1>7, <1>10, <1>11

\* next, whatever the mode and whatever is drawn.
LEMMA NextFits ==
  ASSUME NEW p, Fit(p), NEW e \in NextOf(p)
  PROVE  Fit(e) /\ e.tracks = p.tracks
<1> DEFINE s == p.tracks
           now == Resolved(p)
<1>0. /\ Whole(p) /\ p \in PlayQueueType /\ s \in Seq(Tracks) /\ IsInjective(s)
      /\ Len(s) \in Nat /\ (s # <<>> => 1 \in 1..Len(s))
  BY LenProperties, EmptySeq DEF Fit, Whole, PlayQueueType
<1>1. CASE s = <<>>
  BY <1>1 DEF NextOf
<1>2. CASE s # <<>> /\ p.current = NoTrack
  BY <1>0, <1>2, ChosenFits DEF NextOf
<1>3. CASE s # <<>> /\ p.current # NoTrack /\ p.mode = "shuffle"
  <2>1. now = p.index /\ Ensured(p, now) = p /\ Followable(p) /\ p.history[p.at] = now
    BY <1>0, <1>3, ResolvedIsIndex, EnsuredFollowable
  <2>2. CASE Len(s) = 1
    BY <1>3, <2>2 DEF NextOf
  <2>3. CASE Len(s) # 1
    <3>1. PICK h \in ShuffledForward(p, now) : e = FollowHistory(h)
      BY <1>3, <2>3 DEF NextOf
    <3>2. Followable(h) /\ h.tracks = s
      <4>1. Len(p.history) \in Nat /\ p.at \in 1..Len(p.history)
        BY <2>1, LenProperties DEF Followable, PlayQueueType
      <4>2. CASE p.at < Len(p.history)
        <5>1. h = [p EXCEPT !.at = p.at + 1]
          BY <2>1, <3>1, <4>2 DEF ShuffledForward
        <5>2. p.at + 1 \in 1..Len(p.history)
          BY <4>1, <4>2
        <5> QED
          BY <2>1, <5>1, <5>2, SteppedFollowable
      <4>3. CASE ~(p.at < Len(p.history))
        <5>1. h \in Drawn(p, now)
          BY <2>1, <3>1, <4>3 DEF ShuffledForward
        <5>2. p.at = Len(p.history)
          BY <4>1, <4>3
        <5> QED
          BY <2>1, <5>1, <5>2, DrawnFollowable
      <4> QED
        BY <4>2, <4>3
    <3> QED
      BY <3>1, <3>2, FollowFits
  <2> QED
    BY <2>2, <2>3
<1>4. CASE s # <<>> /\ p.current # NoTrack /\ p.mode # "shuffle"
  <2>1. now \in 1..Len(s)
    BY <1>0, <1>4, ResolvedIsIndex
  <2>2. \/ now < Len(s) /\ e = At(p, s, now + 1)
        \/ e = At(p, s, 1)
        \/ e = p
    BY <1>4 DEF NextOf
  <2>3. now < Len(s) => now + 1 \in 1..Len(s)
    BY <1>0, <2>1
  <2> HIDE DEF now
  <2> QED
    BY <1>0, <1>4, <2>2, <2>3, MovedFits
<1> QED
  BY <1>1, <1>2, <1>3, <1>4

\* previous.
LEMMA PreviousFits ==
  ASSUME NEW p, Fit(p)
  PROVE  Fit(PreviousOf(p)) /\ PreviousOf(p).tracks = p.tracks
<1> DEFINE s == p.tracks
           now == Resolved(p)
           e == PreviousOf(p)
<1>0. /\ Whole(p) /\ p \in PlayQueueType /\ s \in Seq(Tracks) /\ IsInjective(s)
      /\ Len(s) \in Nat /\ (s # <<>> => 1 \in 1..Len(s) /\ Len(s) \in 1..Len(s))
  BY LenProperties, EmptySeq DEF Fit, Whole, PlayQueueType
<1>1. CASE s = <<>>
  BY <1>1 DEF PreviousOf
<1>2. CASE s # <<>> /\ p.current = NoTrack
  BY <1>0, <1>2, ChosenFits DEF PreviousOf
<1>3. CASE s # <<>> /\ p.current # NoTrack /\ p.mode = "shuffle"
  <2>1. now = p.index /\ Ensured(p, now) = p /\ Followable(p)
    BY <1>0, <1>3, ResolvedIsIndex, EnsuredFollowable
  <2>2. e = IF Len(s) = 1 THEN p ELSE FollowHistory(ShuffledBack(p, now))
    BY <1>3 DEF PreviousOf
  <2>3. ShuffledBack(p, now) = IF p.at <= 1 THEN p ELSE [p EXCEPT !.at = p.at - 1]
    BY <2>1 DEF ShuffledBack
  <2>4. ~(p.at <= 1) => p.at - 1 \in 1..Len(p.history)
    BY <2>1, LenProperties DEF Followable, PlayQueueType
  <2>5. Followable(ShuffledBack(p, now)) /\ ShuffledBack(p, now).tracks = s
    BY <2>1, <2>3, <2>4, SteppedFollowable
  <2> QED
    BY <2>2, <2>5, FollowFits
<1>4. CASE s # <<>> /\ p.current # NoTrack /\ p.mode # "shuffle"
  <2>1. now \in 1..Len(s)
    BY <1>0, <1>4, ResolvedIsIndex
  <2>2. \/ now > 1 /\ e = At(p, s, now - 1)
        \/ e = At(p, s, Len(s))
        \/ e = p
    BY <1>4 DEF PreviousOf
  <2>3. now > 1 => now - 1 \in 1..Len(s)
    BY <1>0, <2>1
  <2> HIDE DEF now, e
  <2>4. Fit(e) /\ e.tracks = s
    BY <1>0, <1>4, <2>2, <2>3, MovedFits
  <2> QED
    BY <2>4 DEF e
<1> QED
  BY <1>1, <1>2, <1>3, <1>4

\* The track that a history has come to is the current one.
LEMMA FollowedIs ==
  ASSUME NEW h, Followable(h)
  PROVE  /\ FollowHistory(h).index = h.history[h.at]
         /\ FollowHistory(h).current # NoTrack
         /\ FollowHistory(h).mode = h.mode /\ FollowHistory(h).at = h.at
         /\ FollowHistory(h).history = h.history
<1>1. /\ h \in PlayQueueType /\ h.tracks \in Seq(Tracks)
      /\ h.history[h.at] \in 1..Len(h.tracks)
  BY LenProperties DEF Followable, PlayQueueType
<1>2. h.tracks[h.history[h.at]] \in Tracks
  BY <1>1, ElementOfSeq
<1> QED
  BY <1>1, <1>2, OrderAssumption DEF FollowHistory, At, PlayQueueType

\* Without shuffle, the track at a position is the current one.
LEMMA MovedIs ==
  ASSUME NEW p \in PlayQueueType, NEW i \in 1..Len(p.tracks)
  PROVE  /\ At(p, p.tracks, i).index = i /\ At(p, p.tracks, i).current # NoTrack
         /\ At(p, p.tracks, i).mode = p.mode /\ At(p, p.tracks, i).tracks = p.tracks
<1>1. p.tracks[i] \in Tracks
  BY ElementOfSeq DEF PlayQueueType
<1> QED
  BY <1>1, OrderAssumption DEF At, PlayQueueType

\* previous goes back to where next came from, with and without shuffle.
LEMMA PreviousAfterNext ==
  ASSUME NEW p, Fit(p), p.current # NoTrack, NEW e \in NextOf(p), e # p
  PROVE  e.index # p.index /\ PreviousOf(e).index = p.index
<1> DEFINE s == p.tracks
           now == Resolved(p)
<1>0. /\ Whole(p) /\ p \in PlayQueueType /\ s \in Seq(Tracks) /\ Len(s) \in Nat
      /\ now = p.index /\ now \in 1..Len(s)
  BY LenProperties, ResolvedIsIndex DEF Fit, Whole, PlayQueueType
<1>1. s # <<>> /\ Fit(e) /\ e.tracks = s
  BY <1>0, EmptySeq, NextFits
<1>2. CASE p.mode = "shuffle"
  <2>0. Ensured(p, now) = p /\ Followable(p) /\ p.history[p.at] = now
    BY <1>0, <1>2, EnsuredFollowable
  <2>1. Len(s) # 1 /\ \E h \in ShuffledForward(p, now) : e = FollowHistory(h)
    BY <1>1, <1>2 DEF NextOf
  <2>2. PICK h \in ShuffledForward(p, now) : e = FollowHistory(h)
    BY <2>1
  <2>3. /\ Len(p.history) \in Nat /\ p.at \in 1..Len(p.history)
        /\ \A i \in 1..Len(p.history) - 1 : p.history[i] # p.history[i + 1]
    BY <2>0, LenProperties DEF Followable, PlayQueueType
  <2>4. /\ Followable(h) /\ h.mode = "shuffle" /\ h.history[h.at] # now
        /\ h.at - 1 \in 1..Len(h.history) /\ h.history[h.at - 1] = now
    <3>1. CASE p.at < Len(p.history)
      <4>1. h = [p EXCEPT !.at = p.at + 1]
        BY <2>0, <2>2, <3>1 DEF ShuffledForward
      <4>2. p.at + 1 \in 1..Len(p.history) /\ p.at \in 1..Len(p.history) - 1
        BY <2>3, <3>1
      <4>3. h.history = p.history /\ h.at = p.at + 1 /\ h.mode = p.mode
        BY <4>1, <1>0 DEF PlayQueueType
      <4>4. Followable(h)
        BY <2>0, <4>1, <4>2, SteppedFollowable
      <4>5. (p.at + 1) - 1 = p.at /\ p.history[p.at] # p.history[p.at + 1]
        BY <2>3, <4>2
      <4> QED
        BY <1>2, <2>0, <2>3, <4>3, <4>4, <4>5
    <3>2. CASE ~(p.at < Len(p.history))
      <4>1. h \in Drawn(p, now) /\ p.at = Len(p.history)
        BY <2>0, <2>2, <2>3, <3>2 DEF ShuffledForward
      <4> QED
        BY <1>2, <2>0, <4>1, DrawnFollowable
    <3> QED
      BY <3>1, <3>2
  <2>5. /\ e.index # now /\ e.current # NoTrack /\ e.mode = "shuffle"
        /\ e.history = h.history /\ e.at = h.at
    BY <2>2, <2>4, FollowedIs
  <2>6. /\ Resolved(e) = e.index /\ Ensured(e, e.index) = e /\ Followable(e)
    BY <1>1, <2>5, ResolvedIsIndex, EnsuredFollowable DEF Fit
  <2>7. PreviousOf(e) = FollowHistory(ShuffledBack(e, e.index))
    BY <1>1, <2>1, <2>5, <2>6 DEF PreviousOf
  <2>8. ShuffledBack(e, e.index) = [e EXCEPT !.at = e.at - 1]
    <3>1. e.at \in Nat /\ e.at - 1 \in 1..Len(e.history) /\ Len(e.history) \in Nat
      BY <2>4, <2>5, <2>6, LenProperties DEF Followable, PlayQueueType
    <3>2. ~(e.at <= 1)
      BY <3>1
    <3> QED
      BY <2>6, <3>2 DEF ShuffledBack
  <2> DEFINE b == [e EXCEPT !.at = e.at - 1]
  <2>9. Followable(b)
    BY <2>4, <2>5, <2>6, SteppedFollowable
  <2>10. b.at = e.at - 1 /\ b.history = e.history
    BY <2>6 DEF Followable, PlayQueueType
  <2> HIDE DEF b
  <2>11. FollowHistory(b).index = now
    BY <2>4, <2>5, <2>9, <2>10, FollowedIs
  <2> QED
    BY <1>0, <2>5, <2>7, <2>8, <2>11 DEF b
<1>3. CASE p.mode # "shuffle"
  <2>1. \/ now < Len(s) /\ e = At(p, s, now + 1)
        \/ ~(now < Len(s)) /\ p.mode = "repeat_all" /\ Len(s) > 1 /\ e = At(p, s, 1)
    BY <1>1, <1>3 DEF NextOf
  <2>2. PICK i \in 1..Len(s) :
          /\ e = At(p, s, i)
          /\ \/ i = now + 1
             \/ i = 1 /\ now = Len(s) /\ p.mode = "repeat_all" /\ Len(s) > 1
    <3>1. now < Len(s) => now + 1 \in 1..Len(s)
      BY <1>0
    <3>2. Len(s) > 1 => 1 \in 1..Len(s)
      BY <1>0
    <3>3. ~(now < Len(s)) => now = Len(s)
      BY <1>0
    <3> QED
      BY <2>1, <3>1, <3>2, <3>3
  <2>3. e.index = i /\ e.current # NoTrack /\ e.mode = p.mode /\ e \in PlayQueueType
    BY <1>0, <1>1, <2>2, MovedIs DEF Fit, Whole
  <2>4. Resolved(e) = i
    BY <1>1, <2>3, ResolvedIsIndex DEF Fit
  <2>5. PreviousOf(e) = IF i > 1 THEN At(e, s, i - 1)
                        ELSE IF p.mode = "repeat_all" /\ Len(s) > 1 THEN At(e, s, Len(s))
                        ELSE e
    BY <1>1, <1>3, <2>3, <2>4 DEF PreviousOf
  <2>6. PreviousOf(e) = At(e, s, now)
    <3>1. CASE i = now + 1
      <4>1. i > 1 /\ i - 1 = now
        BY <1>0, <3>1
      <4> QED
        BY <2>5, <4>1
    <3>2. CASE i = 1 /\ now = Len(s) /\ p.mode = "repeat_all" /\ Len(s) > 1
      BY <2>5, <3>2
    <3> QED
      BY <2>2, <3>1, <3>2
  <2>7. i # now
    BY <1>0, <2>2
  <2>8. At(e, s, now).index = now
    BY <1>0, <1>1, <2>3, MovedIs
  <2> QED
    BY <1>0, <2>3, <2>6, <2>7, <2>8
<1> QED
  BY <1>2, <1>3

-----------------------------------------------------------------------------
(***************************************************************************)
(* The specification.                                                      *)
(***************************************************************************)

\* A clear whose stop failed leaves the shuffle history as it was beside an
\* empty queue, which no edit and no step to another track looks at.
Sound(p) == Whole(p) /\ (p.tracks # <<>> => Fit(p))

\* The last write that waits is the queue of the user, unless it was forgotten.
SavesFit ==
  /\ saves # <<>> => saves[Len(saves)] = q.tracks \/ unsaved
  /\ saves = <<>> => restoring \/ saved = q.tracks \/ unsaved
  /\ restoring => saves = <<>> /\ q.tracks = <<>>

\* The invariant that every step keeps.  What waits to be saved must have no
\* track twice either, since it comes back with Restore.
IInv ==
  /\ Sound(q)
  /\ saved \in Seq(Tracks) /\ IsInjective(saved)
  /\ saves \in Seq(Seq(Tracks)) /\ \A i \in 1..Len(saves) : IsInjective(saves[i])
  /\ restoring \in BOOLEAN /\ unsaved \in BOOLEAN
  /\ clearing \in Clearings \cup {NoClearing}
  /\ SavesFit

\* The app starts with no queue and whatever the last session saved.
LEMMA InitInvariant == Init => IInv
<1> SUFFICES ASSUME Init PROVE IInv
  OBVIOUS
<1>1. "repeat_all" \in Modes /\ <<>> \in Seq(Tracks) /\ IsInjective(<<>>)
  BY DEF Modes, IsInjective
<1>2. Fit(q) /\ q.tracks = <<>>
  BY <1>1, EmptyFits DEF Init
<1>3. saved \in Seq(Tracks) /\ IsInjective(saved)
  BY QueueAssumption DEF Init
<1>4. saves = <<>> /\ saves \in Seq(Seq(Tracks)) /\ Len(saves) = 0
  BY DEF Init
<1>5. restoring = TRUE /\ unsaved = FALSE /\ clearing = NoClearing
  BY DEF Init
<1>6. Sound(q)
  BY <1>2 DEF Sound, Fit
<1>7. SavesFit
  BY <1>2, <1>4, <1>5 DEF SavesFit
<1>8. \A i \in 1..Len(saves) : IsInjective(saves[i])
  BY <1>4
<1> QED
  BY <1>3, <1>4, <1>5, <1>6, <1>7, <1>8 DEF IInv

\* Every edit that leaves a fit queue behind it.
LEMMA WriteStep ==
  ASSUME IInv, NEW new, Fit(new), Write(new),
         clearing' \in Clearings \cup {NoClearing}
  PROVE  IInv'
<1>1. new.tracks \in Seq(Tracks) /\ IsInjective(new.tracks)
  BY DEF Fit, Whole, PlayQueueType
<1>2. /\ q' = new /\ saved' = saved /\ restoring' = FALSE /\ unsaved' = FALSE
      /\ saves' = Append(saves, new.tracks)
  BY DEF Write
<1>3. /\ saves' \in Seq(Seq(Tracks)) /\ saves' # <<>> /\ Len(saves') = Len(saves) + 1
      /\ \A i \in 1..Len(saves) : saves'[i] = saves[i]
      /\ saves'[Len(saves')] = new.tracks
  BY <1>1, <1>2, AppendProperties DEF IInv
<1>4. Len(saves) \in Nat
  BY LenProperties DEF IInv
<1>5. \A i \in 1..Len(saves') : IsInjective(saves'[i])
  <2>1. ASSUME NEW i \in 1..Len(saves')
        PROVE  IsInjective(saves'[i])
    <3>1. CASE i \in 1..Len(saves)
      BY <1>3, <3>1 DEF IInv
    <3>2. CASE i = Len(saves')
      BY <1>1, <1>3, <3>2
    <3> QED
      BY <1>3, <1>4, <3>1, <3>2
  <2> QED
    BY <2>1
<1>6. Sound(q')
  BY <1>2 DEF Sound, Fit
<1> QED
  BY <1>2, <1>3, <1>5, <1>6 DEF IInv, SavesFit

\* An edit that clears nothing.
LEMMA ChangeStep ==
  ASSUME IInv, NEW new, Fit(new), Change(new)
  PROVE  IInv'
BY WriteStep DEF Change, IInv

\* clearQueue, whatever will become of the stop.
LEMMA ClearStep ==
  ASSUME IInv, ClearQueue
  PROVE  IInv'
<1>1. q.mode \in Modes /\ saves \in Seq(Seq(Tracks))
  BY DEF IInv, Sound, Whole, PlayQueueType
<1>2. <<>> \in Seq(Tracks) /\ IsInjective(<<>>) /\ Len(saves) + 1 \in Nat
  BY <1>1, LenProperties DEF IsInjective
<1>3. Fit(EmptyQueue(q.mode))
  BY <1>1, <1>2, EmptyFits
<1>4. clearing' \in Clearings \cup {NoClearing}
  BY <1>1, <1>2 DEF ClearQueue, IInv, Clearings
<1> QED
  BY <1>3, <1>4, WriteStep DEF ClearQueue

\* What does not touch the tracks owes no write.
LEMMA AdjustStep ==
  ASSUME IInv, NEW new, Sound(new), new.tracks = q.tracks, Adjust(new)
  PROVE  IInv'
BY DEF IInv, SavesFit, Adjust

\* Each edit of the user.
LEMMA EditStep ==
  ASSUME IInv, Edit
  PROVE  IInv'
<1>0. /\ Sound(q) /\ Whole(q) /\ q \in PlayQueueType /\ q.tracks \in Seq(Tracks)
      /\ IsInjective(q.tracks) /\ DOMAIN q.tracks = 1..Len(q.tracks)
      /\ q.mode \in Modes
  BY LenProperties DEF IInv, Sound, Whole, PlayQueueType
<1>1. ASSUME NEW t \in Tracks, PlayNow(t) PROVE IInv'
  BY <1>0, <1>1, SelectFits, ChangeStep DEF PlayNow
<1>2. ASSUME NEW t \in Tracks, QueueNext(t) PROVE IInv'
  BY <1>0, <1>2, PlayNextFits, ChangeStep DEF QueueNext
<1>3. ASSUME NEW t \in Tracks, QueueLast(t) PROVE IInv'
  BY <1>0, <1>3, AddToQueueFits, ChangeStep DEF QueueLast
<1>4. ASSUME NEW list \in Lists, NEW i \in 1..Len(list) + 1, SetQueue(list, i)
      PROVE  IInv'
  <2>0. list \in Seq(Tracks) /\ IsInjective(list) /\ DOMAIN list = 1..Len(list)
    BY QueueAssumption, LenProperties
  <2>1. CASE list = <<>>
    BY <1>4, <2>1, ClearStep DEF SetQueue
  <2>2. CASE list # <<>>
    <3> DEFINE p == [q EXCEPT !.tracks = list]
    <3>1. p \in PlayQueueType
      BY <1>0, <2>0 DEF PlayQueueType
    <3>2. i \in 1..Len(list) /\ Change(Chosen(p, list, i))
      BY <1>4, <2>0, <2>2 DEF SetQueue
    <3> HIDE DEF p
    <3> QED
      BY <2>0, <3>1, <3>2, ChosenFits, ChangeStep
  <2> QED
    BY <2>1, <2>2
<1>5. ASSUME NEW i \in DOMAIN q.tracks, SelectQueueIndex(i) PROVE IInv'
  BY <1>0, <1>5, ChosenFits, ChangeStep DEF SelectQueueIndex
<1>6. ASSUME NEW i \in DOMAIN q.tracks, RemoveItem(i) PROVE IInv'
  BY <1>0, <1>6, RemoveFromQueueFits, ChangeStep, ClearStep DEF RemoveItem
<1>7. ASSUME NEW old, NEW new, MoveItem(old, new) PROVE IInv'
  <2>1. /\ old \in 1..Len(q.tracks) /\ new \in 1..Len(q.tracks) + 1
        /\ IF MoveQueueItem(q, old, new) = q THEN Adjust(q)
           ELSE Change(MoveQueueItem(q, old, new))
    BY <1>0, <1>7 DEF MoveItem
  <2>2. Fit(q)
    <3>1. q.tracks # <<>>
      BY <1>0, <2>1
    <3> QED
      BY <1>0, <3>1 DEF Sound
  <2> QED
    BY <1>0, <2>1, <2>2, MoveQueueItemFits, ChangeStep, AdjustStep
<1>8. ASSUME ClearQueue PROVE IInv'
  BY <1>8, ClearStep
<1>9. ASSUME NEW mode \in Modes, SetPlaybackMode(mode) PROVE IInv'
  <2>1. Adjust(SetMode(q, mode))
    BY <1>9 DEF SetPlaybackMode
  <2>2. CASE mode = q.mode
    BY <1>0, <2>1, <2>2, AdjustStep DEF SetMode
  <2>3. CASE mode # q.mode
    <3> DEFINE e == [q EXCEPT !.mode = mode]
    <3>1. Whole(e) /\ e.tracks = q.tracks /\ e.index = q.index
      BY <1>0 DEF Whole, PlayQueueType, CurrentFits
    <3>2. SetMode(q, mode) = Reset(e, e.index)
      BY <2>3, <3>1 DEF SetMode
    <3> HIDE DEF e
    <3>3. Fit(SetMode(q, mode)) /\ SetMode(q, mode).tracks = q.tracks
      BY <3>1, <3>2, ResetFits
    <3>4. Sound(SetMode(q, mode))
      BY <3>3 DEF Sound, Fit
    <3> QED
      BY <2>1, <3>3, <3>4, AdjustStep
  <2> QED
    BY <2>2, <2>3
<1> QED
  BY <1>1, <1>2, <1>3, <1>4, <1>5, <1>6, <1>7, <1>8, <1>9 DEF Edit

\* next and previous, which do nothing with an empty queue.
LEMMA SkipStep ==
  ASSUME IInv, NextTrack \/ PreviousTrack
  PROVE  IInv'
<1>0. Sound(q)
  BY DEF IInv
<1>1. PICK new :
        /\ IF new.index = q.index THEN Adjust(new) ELSE Change(new)
        /\ new \in NextOf(q) \/ new = PreviousOf(q)
  BY DEF NextTrack, PreviousTrack
<1>2. CASE q.tracks = <<>>
  <2>1. new = q
    BY <1>1, <1>2 DEF NextOf, PreviousOf
  <2> QED
    BY <1>0, <1>1, <2>1, AdjustStep
<1>3. CASE q.tracks # <<>>
  <2>1. Fit(q)
    BY <1>0, <1>3 DEF Sound
  <2>2. Fit(new) /\ new.tracks = q.tracks
    BY <1>1, <2>1, NextFits, PreviousFits
  <2>3. Sound(new)
    BY <2>2 DEF Sound, Fit
  <2> QED
    BY <1>1, <2>2, <2>3, AdjustStep, ChangeStep
<1> QED
  BY <1>2, <1>3

\* The end of a write, whether it reached the preferences or not.
LEMMA SaveStep ==
  ASSUME IInv, Save
  PROVE  IInv'
<1>1. /\ q' = q /\ restoring' = restoring /\ saves # <<>> /\ saves' = Tail(saves)
  BY DEF Save
<1>2. \/ saved' = Head(saves) /\ unsaved' = unsaved
      \/ saved' = saved /\ unsaved' = (unsaved \/ Len(saves) = 1)
  BY DEF Save
<1>3. /\ saves \in Seq(Seq(Tracks)) /\ Len(saves) \in Nat /\ Len(saves) >= 1
      /\ Head(saves) = saves[1] /\ saves[1] \in Seq(Tracks)
  BY <1>1, LenProperties, EmptySeq, ElementOfSeq DEF IInv
<1>4. /\ saves' \in Seq(Seq(Tracks)) /\ Len(saves') = Len(saves) - 1
      /\ \A i \in 1..Len(saves') : saves'[i] = saves[i + 1]
  BY <1>1, <1>3, HeadTailProperties
<1>5. \A i \in 1..Len(saves) : IsInjective(saves[i])
  BY DEF IInv
<1>6. \A i \in 1..Len(saves') : IsInjective(saves'[i])
  <2>1. \A i \in 1..Len(saves') : i + 1 \in 1..Len(saves)
    BY <1>3, <1>4
  <2> QED
    BY <1>4, <1>5, <2>1
<1>7. saved' \in Seq(Tracks) /\ IsInjective(saved')
  BY <1>2, <1>3, <1>5 DEF IInv
<1>8. unsaved' \in BOOLEAN /\ (unsaved => unsaved')
  BY <1>2 DEF IInv
<1>9. clearing' \in Clearings \cup {NoClearing}
  <2>1. clearing \in [mode : Modes \cup {"none"}, left : Nat]
    BY DEF IInv, Clearings, NoClearing
  <2>2. CASE clearing.left > 0
    <3>1. clearing \in Clearings
      BY <2>2 DEF IInv, NoClearing
    <3>2. clearing' = [clearing EXCEPT !.left = clearing.left - 1]
      BY <2>2 DEF Save
    <3>3. clearing.left - 1 \in Nat
      BY <2>1, <2>2
    <3> QED
      BY <3>1, <3>2, <3>3 DEF Clearings
  <2>3. CASE ~(clearing.left > 0)
    BY <2>3 DEF Save, IInv
  <2> QED
    BY <2>2, <2>3
<1>10. (saves[Len(saves)] = q.tracks \/ unsaved) /\ ~restoring
  BY <1>1 DEF IInv, SavesFit
<1>11. saves' # <<>> => saves'[Len(saves')] = q.tracks \/ unsaved
  BY <1>3, <1>4, <1>10, EmptySeq
<1>12. saves' = <<>> => saved' = q.tracks \/ unsaved'
  <2>1. ASSUME saves' = <<>> PROVE saved' = q.tracks \/ unsaved'
    <3>1. Len(saves') = 0
      BY <2>1
    <3>2. Len(saves) = 1
      BY <1>3, <1>4, <3>1
    <3> QED
      BY <1>2, <1>3, <1>10, <3>2
  <2> QED
    BY <2>1
<1>13. SavesFit'
  BY <1>1, <1>8, <1>10, <1>11, <1>12 DEF SavesFit
<1> QED
  BY <1>1, <1>4, <1>6, <1>7, <1>8, <1>9, <1>13 DEF IInv

\* The catch of a clear whose stop failed.
LEMMA ClearFailsStep ==
  ASSUME IInv, ClearFails
  PROVE  IInv'
<1>1. /\ clearing \in Clearings /\ clearing' = NoClearing
      /\ unsaved' = (unsaved \/ q.tracks # <<>>)
      /\ saved' = saved /\ saves' = saves /\ restoring' = restoring
  BY DEF ClearFails, IInv
<1>2. clearing.mode \in Modes
  BY <1>1 DEF Clearings
<1>3. q' = [q EXCEPT !.tracks = <<>>, !.index = 0, !.current = NoTrack,
                     !.mode = clearing.mode]
  BY DEF ClearFails
<1>4. q \in PlayQueueType
  BY DEF IInv, Sound, Whole
<1>5. q' \in PlayQueueType /\ q'.tracks = <<>> /\ q'.index = 0 /\ q'.current = NoTrack
  <2>1. <<>> \in Seq(Tracks) /\ 0 \in Nat
    OBVIOUS
  <2> QED
    BY <1>2, <1>3, <1>4, <2>1 DEF PlayQueueType
<1>6. Sound(q')
  BY <1>5 DEF Sound, Whole, CurrentFits, IsInjective
<1>7. SavesFit'
  BY <1>1, <1>5 DEF IInv, SavesFit
<1> QED
  BY <1>1, <1>6, <1>7 DEF IInv

\* The end of a write, the failed clear, the restored queue, the end of the
\* app, and next and previous beside the edits.
LEMMA NextInvariant == IInv /\ [Next]_vars => IInv'
<1> SUFFICES ASSUME IInv, [Next]_vars PROVE IInv'
  OBVIOUS
<1>0. q.mode \in Modes
  BY DEF IInv, Sound, Whole, PlayQueueType
<1>1. CASE Edit
  BY <1>1, EditStep
<1>2. CASE NextTrack \/ PreviousTrack
  BY <1>2, SkipStep
<1>3. CASE Save
  BY <1>3, SaveStep
<1>4. CASE ClearFails
  BY <1>4, ClearFailsStep
<1>5. CASE Restore
  <2>1. /\ restoring' = FALSE /\ saved' = saved /\ saves' = saves
        /\ clearing' = clearing /\ saves = <<>> /\ q.tracks = <<>>
    BY <1>5 DEF Restore, IInv, SavesFit
  <2>2. CASE q' = [EmptyQueue(q.mode) EXCEPT !.tracks = saved] /\ unsaved' = unsaved
    <3>1. Fit(q') /\ q'.tracks = saved
      BY <1>0, <2>2, EmptyFits DEF IInv
    <3> QED
      BY <2>1, <2>2, <3>1 DEF IInv, SavesFit, Sound, Fit
  <2>3. CASE q' = q /\ unsaved' = (saved # <<>>)
    BY <2>1, <2>3 DEF IInv, SavesFit
  <2> QED
    BY <1>5, <2>2, <2>3 DEF Restore
<1>6. CASE Crash
  <2>1. "repeat_all" \in Modes /\ <<>> \in Seq(Tracks) /\ IsInjective(<<>>)
    BY DEF Modes, IsInjective
  <2>2. Fit(q') /\ q'.tracks = <<>>
    BY <1>6, <2>1, EmptyFits DEF Crash
  <2>3. saves' = <<>> /\ saves' \in Seq(Seq(Tracks)) /\ Len(saves') = 0
    BY <1>6 DEF Crash
  <2>4. Sound(q')
    BY <2>2 DEF Sound, Fit
  <2>5. /\ saved' = saved /\ restoring' = TRUE /\ unsaved' = FALSE
        /\ clearing' = NoClearing
    BY <1>6 DEF Crash
  <2>6. SavesFit'
    BY <2>2, <2>3, <2>5 DEF SavesFit
  <2>7. \A i \in 1..Len(saves') : IsInjective(saves'[i])
    BY <2>3
  <2> QED
    BY <2>3, <2>4, <2>5, <2>6, <2>7 DEF IInv
<1>7. CASE UNCHANGED vars
  BY <1>7 DEF vars, IInv, SavesFit
<1> QED
  BY <1>1, <1>2, <1>3, <1>4, <1>5, <1>6, <1>7 DEF Next

\* The invariant holds throughout.
LEMMA Invariance == Spec => []IInv
BY InitInvariant, NextInvariant, PTL DEF Spec

\* Every variable of the queue keeps its type.
THEOREM TypeCorrect == Spec => []TypeOK
<1>1. IInv => TypeOK
  BY DEF IInv, Sound, Whole, TypeOK
<1> QED
  BY <1>1, Invariance, PTL

\* The current track is the one at the current position, after every edit.
THEOREM CurrentAlwaysInQueue == Spec => []CurrentInQueue
<1>1. IInv => CurrentInQueue
  BY DEF IInv, Sound, Whole, CurrentInQueue
<1> QED
  BY <1>1, Invariance, PTL

\* No sequence of edits and restarts puts a track twice in the queue.
THEOREM QueueNeverRepeats == Spec => []QueueHasNoRepeats
<1>1. IInv => QueueHasNoRepeats
  BY DEF IInv, Sound, Whole, QueueHasNoRepeats
<1> QED
  BY <1>1, Invariance, PTL

\* The shuffle history fits every queue that is not empty, whatever was
\* edited since and whichever clear failed.
THEOREM HistoryAlwaysFollows == Spec => []HistoryFollows
<1>1. IInv => HistoryFollows
  BY DEF IInv, Sound, Fit, HistoryFollows
<1> QED
  BY <1>1, Invariance, PTL

\* When the writes have ended, what is saved is the queue, unless the newest
\* write or the load at the start failed, or a failed clear emptied the queue
\* (_persistQueue, restoreQueue, clearQueue).
THEOREM QueueIsSaved == Spec => []SavedIsQueue
<1>1. IInv => SavedIsQueue
  BY DEF IInv, SavesFit, SavedIsQueue
<1> QED
  BY <1>1, Invariance, PTL

(***************************************************************************)
(* Shuffle plays every track once before it plays one again, however many  *)
(* tracks there are and whatever the history has forgotten: the end of the *)
(* history is what the round has drawn (_nextShuffleIndex).                *)
(***************************************************************************)
THEOREM RoundPlaysEveryTrackOnce == Spec => []EveryTrackOncePerRound
<1>1. IInv => EveryTrackOncePerRound
  BY DEF IInv, Sound, Fit, RoundFits, EveryTrackOncePerRound
<1> QED
  BY <1>1, Invariance, PTL

(***************************************************************************)
(* When next moves it moves to another position, and previous moves back,  *)
(* in every mode and whatever shuffle draws (next, previous).              *)
(***************************************************************************)
THEOREM PreviousAlwaysUndoesNext == Spec => []PreviousUndoesNext
<1>1. ASSUME IInv, q.current # NoTrack PROVE Fit(q)
  <2>1. q.tracks # <<>>
    BY <1>1 DEF IInv, Sound, Whole, CurrentFits
  <2> QED
    BY <1>1, <2>1 DEF IInv, Sound
<1>2. IInv => PreviousUndoesNext
  BY <1>1, PreviousAfterNext DEF PreviousUndoesNext
<1> QED
  BY <1>2, Invariance, PTL
=============================================================================
