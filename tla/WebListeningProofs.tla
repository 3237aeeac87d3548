------------------------- MODULE WebListeningProofs -------------------------
(***************************************************************************)
(* What holds of WebListening for any accounts, tracks and bounds: every   *)
(* event that is recorded is counted once and for its account, and no more *)
(* is reported of a track than sounded while it was the current one, but   *)
(* for a gap whenever it becomes that.                                     *)
(*                                                                         *)
(* The first needs the whole outbox, the calls under way and the receipts  *)
(* of the server in one invariant, OutboxInv.  The second needs sums over  *)
(* the logs, and what the tracker would report at any moment, ListenedInv. *)
(***************************************************************************)
EXTENDS WebListening, SequenceLemmas, FiniteSetTheorems

-----------------------------------------------------------------------------
(***************************************************************************)
(* The outbox of one account: queue is what is stored, whole what was ever *)
(* recorded, known what the server has counted.                            *)
(***************************************************************************)

\* The events say whose they are and which; the first n of them have been
\* counted and have left the queue; nothing else was counted, nor twice.
AccountOK(a, queue, whole, known) ==
  /\ \A i \in 1..Len(whole) : whole[i].id = <<a, i>>
  /\ \E n \in 0..Len(whole) :
       /\ Len(queue) = Len(whole) - n
       /\ \A i \in 1..Len(queue) : queue[i] = whole[n + i]
       /\ \A i \in 1..n : Contains(known, whole[i])
  /\ \A i, j \in 1..Len(known) : known[i].id = known[j].id => i = j
  /\ \A i \in 1..Len(known) : Contains(whole, known[i])

\* A batch holds events of its account; those of a served one are counted,
\* those of one that is waited for are still the first in the queue.
CallOK(c, queue, whole, known) ==
  /\ \A i \in 1..Len(c.batch) : Contains(whole, c.batch[i])
  /\ c.state = "served" => \A i \in 1..Len(c.batch) : Contains(known, c.batch[i])
  /\ c.waited => Extends(queue, c.batch)

Calls == [account : Accounts, batch : Seq(Events),
          state : {"sent", "served", "refused"}, waited : BOOLEAN]

\* A sequence with one more event.
LEMMA OneMore ==
  ASSUME NEW T, NEW s \in Seq(T), NEW e \in T
  PROVE  /\ s \o <<e>> \in Seq(T) /\ Len(s \o <<e>>) = Len(s) + 1
         /\ \A i \in 1..Len(s) : (s \o <<e>>)[i] = s[i]
         /\ (s \o <<e>>)[Len(s) + 1] = e
         /\ Extends(s \o <<e>>, s)
<1> DEFINE t == s \o <<e>>
<1>1. Len(s) \in Nat
  BY LenProperties
<1>2. <<e>> \in Seq(T) /\ Len(<<e>>) = 1 /\ <<e>>[1] = e
  OBVIOUS
<1>3. /\ t \in Seq(T) /\ Len(t) = Len(s) + Len(<<e>>)
      /\ \A i \in 1..Len(s) + Len(<<e>>) :
           t[i] = IF i <= Len(s) THEN s[i] ELSE <<e>>[i - Len(s)]
  BY <1>2, ConcatProperties
<1> HIDE DEF t
<1>4. /\ Len(t) = Len(s) + 1 /\ \A i \in 1..Len(s) : t[i] = s[i]
  BY <1>1, <1>2, <1>3
<1>5. t[Len(s) + 1] = e
  <2>1. PICK m : m = Len(s) + 1
    OBVIOUS
  <2>2. m \in 1..Len(s) + Len(<<e>>) /\ ~(m <= Len(s)) /\ m - Len(s) = 1
    BY <1>1, <1>2, <2>1
  <2>3. t[m] = <<e>>[m - Len(s)]
    BY <1>3, <2>2
  <2> QED BY <1>2, <2>1, <2>2, <2>3
<1>6. Extends(t, s)
  BY <1>1, <1>4 DEF Extends
<1> QED BY <1>3, <1>4, <1>5, <1>6 DEF t

\* An event is recorded: it joins both the queue and what was recorded.
LEMMA RecordedOK ==
  ASSUME NEW a \in Accounts, NEW q \in Seq(Events), NEW w \in Seq(Events),
         NEW k \in Seq(Events), NEW e \in Events, e.id = <<a, Len(w) + 1>>,
         AccountOK(a, q, w, k)
  PROVE  AccountOK(a, q \o <<e>>, w \o <<e>>, k)
<1>1. Len(q) \in Nat /\ Len(w) \in Nat
  BY LenProperties
<1>2. PICK p : p = q \o <<e>>
  OBVIOUS
<1>3. PICK v : v = w \o <<e>>
  OBVIOUS
<1>4. /\ p \in Seq(Events) /\ Len(p) = Len(q) + 1
      /\ \A i \in 1..Len(q) : p[i] = q[i]
      /\ p[Len(q) + 1] = e
  BY <1>2, OneMore
<1>5. /\ v \in Seq(Events) /\ Len(v) = Len(w) + 1
      /\ \A i \in 1..Len(w) : v[i] = w[i]
      /\ v[Len(w) + 1] = e /\ Extends(v, w)
  BY <1>3, OneMore
<1>6. PICK n \in 0..Len(w) :
        /\ Len(q) = Len(w) - n
        /\ \A i \in 1..Len(q) : q[i] = w[n + i]
        /\ \A i \in 1..n : Contains(k, w[i])
  BY DEF AccountOK
<1>7. \A i \in 1..Len(v) : v[i].id = <<a, i>>
  <2> SUFFICES ASSUME NEW i \in 1..Len(v) PROVE v[i].id = <<a, i>>
    OBVIOUS
  <2>1. CASE i = Len(w) + 1
    BY <1>5, <2>1
  <2>2. CASE i # Len(w) + 1
    <3>1. i \in 1..Len(w)
      BY <1>1, <1>5, <2>2
    <3> QED BY <1>5, <3>1 DEF AccountOK
  <2> QED BY <2>1, <2>2
<1>8. n \in 0..Len(v) /\ Len(p) = Len(v) - n /\ \A i \in 1..n : Contains(k, v[i])
  BY <1>1, <1>4, <1>5, <1>6
<1>9. ASSUME NEW i \in 1..Len(p) PROVE p[i] = v[n + i]
  <2>1. CASE i = Len(q) + 1
    <3>1. n + i = Len(w) + 1
      BY <1>1, <1>6, <2>1
    <3> QED BY <1>4, <1>5, <2>1, <3>1
  <2>2. CASE i # Len(q) + 1
    <3>1. i \in 1..Len(q) /\ n + i \in 1..Len(w)
      BY <1>1, <1>4, <1>6, <2>2
    <3>2. p[i] = q[i] /\ q[i] = w[n + i] /\ v[n + i] = w[n + i]
      BY <1>4, <1>5, <1>6, <3>1
    <3> QED BY <3>2
  <2> QED BY <2>1, <2>2
<1>10. \A i \in 1..Len(k) : Contains(v, k[i])
  BY <1>5, ContainsKept DEF AccountOK
<1>11. AccountOK(a, p, v, k)
  BY <1>7, <1>8, <1>9, <1>10 DEF AccountOK
<1> QED BY <1>2, <1>3, <1>11

\* What a call needs stays true as the three sequences grow.
LEMMA CallStaysOK ==
  ASSUME NEW c \in Calls, NEW q \in Seq(Events), NEW w \in Seq(Events),
         NEW k \in Seq(Events), CallOK(c, q, w, k),
         NEW p \in Seq(Events), NEW v \in Seq(Events), NEW m \in Seq(Events),
         Extends(p, q), Extends(v, w), Extends(m, k)
  PROVE  CallOK(c, p, v, m)
<1>1. c.batch \in Seq(Events)
  BY DEF Calls
<1>2. \A i \in 1..Len(c.batch) : Contains(v, c.batch[i])
  BY ContainsKept DEF CallOK
<1>3. c.state = "served" => \A i \in 1..Len(c.batch) : Contains(m, c.batch[i])
  BY ContainsKept DEF CallOK
<1>4. c.waited => Extends(p, c.batch)
  BY <1>1, ExtendsTransitive DEF CallOK
<1> QED BY <1>2, <1>3, <1>4 DEF CallOK

\* A sequence extends itself.
LEMMA ExtendsReflexive ==
  ASSUME NEW T, NEW s \in Seq(T)
  PROVE  Extends(s, s)
BY LenProperties DEF Extends

\* The batch that is sent is what is first in the queue.
LEMMA BatchFacts ==
  ASSUME ListeningAssumption, NEW q \in Seq(Events)
  PROVE  Batch(q) \in Seq(Events) /\ Extends(q, Batch(q))
<1> DEFINE n == IF Len(q) < MaxBatch THEN Len(q) ELSE MaxBatch
<1>1. Len(q) \in Nat /\ MaxBatch \in Nat
  BY LenProperties DEF ListeningAssumption
<1>2. n \in Int /\ n \in Nat /\ n <= Len(q) /\ Batch(q) = SubSeq(q, 1, n)
  BY <1>1 DEF Batch
<1> HIDE DEF n
<1>3. \A i \in 1..n : q[i] \in Events
  BY <1>1, <1>2, ElementOfSeq
<1>4. /\ SubSeq(q, 1, n) \in Seq(Events)
      /\ Len(SubSeq(q, 1, n)) = IF 1 <= n THEN n - 1 + 1 ELSE 0
      /\ \A i \in 1..n - 1 + 1 : SubSeq(q, 1, n)[i] = q[1 + i - 1]
  BY <1>2, <1>3, SubSeqProperties, 1 \in Int
<1>5. PICK b : b = SubSeq(q, 1, n)
  OBVIOUS
<1>6. b \in Seq(Events) /\ Len(b) = n /\ \A i \in 1..n : b[i] = q[i]
  BY <1>2, <1>4, <1>5
<1> QED BY <1>2, <1>5, <1>6 DEF Extends

\* A request that is made now.
LEMMA NewCallOK ==
  ASSUME ListeningAssumption, NEW a \in Accounts, NEW q \in Seq(Events),
         NEW w \in Seq(Events), NEW k \in Seq(Events), AccountOK(a, q, w, k)
  PROVE  /\ Call(a, q) \in Calls
         /\ CallOK(Call(a, q), q, w, k)
         /\ Call(a, q).account = a /\ Call(a, q).waited
<1>1. PICK c : c = Call(a, q)
  OBVIOUS
<1>2. c = [account |-> a, batch |-> Batch(q), state |-> "sent", waited |-> TRUE]
  BY <1>1 DEF Call
<1>3. PICK b : b = Batch(q)
  OBVIOUS
<1>4. b \in Seq(Events) /\ Extends(q, b)
  BY <1>3, BatchFacts
<1>5. c \in Calls /\ c.account = a /\ c.waited /\ c.state = "sent" /\ c.batch = b
  BY <1>2, <1>3, <1>4 DEF Calls
<1>6. Len(q) \in Nat /\ Len(b) \in Nat /\ Len(w) \in Nat
  BY <1>4, LenProperties
<1>7. PICK n \in 0..Len(w) : /\ Len(q) = Len(w) - n
                             /\ \A i \in 1..Len(q) : q[i] = w[n + i]
  BY DEF AccountOK
<1>8. ASSUME NEW i \in 1..Len(b) PROVE Contains(w, b[i])
  <2>1. i \in 1..Len(q) /\ n + i \in 1..Len(w) /\ b[i] = q[i]
    BY <1>4, <1>6, <1>7 DEF Extends
  <2> QED BY <1>7, <2>1 DEF Contains
<1>9. CallOK(c, q, w, k)
  BY <1>4, <1>5, <1>8 DEF CallOK
<1> QED BY <1>1, <1>5, <1>9

-----------------------------------------------------------------------------
(***************************************************************************)
(* How the server counts a batch: the loop of RecordEvents, event by event.*)
(***************************************************************************)
IsCount(known, batch, n, after) ==
  after = [i \in 0..n |->
             IF i = 0 THEN known ELSE CountOnce(after[i - 1], batch[i])]

\* The loop is a function of the number of events it has seen.
LEMMA CountExists ==
  ASSUME NEW known, NEW batch, NEW n \in Nat
  PROVE  \E after : IsCount(known, batch, n, after)
<1> DEFINE S == {k \in 0..n : \E after : IsCount(known, batch, k, after)}
<1>1. 0 \in S
  <2> DEFINE after == [i \in 0..0 |-> known]
  <2>1. after = [i \in 0..0 |->
                   IF i = 0 THEN known ELSE CountOnce(after[i - 1], batch[i])]
    OBVIOUS
  <2> HIDE DEF after
  <2>2. IsCount(known, batch, 0, after)
    BY <2>1 DEF IsCount
  <2> QED BY <2>2
<1>2. ASSUME NEW k \in 0..n - 1, k \in S PROVE k + 1 \in S
  <2>1. PICK f : IsCount(known, batch, k, f)
    BY <1>2
  <2>2. f = [i \in 0..k |->
               IF i = 0 THEN known ELSE CountOnce(f[i - 1], batch[i])]
    BY <2>1 DEF IsCount
  <2> DEFINE g == [i \in 0..k + 1 |->
                     IF i \in 0..k THEN f[i] ELSE CountOnce(f[k], batch[k + 1])]
             h == [i \in 0..k + 1 |->
                     IF i = 0 THEN known ELSE CountOnce(g[i - 1], batch[i])]
  <2>3. ASSUME NEW i \in 0..k + 1 PROVE g[i] = h[i]
    <3>1. CASE i = 0
      <4>1. f[0] = known /\ 0 \in 0..k
        BY <2>2
      <4> QED BY <3>1, <4>1
    <3>2. CASE i # 0 /\ i \in 0..k
      <4>1. i - 1 \in 0..k /\ i - 1 \in 0..k + 1
        BY <3>2
      <4>2. f[i] = CountOnce(f[i - 1], batch[i])
        BY <2>2, <3>2
      <4>3. g[i] = f[i] /\ g[i - 1] = f[i - 1]
        BY <3>2, <4>1
      <4> QED BY <3>2, <4>2, <4>3
    <3>3. CASE i = k + 1
      <4>1. i \notin 0..k /\ k \in 0..k + 1 /\ k \in 0..k /\ i # 0 /\ i - 1 = k
        BY <3>3
      <4>2. g[i] = CountOnce(f[k], batch[k + 1]) /\ g[k] = f[k]
        BY <4>1
      <4> QED BY <3>3, <4>1, <4>2
    <3> QED BY <3>1, <3>2, <3>3
  <2>4. g = h
    BY <2>3
  <2>5. g = [i \in 0..k + 1 |->
               IF i = 0 THEN known ELSE CountOnce(g[i - 1], batch[i])]
    BY <2>4
  <2> HIDE DEF g, h
  <2>6. IsCount(known, batch, k + 1, g)
    BY <2>5 DEF IsCount
  <2> QED BY <1>2, <2>6
<1> HIDE DEF S
<1>3. \A k \in 0..n : k \in S
  BY <1>1, <1>2, HoldsUpTo
<1> QED BY <1>3 DEF S

\* What it has counted of the first events.
LEMMA CountRun ==
  ASSUME NEW known, NEW batch, NEW n \in Nat, Len(batch) = n
  PROVE  \E after : IsCount(known, batch, n, after) /\ CountBatch(known, batch) = after[n]
<1>1. CountBatch(known, batch) =
        (CHOOSE after : IsCount(known, batch, n, after))[n]
  BY DEF CountBatch, IsCount
<1>2. PICK after : after = CHOOSE f : IsCount(known, batch, n, f)
  OBVIOUS
<1>3. \E f : IsCount(known, batch, n, f)
  BY CountExists
<1>4. IsCount(known, batch, n, after)
  BY <1>2, <1>3
<1>5. CountBatch(known, batch) = after[n]
  BY <1>1, <1>2
<1> QED BY <1>4, <1>5

\* One event: it is there afterwards, and was appended only if its id was not.
LEMMA CountOnceFacts ==
  ASSUME NEW a, NEW w \in Seq(Events), NEW k \in Seq(Events), NEW q \in Seq(Events),
         AccountOK(a, q, w, k), NEW e, Contains(w, e)
  PROVE  /\ CountOnce(k, e) \in Seq(Events) /\ Extends(CountOnce(k, e), k)
         /\ Contains(CountOnce(k, e), e)
         /\ AccountOK(a, q, w, CountOnce(k, e))
<1>1. /\ Len(k) \in Nat /\ Len(w) \in Nat /\ DOMAIN k = 1..Len(k)
      /\ \A i \in 1..Len(w) : w[i] \in Events
  BY LenProperties, ElementOfSeq
<1>2. PICK j \in 1..Len(w) : w[j] = e
  BY DEF Contains
<1>3. e \in Events
  BY <1>1, <1>2
<1>4. CASE \E i \in 1..Len(k) : k[i].id = e.id
  <2>1. PICK i \in 1..Len(k) : k[i].id = e.id
    BY <1>4
  <2>2. PICK m \in 1..Len(w) : w[m] = k[i]
    BY DEF AccountOK, Contains
  <2>3. w[m].id = <<a, m>> /\ w[j].id = <<a, j>>
    BY DEF AccountOK
  <2>4. m = j
    <3>1. w[m].id = w[j].id
      BY <1>2, <2>1, <2>2
    <3>2. <<a, m>> = <<a, j>>
      BY <2>3, <3>1
    <3> QED BY <3>2
  <2>5. Contains(k, e)
    BY <1>2, <2>2, <2>4 DEF Contains
  <2>6. CountOnce(k, e) = k
    BY <1>1, <2>1 DEF CountOnce
  <2> QED BY <2>5, <2>6, ExtendsReflexive
<1>5. CASE ~\E i \in 1..Len(k) : k[i].id = e.id
  <2>1. PICK new : new = Append(k, e)
    OBVIOUS
  <2>2. /\ new \in Seq(Events) /\ Len(new) = Len(k) + 1
        /\ \A i \in 1..Len(k) : new[i] = k[i]
        /\ new[Len(k) + 1] = e
    BY <1>3, <2>1, AppendProperties
  <2>3. CountOnce(k, e) = new
    BY <1>1, <1>5, <2>1 DEF CountOnce
  <2>4. Extends(new, k)
    BY <1>1, <2>2 DEF Extends
  <2>5. Contains(new, e)
    <3>1. Len(k) + 1 \in 1..Len(new)
      BY <1>1, <2>2
    <3> QED BY <2>2, <3>1 DEF Contains
  <2>6. \A i \in 1..Len(new) : i \in 1..Len(k) \/ i = Len(k) + 1
    BY <1>1, <2>2
  <2>7. \A i, l \in 1..Len(new) : new[i].id = new[l].id => i = l
    BY <1>5, <2>2, <2>6 DEF AccountOK
  <2>8. \A i \in 1..Len(new) : Contains(w, new[i])
    BY <2>2, <2>6 DEF AccountOK
  <2>9. AccountOK(a, q, w, new)
    <3>1. PICK n \in 0..Len(w) :
            /\ Len(q) = Len(w) - n
            /\ \A i \in 1..Len(q) : q[i] = w[n + i]
            /\ \A i \in 1..n : Contains(k, w[i])
      BY DEF AccountOK
    <3>2. \A i \in 1..n : Contains(new, w[i])
      BY <2>2, <2>4, <3>1, ContainsKept
    <3>3. \A i \in 1..Len(w) : w[i].id = <<a, i>>
      BY DEF AccountOK
    <3> QED BY <2>7, <2>8, <3>1, <3>2, <3>3 DEF AccountOK
  <2> QED BY <2>2, <2>3, <2>4, <2>5, <2>9
<1> QED BY <1>4, <1>5

\* A batch: all of it is counted afterwards, each event once, and only what
\* was recorded, if its events were.
LEMMA CountBatchFacts ==
  ASSUME NEW a, NEW w \in Seq(Events), NEW k \in Seq(Events), NEW q \in Seq(Events),
         AccountOK(a, q, w, k), NEW b \in Seq(Events),
         \A i \in 1..Len(b) : Contains(w, b[i])
  PROVE  /\ CountBatch(k, b) \in Seq(Events) /\ Extends(CountBatch(k, b), k)
         /\ \A i \in 1..Len(b) : Contains(CountBatch(k, b), b[i])
         /\ AccountOK(a, q, w, CountBatch(k, b))
<1>1. PICK n : n = Len(b)
  OBVIOUS
<1>2. n \in Nat
  BY <1>1, LenProperties
<1>3. PICK after : IsCount(k, b, n, after) /\ CountBatch(k, b) = after[n]
  BY <1>1, <1>2, CountRun
<1>4. /\ after[0] = k
      /\ \A i \in 1..n : after[i] = CountOnce(after[i - 1], b[i])
  BY <1>2, <1>3 DEF IsCount
<1> DEFINE J(i) ==
      /\ after[i] \in Seq(Events) /\ Extends(after[i], k)
      /\ \A j \in 1..i : Contains(after[i], b[j])
      /\ AccountOK(a, q, w, after[i])
    S == {i \in 0..n : J(i)}
<1>5. J(0)
  BY <1>4, ExtendsReflexive
<1>6. ASSUME NEW i \in 0..n - 1, J(i) PROVE J(i + 1)
  <2>1. i + 1 \in 1..n /\ (i + 1) - 1 = i /\ 1..i + 1 = 1..i \cup {i + 1}
    BY <1>2
  <2>2. PICK new : new = after[i + 1]
    OBVIOUS
  <2>3. new = CountOnce(after[i], b[i + 1]) /\ Contains(w, b[i + 1])
    BY <1>1, <1>4, <2>1, <2>2
  <2>4. /\ new \in Seq(Events) /\ Extends(new, after[i])
        /\ Contains(new, b[i + 1]) /\ AccountOK(a, q, w, new)
    BY <1>6, <2>3, CountOnceFacts
  <2>5. Extends(new, k)
    BY <1>6, <2>4, ExtendsTransitive
  <2>6. \A j \in 1..i : Contains(new, b[j])
    BY <1>6, <2>4, ContainsKept
  <2> QED BY <2>1, <2>2, <2>4, <2>5, <2>6
<1>7. \A i \in 0..n : i \in S
  <2> HIDE DEF J
  <2>1. 0 \in S /\ \A i \in 0..n - 1 : i \in S => i + 1 \in S
    BY <1>2, <1>5, <1>6
  <2> HIDE DEF S
  <2> QED BY <1>2, <2>1, HoldsUpTo
<1>8. J(n)
  <2> HIDE DEF J
  <2>1. n \in 0..n
    BY <1>2
  <2> QED BY <1>7, <2>1
<1> QED BY <1>1, <1>3, <1>8

\* The answer: what was sent was first in the queue, and is counted.
LEMMA RemainingOK ==
  ASSUME NEW a, NEW w \in Seq(Events), NEW k \in Seq(Events), NEW q \in Seq(Events),
         AccountOK(a, q, w, k), NEW b \in Seq(Events), Extends(q, b),
         \A i \in 1..Len(b) : Contains(k, b[i])
  PROVE  /\ SubSeq(q, Len(b) + 1, Len(q)) \in Seq(Events)
         /\ AccountOK(a, SubSeq(q, Len(b) + 1, Len(q)), w, k)
<1>1. PICK m : m = Len(b) + 1
  OBVIOUS
<1>2. /\ Len(b) \in Nat /\ Len(q) \in Nat /\ Len(w) \in Nat /\ m \in Int
      /\ Len(q) \in Int /\ Len(b) <= Len(q)
  BY <1>1, LenProperties DEF Extends
<1>3. \A i \in m..Len(q) : q[i] \in Events
  BY <1>1, <1>2, ElementOfSeq
<1>4. PICK p : p = SubSeq(q, m, Len(q))
  OBVIOUS
<1>5. /\ p \in Seq(Events)
      /\ Len(p) = IF m <= Len(q) THEN Len(q) - m + 1 ELSE 0
      /\ \A i \in 1..Len(q) - m + 1 : p[i] = q[m + i - 1]
  BY <1>2, <1>3, <1>4, SubSeqProperties
<1>6. Len(p) = Len(q) - Len(b) /\ Len(q) - m + 1 = Len(q) - Len(b)
  BY <1>1, <1>2, <1>5
<1>7. \A i \in 1..Len(p) : p[i] = q[Len(b) + i]
  BY <1>1, <1>2, <1>5, <1>6
<1>8. PICK n \in 0..Len(w) :
        /\ Len(q) = Len(w) - n
        /\ \A i \in 1..Len(q) : q[i] = w[n + i]
        /\ \A i \in 1..n : Contains(k, w[i])
  BY DEF AccountOK
<1>9. PICK l : l = n + Len(b)
  OBVIOUS
<1>10. l \in 0..Len(w) /\ Len(p) = Len(w) - l
  BY <1>2, <1>6, <1>8, <1>9
<1>11. ASSUME NEW i \in 1..Len(p) PROVE p[i] = w[l + i]
  <2>1. Len(b) + i \in 1..Len(q) /\ n + (Len(b) + i) = l + i
    BY <1>2, <1>6, <1>9
  <2> QED BY <1>7, <1>8, <2>1
<1>12. ASSUME NEW i \in 1..l PROVE Contains(k, w[i])
  <2>1. CASE i \in 1..n
    BY <1>8, <2>1
  <2>2. CASE i \notin 1..n
    <3>1. PICK j : j = i - n
      OBVIOUS
    <3>2. j \in 1..Len(b) /\ j \in 1..Len(q) /\ n + j = i
      BY <1>2, <1>9, <2>2, <3>1
    <3>3. w[i] = q[j] /\ q[j] = b[j]
      BY <1>8, <3>2 DEF Extends
    <3> QED BY <3>2, <3>3
  <2> QED BY <2>1, <2>2
<1>13. /\ \A i \in 1..Len(w) : w[i].id = <<a, i>>
       /\ \A i, j \in 1..Len(k) : k[i].id = k[j].id => i = j
       /\ \A i \in 1..Len(k) : Contains(w, k[i])
  BY DEF AccountOK
<1>14. AccountOK(a, p, w, k)
  BY <1>10, <1>11, <1>12, <1>13 DEF AccountOK
<1> QED BY <1>1, <1>4, <1>5, <1>14

-----------------------------------------------------------------------------
(***************************************************************************)
(* The inductive invariant of the outbox: every account and every call is  *)
(* as it should be, and one call at most is waited for, by the loop that   *)
(* is running.                                                             *)
(***************************************************************************)
OutboxType ==
  /\ user \in Accounts \cup {None} /\ flushing \in BOOLEAN /\ calls \subseteq Calls
  /\ stored \in [Accounts -> Seq(Events)]
  /\ log \in [Accounts -> Seq(Events)]
  /\ counted \in [Accounts -> Seq(Events)]
  /\ events = IF user = None THEN <<>> ELSE stored[user]

AccountsInv == \A a \in Accounts : AccountOK(a, stored[a], log[a], counted[a])

CallsInv == \A c \in calls :
              CallOK(c, stored[c.account], log[c.account], counted[c.account])

\* At most one call of these is waited for, and only while a loop runs.
OneLoop(pending, running) ==
  /\ \A c, d \in pending : c.waited /\ d.waited => c = d
  /\ \A c \in pending : c.waited => running

OutboxInv == OutboxType /\ AccountsInv /\ CallsInv /\ OneLoop(calls, flushing)

TrackerType ==
  /\ sounding \in Tracks \cup {None} /\ current \in Tracks \cup {None}
  /\ position \in 0 .. Length
  /\ paused \in BOOLEAN /\ source \in BOOLEAN /\ loading \in BOOLEAN
  /\ tracked \in Tracks \cup {None} /\ heard \in Nat
  /\ last \in 0 .. Length \/ last = None

IInv == OutboxInv /\ TrackerType

\* The last thing a step does to the outbox is to flush it, or not to.
LEMMA FlushedOK ==
  ASSUME ListeningAssumption, NEW account \in Accounts,
         NEW others \in SUBSET Calls, NEW running \in BOOLEAN,
         OneLoop(others, running),
         user' \in Accounts \cup {None},
         stored' \in [Accounts -> Seq(Events)],
         log' \in [Accounts -> Seq(Events)],
         counted' \in [Accounts -> Seq(Events)],
         events' = IF user' = None THEN <<>> ELSE stored'[user'],
         \A a \in Accounts : AccountOK(a, stored'[a], log'[a], counted'[a]),
         \A c \in others :
           CallOK(c, stored'[c.account], log'[c.account], counted'[c.account]),
         Flush(account, stored'[account], others, running)
  PROVE  OutboxInv'
<1>1. PICK q, w, k : q = stored'[account] /\ w = log'[account] /\ k = counted'[account]
  OBVIOUS
<1>2. /\ q \in Seq(Events) /\ w \in Seq(Events) /\ k \in Seq(Events)
      /\ AccountOK(account, q, w, k)
  BY <1>1
<1>3. PICK new : new = Call(account, q)
  OBVIOUS
<1>4. new \in Calls /\ CallOK(new, q, w, k) /\ new.account = account /\ new.waited
  BY <1>2, <1>3, NewCallOK
<1>5. CASE ~running /\ q # <<>>
  <2>1. flushing' = TRUE /\ calls' = others \cup {new}
    <3>1. account # None
      BY DEF ListeningAssumption
    <3> QED BY <1>1, <1>3, <1>5, <3>1 DEF Flush
  <2>2. calls' \subseteq Calls
    BY <1>4, <2>1
  <2>3. \A c \in calls' :
          CallOK(c, stored'[c.account], log'[c.account], counted'[c.account])
    BY <1>1, <1>4, <2>1
  <2>4. OneLoop(calls', flushing')
    BY <1>5, <2>1 DEF OneLoop
  <2>5. (/\ flushing \in BOOLEAN /\ calls \subseteq Calls
         /\ OneLoop(calls, flushing))'
    BY <2>1, <2>2, <2>4 DEF OneLoop
  <2> QED BY <2>3, <2>5 DEF OutboxInv, OutboxType, AccountsInv, CallsInv
<1>6. CASE ~(~running /\ q # <<>>)
  <2>1. flushing' = running /\ calls' = others
    BY <1>1, <1>6 DEF Flush
  <2>2. (/\ flushing \in BOOLEAN /\ calls \subseteq Calls
         /\ OneLoop(calls, flushing))'
    BY <2>1 DEF OneLoop
  <2>3. \A c \in calls' :
          CallOK(c, stored'[c.account], log'[c.account], counted'[c.account])
    BY <2>1
  <2> QED BY <2>2, <2>3 DEF OutboxInv, OutboxType, AccountsInv, CallsInv
<1> QED BY <1>5, <1>6

\* A step that leaves the outbox, the user and the server alone.
LEMMA OutboxUnchanged ==
  ASSUME OutboxInv, UNCHANGED <<user, outbox, counted>>
  PROVE  OutboxInv'
BY DEF OutboxInv, OutboxType, AccountsInv, CallsInv, OneLoop, outbox

\* What HeardAt measures is a time.
LEMMA HeardAtType ==
  ASSUME ListeningAssumption, TrackerType
  PROVE  HeardAt(position) \in Nat
<1>1. Length \in Nat
  BY DEF ListeningAssumption
<1>2. CASE last = None
  BY <1>2 DEF HeardAt, TrackerType
<1>3. CASE last # None
  <2>1. last \in Nat /\ position \in Nat /\ heard \in Nat
    BY <1>1, <1>3 DEF TrackerType
  <2>2. PlaybackDelta(last, position) \in Nat
    BY <2>1 DEF PlaybackDelta
  <2> QED BY <1>3, <2>1, <2>2 DEF HeardAt
<1> QED BY <1>2, <1>3

\* One event at most, whose id is new.
IsNew(new) ==
  \/ new = <<>>
  \/ \E e \in Events : new = <<e>> /\ e.id = <<user, Len(log[user]) + 1>>

\* What createListeningEvent makes is new.
LEMMA NewEventsAreNew ==
  ASSUME ListeningAssumption, user \in Accounts, OutboxType,
         NEW track \in Tracks \cup {None}, NEW units \in Nat
  PROVE  IsNew(NewEvents(track, units))
<1>1. MinListened \in Nat \ {0}
  BY DEF ListeningAssumption
<1>2. CASE track = None \/ units < MinListened
  BY <1>2 DEF NewEvents, IsNew
<1>3. CASE ~(track = None \/ units < MinListened)
  <2>1. log[user] \in Seq(Events)
    BY DEF OutboxType
  <2>2. PICK u, n : u = user /\ n = Len(log[user]) + 1
    OBVIOUS
  <2>3. u \in Accounts /\ n \in Nat \ {0}
    BY <2>1, <2>2, LenProperties
  <2>4. PICK e : e = [id |-> <<u, n>>, track |-> track, units |-> units]
    OBVIOUS
  <2>5. track \in Tracks /\ units \in Nat \ {0}
    BY <1>1, <1>3
  <2>6. e \in Events /\ e.id = <<u, n>>
    BY <2>3, <2>4, <2>5 DEF Events
  <2>7. NewEvents(track, units) = <<e>>
    BY <1>3, <2>2, <2>4 DEF NewEvents
  <2> QED BY <2>2, <2>6, <2>7 DEF IsNew
<1> QED BY <1>2, <1>3

\* Recording an event keeps the invariant of the outbox.
LEMMA RecordOK ==
  ASSUME ListeningAssumption, OutboxInv, user \in Accounts, NEW new, IsNew(new),
         Record(new), UNCHANGED <<user, counted>>
  PROVE  OutboxInv'
<1>0. user # None
  BY DEF ListeningAssumption
<1>1. CASE new = <<>>
  BY <1>1, OutboxUnchanged DEF Record
<1>2. CASE new # <<>>
  <2>1. PICK e \in Events : new = <<e>> /\ e.id = <<user, Len(log[user]) + 1>>
    BY <1>2 DEF IsNew
  <2>2. /\ events' = events \o <<e>>
        /\ stored' = [stored EXCEPT ![user] = events \o <<e>>]
        /\ log' = [log EXCEPT ![user] = @ \o <<e>>]
        /\ Flush(user, events \o <<e>>, calls, flushing)
    BY <1>0, <1>2, <2>1 DEF Record
  <2>3. PICK a, q, w : a = user /\ q = stored[a] /\ w = log[a]
    OBVIOUS
  <2>4. /\ a \in Accounts /\ q \in Seq(Events) /\ w \in Seq(Events)
        /\ counted[a] \in Seq(Events) /\ events = q
        /\ AccountOK(a, q, w, counted[a])
    BY <1>0, <2>3 DEF OutboxInv, OutboxType, AccountsInv
  <2>5. PICK p, v : p = q \o <<e>> /\ v = w \o <<e>>
    OBVIOUS
  <2>6. /\ p \in Seq(Events) /\ v \in Seq(Events)
        /\ Extends(p, q) /\ Extends(v, w)
    BY <2>4, <2>5, OneMore
  <2>7. AccountOK(a, p, v, counted[a])
    BY <2>1, <2>3, <2>4, <2>5, RecordedOK
  <2>8. /\ stored' = [stored EXCEPT ![a] = p] /\ log' = [log EXCEPT ![a] = v]
        /\ events' = p /\ Flush(a, p, calls, flushing)
    BY <2>2, <2>3, <2>4, <2>5
  <2>9. /\ stored' \in [Accounts -> Seq(Events)] /\ log' \in [Accounts -> Seq(Events)]
        /\ stored'[a] = p /\ log'[a] = v
        /\ \A b \in Accounts \ {a} : stored'[b] = stored[b] /\ log'[b] = log[b]
    BY <2>4, <2>6, <2>8 DEF OutboxInv, OutboxType
  <2>10. \A b \in Accounts : AccountOK(b, stored'[b], log'[b], counted'[b])
    BY <2>7, <2>9 DEF OutboxInv, AccountsInv
  <2>11. ASSUME NEW c \in calls
         PROVE  CallOK(c, stored'[c.account], log'[c.account], counted'[c.account])
    <3>1. /\ c \in Calls /\ c.account \in Accounts
          /\ CallOK(c, stored[c.account], log[c.account], counted[c.account])
      BY DEF OutboxInv, OutboxType, CallsInv, Calls
    <3>2. CASE c.account = a
      <4>1. PICK k : k = counted[a]
        OBVIOUS
      <4>2. k \in Seq(Events) /\ Extends(k, k) /\ CallOK(c, q, w, k)
        BY <2>3, <2>4, <3>1, <3>2, <4>1, ExtendsReflexive
      <4>3. CallOK(c, p, v, k)
        BY <2>4, <2>6, <3>1, <4>2, CallStaysOK
      <4> QED BY <2>9, <3>2, <4>1, <4>3
    <3>3. CASE c.account # a
      BY <2>9, <3>1, <3>3
    <3> QED BY <3>2, <3>3
  <2>12. /\ calls \in SUBSET Calls /\ flushing \in BOOLEAN
         /\ OneLoop(calls, flushing)
         /\ counted' \in [Accounts -> Seq(Events)]
    BY DEF OutboxInv, OutboxType
  <2>13. user' \in Accounts \cup {None} /\ user' # None
         /\ events' = IF user' = None THEN <<>> ELSE stored'[user']
    BY <1>0, <2>3, <2>8, <2>9
  <2>14. Flush(a, stored'[a], calls, flushing)
    BY <2>8, <2>9
  <2> QED BY <2>4, <2>9, <2>10, <2>11, <2>12, <2>13, <2>14, FlushedOK
<1> QED BY <1>1, <1>2

-----------------------------------------------------------------------------
(***************************************************************************)
(* The steps of the player: what was heard is recorded, or nothing is.     *)
(***************************************************************************)

\* A track, or nothing, is recorded at the position of the element.
LEMMA HeardIsRecorded ==
  ASSUME ListeningAssumption, IInv, user \in Accounts,
         Record(NewEvents(tracked, HeardAt(position))), UNCHANGED <<user, counted>>
  PROVE  OutboxInv'
<1>1. HeardAt(position) \in Nat /\ tracked \in Tracks \cup {None}
  BY HeardAtType DEF IInv, TrackerType
<1>2. IsNew(NewEvents(tracked, HeardAt(position)))
  BY <1>1, NewEventsAreNew DEF IInv, OutboxInv
<1> QED BY <1>2, RecordOK DEF IInv

\* flushListening keeps the outbox, and the type of the tracker.
LEMMA FlushListeningOK ==
  ASSUME ListeningAssumption, IInv, user \in Accounts, FlushListening(position),
         UNCHANGED <<user, counted>>
  PROVE  OutboxInv' /\ tracked' = tracked /\ heard' \in Nat
         /\ (last' \in 0 .. Length \/ last' = None)
<1>1. CASE tracked = None
  BY <1>1, OutboxUnchanged DEF FlushListening, tracker, IInv, TrackerType
<1>2. CASE tracked # None
  BY <1>2, HeardIsRecorded DEF FlushListening, IInv, TrackerType
<1> QED BY <1>1, <1>2

\* So does startTrack.
LEMMA StartTrackingOK ==
  ASSUME ListeningAssumption, IInv, user \in Accounts, NEW track \in Tracks,
         StartTracking(track), UNCHANGED <<user, counted>>
  PROVE  OutboxInv' /\ tracked' \in Tracks \cup {None} /\ heard' \in Nat
         /\ (last' \in 0 .. Length \/ last' = None)
<1>0. 0 \in 0 .. Length
  BY DEF ListeningAssumption
<1>1. CASE tracked = track
  BY <1>1, OutboxUnchanged DEF StartTracking, tracker, IInv, TrackerType
<1>2. CASE tracked # track /\ tracked = None
  <2>1. Record(<<>>)
    BY <1>2 DEF StartTracking
  <2>2. OutboxInv'
    BY <2>1, OutboxUnchanged DEF Record, IInv
  <2> QED BY <1>0, <1>2, <2>2 DEF StartTracking, Reset
<1>3. CASE tracked # track /\ tracked # None
  <2>1. Record(NewEvents(tracked, HeardAt(position)))
    BY <1>3 DEF StartTracking
  <2> QED BY <1>0, <1>3, <2>1, HeardIsRecorded DEF StartTracking, Reset
<1> QED BY <1>1, <1>2, <1>3

\* The steps of the user, the element and the clock.
PlayerStep ==
  \/ Advance \/ TimeUpdate \/ Pause \/ Resume \/ Stream \/ StreamFails
  \/ \E to \in 0 .. Length : Seek(to)
  \/ \E track \in Tracks : Choose(track)
  \/ \E next \in Tracks \cup {None} : Ended(next)

\* Each of them keeps the invariant.
LEMMA PlayerStepOK ==
  ASSUME ListeningAssumption, IInv, PlayerStep
  PROVE  IInv'
<1>0. /\ Length \in Nat \ {0} /\ 0 \in 0 .. Length
      /\ user # None => user \in Accounts
  BY DEF ListeningAssumption, IInv, OutboxInv, OutboxType
<1>a. ASSUME UNCHANGED <<user, outbox, counted>> PROVE OutboxInv'
  BY <1>a, OutboxUnchanged DEF IInv
<1>1. CASE Advance
  <2>1. position' \in 0 .. Length
    BY <1>0, <1>1 DEF Advance, IInv, TrackerType
  <2> QED BY <1>1, <1>a, <2>1 DEF Advance, IInv, TrackerType, tracker, server
<1>2. CASE TimeUpdate
  <2>1. HeardAt(position) \in Nat
    BY HeardAtType DEF IInv
  <2> QED BY <1>2, <1>a, <2>1 DEF TimeUpdate, IInv, TrackerType, element, server
<1>3. CASE Pause
  <2>1. user \in Accounts /\ FlushListening(position) /\ UNCHANGED <<user, counted>>
    BY <1>0, <1>3 DEF Pause, server
  <2>2. OutboxInv' /\ tracked' = tracked /\ heard' \in Nat
        /\ (last' \in 0 .. Length \/ last' = None)
    BY <2>1, FlushListeningOK
  <2> QED BY <1>3, <2>2 DEF Pause, IInv, TrackerType
<1>4. CASE Resume
  BY <1>0, <1>4, <1>a DEF Resume, IInv, TrackerType, server
<1>5. CASE Stream
  BY <1>0, <1>5, <1>a DEF Stream, IInv, TrackerType, server
<1>6. ASSUME NEW to \in 0 .. Length, Seek(to) PROVE IInv'
  BY <1>6, <1>a DEF Seek, IInv, TrackerType, server
<1>7. ASSUME NEW track \in Tracks, Choose(track) PROVE IInv'
  <2>1. user \in Accounts /\ StartTracking(track) /\ UNCHANGED <<user, counted>>
    BY <1>0, <1>7 DEF Choose, server
  <2>2. OutboxInv' /\ tracked' \in Tracks \cup {None} /\ heard' \in Nat
        /\ (last' \in 0 .. Length \/ last' = None)
    BY <2>1, StartTrackingOK
  <2> QED BY <1>7, <2>2 DEF Choose, IInv, TrackerType
<1>8. ASSUME NEW next \in Tracks \cup {None}, Ended(next) PROVE IInv'
  <2>1. user \in Accounts /\ Record(NewEvents(tracked, HeardAt(position)))
        /\ UNCHANGED <<user, counted>>
    BY <1>0, <1>8 DEF Ended, server
  <2>2. OutboxInv'
    BY <2>1, HeardIsRecorded
  <2>3. TrackerType'
    <3>1. /\ sounding' \in Tracks \cup {None} /\ position' \in 0 .. Length
          /\ paused' \in BOOLEAN /\ source' \in BOOLEAN /\ loading' \in BOOLEAN
          /\ current' \in Tracks \cup {None}
      BY <1>0, <1>8 DEF Ended, IInv, TrackerType
    <3>2. tracked' \in Tracks \cup {None} /\ heard' \in Nat /\ last' \in 0 .. Length
      BY <1>0, <1>8 DEF Ended, Reset, IInv, TrackerType
    <3> QED BY <3>1, <3>2 DEF TrackerType
  <2> QED BY <2>2, <2>3 DEF IInv
<1>9. CASE StreamFails
  BY <1>9, <1>a DEF StreamFails, IInv, TrackerType, tracker, server
<1> QED BY <1>1, <1>2, <1>3, <1>4, <1>5, <1>6, <1>7, <1>8, <1>9 DEF PlayerStep

-----------------------------------------------------------------------------
(***************************************************************************)
(* The steps of the network, and of the sessions.                          *)
(***************************************************************************)

\* Facts about a call under way.
LEMMA CallFacts ==
  ASSUME OutboxInv, NEW c \in calls
  PROVE  /\ c \in Calls /\ c.account \in Accounts /\ c.batch \in Seq(Events)
         /\ c.state \in {"sent", "served", "refused"} /\ c.waited \in BOOLEAN
         /\ c = [account |-> c.account, batch |-> c.batch, state |-> c.state,
                 waited |-> c.waited]
         /\ stored[c.account] \in Seq(Events) /\ log[c.account] \in Seq(Events)
         /\ counted[c.account] \in Seq(Events)
         /\ AccountOK(c.account, stored[c.account], log[c.account], counted[c.account])
         /\ CallOK(c, stored[c.account], log[c.account], counted[c.account])
BY DEF OutboxInv, OutboxType, AccountsInv, CallsInv, Calls

\* The same call in another state, whose events are counted, or unwaited.
LEMMA CallUpdated ==
  ASSUME NEW c \in Calls, NEW q, NEW w, NEW k, CallOK(c, q, w, k)
  PROVE  /\ [c EXCEPT !.waited = FALSE] \in Calls
         /\ [c EXCEPT !.waited = FALSE].account = c.account
         /\ ~[c EXCEPT !.waited = FALSE].waited
         /\ CallOK([c EXCEPT !.waited = FALSE], q, w, k)
         /\ [c EXCEPT !.state = "served"] \in Calls
         /\ [c EXCEPT !.state = "served"].account = c.account
         /\ [c EXCEPT !.state = "served"].waited = c.waited
         /\ (\A i \in 1..Len(c.batch) : Contains(k, c.batch[i])) =>
              CallOK([c EXCEPT !.state = "served"], q, w, k)
         /\ [c EXCEPT !.state = "refused"] \in Calls
         /\ [c EXCEPT !.state = "refused"].account = c.account
         /\ [c EXCEPT !.state = "refused"].waited = c.waited
         /\ CallOK([c EXCEPT !.state = "refused"], q, w, k)
<1>1. PICK d : d = [c EXCEPT !.waited = FALSE]
  OBVIOUS
<1>2. d \in Calls /\ d.account = c.account /\ d.batch = c.batch /\ d.state = c.state
      /\ d.waited = FALSE
  BY <1>1 DEF Calls
<1>3. CallOK(d, q, w, k)
  BY <1>2 DEF CallOK
<1>4. PICK e : e = [c EXCEPT !.state = "served"]
  OBVIOUS
<1>5. e \in Calls /\ e.account = c.account /\ e.batch = c.batch
      /\ e.state = "served" /\ e.waited = c.waited
  BY <1>4 DEF Calls
<1>6. (\A i \in 1..Len(c.batch) : Contains(k, c.batch[i])) => CallOK(e, q, w, k)
  BY <1>5 DEF CallOK
<1>7. PICK r : r = [c EXCEPT !.state = "refused"]
  OBVIOUS
<1>8. r \in Calls /\ r.account = c.account /\ r.batch = c.batch
      /\ r.state = "refused" /\ r.waited = c.waited
  BY <1>7 DEF Calls
<1>9. CallOK(r, q, w, k)
  BY <1>8 DEF CallOK
<1> QED BY <1>1, <1>2, <1>3, <1>4, <1>5, <1>6, <1>7, <1>8, <1>9

\* The outbox is flushed once more.
LEMMA RetryOK ==
  ASSUME ListeningAssumption, OutboxInv, Retry
  PROVE  OutboxInv'
<1>1. /\ user \in Accounts /\ user # None /\ events = stored[user]
      /\ calls \in SUBSET Calls /\ flushing \in BOOLEAN
      /\ OneLoop(calls, flushing)
  BY DEF Retry, OutboxInv, OutboxType
<1>2. /\ user' = user /\ stored' = stored /\ log' = log /\ counted' = counted
      /\ events' = events /\ Flush(user, stored'[user], calls, flushing)
  BY <1>1 DEF Retry, server
<1>3. /\ stored' \in [Accounts -> Seq(Events)] /\ log' \in [Accounts -> Seq(Events)]
      /\ counted' \in [Accounts -> Seq(Events)]
      /\ events' = IF user' = None THEN <<>> ELSE stored'[user']
      /\ \A a \in Accounts : AccountOK(a, stored'[a], log'[a], counted'[a])
      /\ \A c \in calls :
           CallOK(c, stored'[c.account], log'[c.account], counted'[c.account])
  BY <1>1, <1>2 DEF OutboxInv, OutboxType, AccountsInv, CallsInv
<1> QED BY <1>1, <1>2, <1>3, FlushedOK

\* The server refuses a batch.
LEMMA RefusedOK ==
  ASSUME OutboxInv, NEW c, Serve(c), Refused(c.account, c.batch)
  PROVE  OutboxInv'
<1>1. PICK d : d = [c EXCEPT !.state = "refused"]
  OBVIOUS
<1>2. /\ c \in calls /\ calls' = (calls \ {c}) \cup (IF c.waited THEN {d} ELSE {})
      /\ UNCHANGED <<user, events, flushing, stored, log, counted>>
  BY <1>1 DEF Serve
<1>3. d \in Calls /\ d.account = c.account /\ d.waited = c.waited
      /\ CallOK(d, stored[c.account], log[c.account], counted[c.account])
  BY <1>1, <1>2, CallFacts, CallUpdated
<1>4. calls' \subseteq (calls \ {c}) \cup {d} /\ (d \in calls' => c.waited \/ d \in calls \ {c})
  BY <1>2
<1>5. calls' \subseteq Calls
  BY <1>3, <1>4 DEF OutboxInv, OutboxType
<1>6. \A e \in calls' : CallOK(e, stored[e.account], log[e.account], counted[e.account])
  BY <1>3, <1>4 DEF OutboxInv, CallsInv
<1>7. OneLoop(calls', flushing')
  BY <1>2, <1>3, <1>4 DEF OneLoop, OutboxInv
<1>8. (calls \subseteq Calls /\ OneLoop(calls, flushing) /\ CallsInv)'
  BY <1>2, <1>5, <1>6, <1>7 DEF OneLoop, CallsInv
<1> QED BY <1>2, <1>8 DEF OutboxInv, OutboxType, AccountsInv

\* The server counts a batch, of this loop or of one that gave up.
LEMMA ServedOK ==
  ASSUME OutboxInv, NEW c, Serve(c), ~Refused(c.account, c.batch)
  PROVE  OutboxInv'
<1>1. /\ c \in calls /\ c.state = "sent"
      /\ counted' = [counted EXCEPT ![c.account] = CountBatch(@, c.batch)]
      /\ calls' = (calls \ {c}) \cup
                  (IF c.waited THEN {[c EXCEPT !.state = "served"]} ELSE {})
      /\ UNCHANGED <<user, events, flushing, stored, log>>
  BY DEF Serve
<1>2. PICK a, q, w, k : a = c.account /\ q = stored[a] /\ w = log[a] /\ k = counted[a]
  OBVIOUS
<1>3. /\ c \in Calls /\ a \in Accounts /\ c.batch \in Seq(Events)
      /\ q \in Seq(Events) /\ w \in Seq(Events) /\ k \in Seq(Events)
      /\ AccountOK(a, q, w, k) /\ CallOK(c, q, w, k) /\ c.waited \in BOOLEAN
  BY <1>1, <1>2, CallFacts
<1>4. PICK m : m = CountBatch(k, c.batch)
  OBVIOUS
<1>5. \A i \in 1..Len(c.batch) : Contains(w, c.batch[i])
  BY <1>3 DEF CallOK
<1>6. /\ m \in Seq(Events) /\ Extends(m, k) /\ AccountOK(a, q, w, m)
      /\ \A i \in 1..Len(c.batch) : Contains(m, c.batch[i])
  BY <1>3, <1>4, <1>5, CountBatchFacts
<1>7. /\ counted' \in [Accounts -> Seq(Events)] /\ counted'[a] = m
      /\ \A b \in Accounts \ {a} : counted'[b] = counted[b]
  BY <1>1, <1>2, <1>3, <1>4, <1>6 DEF OutboxInv, OutboxType
<1>8. AccountsInv'
  BY <1>1, <1>2, <1>6, <1>7 DEF OutboxInv, AccountsInv
<1>9. ASSUME NEW d \in calls
      PROVE  CallOK(d, stored[d.account], log[d.account], counted'[d.account])
  <2>1. d \in Calls /\ d.account \in Accounts
        /\ CallOK(d, stored[d.account], log[d.account], counted[d.account])
    BY CallFacts
  <2>2. CASE d.account = a
    <3>1. CallOK(d, q, w, k)
      BY <1>2, <2>1, <2>2
    <3>2. CallOK(d, q, w, m)
      BY <1>3, <1>6, <2>1, <3>1, CallStaysOK, ExtendsReflexive
    <3> QED BY <1>2, <1>7, <2>2, <3>2
  <2>3. CASE d.account # a
    BY <1>7, <2>1, <2>3
  <2> QED BY <2>2, <2>3
<1>10. PICK e : e = [c EXCEPT !.state = "served"]
  OBVIOUS
<1>11. CallOK(c, q, w, m)
  BY <1>1, <1>2, <1>7, <1>9
<1>12. e \in Calls /\ e.account = a /\ e.waited = c.waited /\ CallOK(e, q, w, m)
  BY <1>2, <1>3, <1>6, <1>10, <1>11, CallUpdated
<1>13. calls' \subseteq (calls \ {c}) \cup {e} /\ (e \in calls' => c.waited \/ e \in calls \ {c})
  BY <1>1, <1>10
<1>14. calls' \subseteq Calls
  BY <1>12, <1>13 DEF OutboxInv, OutboxType
<1>15. \A d \in calls' :
         CallOK(d, stored'[d.account], log'[d.account], counted'[d.account])
  BY <1>1, <1>2, <1>7, <1>9, <1>12, <1>13
<1>16. OneLoop(calls', flushing')
  BY <1>1, <1>12, <1>13 DEF OneLoop, OutboxInv
<1>17. (calls \subseteq Calls /\ OneLoop(calls, flushing) /\ CallsInv)'
  BY <1>14, <1>15, <1>16 DEF OneLoop, CallsInv
<1> QED BY <1>1, <1>7, <1>8, <1>17 DEF OutboxInv, OutboxType

\* Whether it counts it or not, the outbox stays sound.
LEMMA ServeOK ==
  ASSUME OutboxInv, NEW c, Serve(c)
  PROVE  OutboxInv'
BY ServedOK, RefusedOK

\* A call that nobody waits for any longer; the loop has ended.
LEMMA GiveUpOK ==
  ASSUME OutboxInv, NEW c, GiveUp(c)
  PROVE  OutboxInv'
<1>1. PICK d : d = [c EXCEPT !.waited = FALSE]
  OBVIOUS
<1>2. /\ c \in calls /\ c.waited /\ flushing' = FALSE
      /\ calls' = calls \ {c} \/ calls' = (calls \ {c}) \cup {d}
      /\ UNCHANGED <<user, events, stored, log, counted>>
  BY <1>1 DEF GiveUp, server
<1>3. d \in Calls /\ d.account = c.account /\ ~d.waited
      /\ CallOK(d, stored[c.account], log[c.account], counted[c.account])
  BY <1>1, <1>2, CallFacts, CallUpdated
<1>4. calls' \subseteq (calls \ {c}) \cup {d}
  BY <1>2
<1>5. calls' \subseteq Calls /\ \A e \in calls' : ~e.waited
  BY <1>2, <1>3, <1>4 DEF OutboxInv, OutboxType, OneLoop
<1>6. \A e \in calls' : CallOK(e, stored[e.account], log[e.account], counted[e.account])
  BY <1>3, <1>4 DEF OutboxInv, CallsInv
<1>7. (calls \subseteq Calls /\ OneLoop(calls, flushing) /\ CallsInv)'
  BY <1>2, <1>5, <1>6 DEF OneLoop, CallsInv
<1> QED BY <1>2, <1>7 DEF OutboxInv, OutboxType, AccountsInv

\* The answer: what was sent leaves the outbox of its account, or nothing does.
LEMMA AnswerOK ==
  ASSUME ListeningAssumption, OutboxInv, NEW c, Answer(c)
  PROVE  OutboxInv'
<1> DEFINE others == calls \ {c}
<1>1. c \in calls /\ c.waited /\ UNCHANGED <<user, log, counted>>
  BY DEF Answer, server
<1>2. others \in SUBSET Calls /\ \A d \in others : d \in calls /\ ~d.waited
  BY <1>1 DEF OutboxInv, OutboxType, OneLoop
<1>3. CASE user # c.account \/ c.state = "refused"
  <2>1. flushing' = FALSE /\ calls' = others /\ UNCHANGED <<events, stored>>
    BY <1>3 DEF Answer
  <2>2. (calls \subseteq Calls /\ OneLoop(calls, flushing) /\ CallsInv)'
    BY <1>1, <1>2, <2>1 DEF OneLoop, CallsInv, OutboxInv
  <2> QED BY <1>1, <2>1, <2>2 DEF OutboxInv, OutboxType, AccountsInv
<1>4. CASE user = c.account /\ c.state # "refused"
  <2>1. PICK a, q, w, k : a = c.account /\ q = stored[a] /\ w = log[a] /\ k = counted[a]
    OBVIOUS
  <2>2. /\ a \in Accounts /\ c.batch \in Seq(Events)
        /\ q \in Seq(Events) /\ w \in Seq(Events) /\ k \in Seq(Events)
        /\ AccountOK(a, q, w, k) /\ CallOK(c, q, w, k)
    BY <1>1, <2>1, CallFacts
  <2>3. a # None /\ events = q /\ user = a
    BY <1>4, <2>1, <2>2 DEF ListeningAssumption, OutboxInv, OutboxType
  <2>4. PICK p : p = SubSeq(q, Len(c.batch) + 1, Len(q))
    OBVIOUS
  <2>5. Extends(q, c.batch) /\ \A i \in 1..Len(c.batch) : Contains(k, c.batch[i])
    BY <1>1, <1>4, <2>2 DEF Answer, CallOK
  <2>6. p \in Seq(Events) /\ AccountOK(a, p, w, k)
    BY <2>2, <2>4, <2>5, RemainingOK
  <2>7. /\ events' = p /\ stored' = [stored EXCEPT ![a] = p]
        /\ Flush(a, p, others, FALSE)
    BY <1>4, <2>1, <2>3, <2>4 DEF Answer, Remaining
  <2>8. /\ stored' \in [Accounts -> Seq(Events)] /\ stored'[a] = p
        /\ \A b \in Accounts \ {a} : stored'[b] = stored[b]
    BY <2>2, <2>6, <2>7 DEF OutboxInv, OutboxType
  <2>9. \A b \in Accounts : AccountOK(b, stored'[b], log'[b], counted'[b])
    BY <1>1, <2>1, <2>6, <2>8 DEF OutboxInv, AccountsInv
  <2>10. ASSUME NEW d \in others
         PROVE  CallOK(d, stored'[d.account], log'[d.account], counted'[d.account])
    <3>1. /\ d.account \in Accounts /\ ~d.waited
          /\ CallOK(d, stored[d.account], log[d.account], counted[d.account])
      BY <1>2, CallFacts
    <3> QED BY <1>1, <3>1 DEF CallOK
  <2>11. OneLoop(others, FALSE)
    BY <1>2 DEF OneLoop
  <2>12. /\ user' \in Accounts \cup {None}
         /\ log' \in [Accounts -> Seq(Events)] /\ counted' \in [Accounts -> Seq(Events)]
         /\ events' = IF user' = None THEN <<>> ELSE stored'[user']
    BY <1>1, <2>2, <2>3, <2>7, <2>8 DEF OutboxInv, OutboxType
  <2>13. Flush(a, stored'[a], others, FALSE) /\ FALSE \in BOOLEAN
    BY <2>7, <2>8
  <2> HIDE DEF others
  <2> QED BY <1>2, <2>2, <2>8, <2>9, <2>10, <2>11, <2>12, <2>13, FlushedOK
<1> QED BY <1>3, <1>4

\* Signing out leaves the stored outboxes alone.
LEMMA SignOutOK ==
  ASSUME OutboxInv, SignOut
  PROVE  OutboxInv'
<1>1. /\ user' = None /\ events' = <<>>
      /\ UNCHANGED <<flushing, calls, stored, log, counted>>
  BY DEF SignOut, server
<1> QED BY <1>1 DEF OutboxInv, OutboxType, AccountsInv, CallsInv, OneLoop

\* Signing in flushes the outbox of the user.
LEMMA SignInOK ==
  ASSUME ListeningAssumption, OutboxInv, NEW account \in Accounts, SignIn(account)
  PROVE  OutboxInv'
<1>1. /\ user' = account /\ events' = stored[account]
      /\ Flush(account, stored[account], calls, flushing)
      /\ UNCHANGED <<stored, log, counted>>
  BY DEF SignIn, server
<1>2. /\ calls \in SUBSET Calls /\ flushing \in BOOLEAN /\ OneLoop(calls, flushing)
      /\ user' \in Accounts \cup {None} /\ user' # None
      /\ stored' \in [Accounts -> Seq(Events)] /\ log' \in [Accounts -> Seq(Events)]
      /\ counted' \in [Accounts -> Seq(Events)]
  BY <1>1 DEF OutboxInv, OutboxType, ListeningAssumption
<1>3. /\ events' = IF user' = None THEN <<>> ELSE stored'[user']
      /\ \A a \in Accounts : AccountOK(a, stored'[a], log'[a], counted'[a])
      /\ \A c \in calls :
           CallOK(c, stored'[c.account], log'[c.account], counted'[c.account])
      /\ Flush(account, stored'[account], calls, flushing)
  BY <1>1, <1>2 DEF OutboxInv, AccountsInv, CallsInv
<1> QED BY <1>2, <1>3, FlushedOK

\* After a reload nobody waits for the calls of before.
LEMMA ReloadOK ==
  ASSUME ListeningAssumption, OutboxInv, Reload
  PROVE  OutboxInv'
<1> DEFINE others == {[c EXCEPT !.waited = FALSE] : c \in {d \in calls : d.state = "sent"}}
<1>1. /\ user' = user /\ user # None /\ events' = stored[user]
      /\ Flush(user, stored[user], others, FALSE)
      /\ UNCHANGED <<stored, log, counted>>
  BY DEF Reload, server
<1>2. ASSUME NEW d \in others
      PROVE  /\ d \in Calls /\ ~d.waited
             /\ CallOK(d, stored[d.account], log[d.account], counted[d.account])
  <2>1. PICK c \in calls : d = [c EXCEPT !.waited = FALSE]
    OBVIOUS
  <2>2. /\ c \in Calls
        /\ CallOK(c, stored[c.account], log[c.account], counted[c.account])
    BY CallFacts
  <2> QED BY <2>1, <2>2, CallUpdated
<1> HIDE DEF others
<1>3. /\ others \in SUBSET Calls /\ OneLoop(others, FALSE) /\ FALSE \in BOOLEAN
  BY <1>2 DEF OneLoop
<1>4. /\ user \in Accounts /\ user' \in Accounts \cup {None}
      /\ stored' \in [Accounts -> Seq(Events)] /\ log' \in [Accounts -> Seq(Events)]
      /\ counted' \in [Accounts -> Seq(Events)]
  BY <1>1 DEF OutboxInv, OutboxType
<1>5. /\ events' = IF user' = None THEN <<>> ELSE stored'[user']
      /\ \A a \in Accounts : AccountOK(a, stored'[a], log'[a], counted'[a])
      /\ \A c \in others :
           CallOK(c, stored'[c.account], log'[c.account], counted'[c.account])
      /\ Flush(user, stored'[user], others, FALSE)
  BY <1>1, <1>2 DEF OutboxInv, AccountsInv
<1> QED BY <1>3, <1>4, <1>5, FlushedOK

-----------------------------------------------------------------------------
\* Every step keeps the invariant.
LEMMA StepOK ==
  ASSUME ListeningAssumption, IInv, [Next]_vars
  PROVE  IInv'
<1>0. 0 \in 0 .. Length
  BY DEF ListeningAssumption
<1>1. CASE PlayerStep
  BY <1>1, PlayerStepOK
<1>2. CASE Retry
  BY <1>2, RetryOK DEF IInv, Retry, element, tracker, TrackerType
<1>3. ASSUME NEW c \in calls, Serve(c) PROVE IInv'
  BY <1>3, ServeOK DEF IInv, Serve, element, tracker, TrackerType
<1>4. ASSUME NEW c \in calls, Answer(c) PROVE IInv'
  BY <1>4, AnswerOK DEF IInv, Answer, element, tracker, TrackerType
<1>5. ASSUME NEW c \in calls, GiveUp(c) PROVE IInv'
  BY <1>5, GiveUpOK DEF IInv, GiveUp, element, tracker, TrackerType
<1>6. CASE SignOut
  BY <1>0, <1>6, SignOutOK DEF IInv, SignOut, tracker, TrackerType
<1>7. CASE Reload
  BY <1>0, <1>7, ReloadOK DEF IInv, Reload, TrackerType
<1>8. ASSUME NEW account \in Accounts, SignIn(account) PROVE IInv'
  BY <1>8, SignInOK DEF IInv, SignIn, element, tracker, TrackerType
<1>9. CASE UNCHANGED vars
  BY <1>9, OutboxUnchanged DEF IInv, vars, element, tracker, server, TrackerType
<1>10. ASSUME NEW account \in Accounts, NEW track \in Tracks,
              Refuse(account, track) \/ Accept(account, track)
       PROVE  IInv'
  <2>1. UNCHANGED <<user, element, tracker, outbox, counted>>
    BY <1>10 DEF Refuse, Accept
  <2> QED BY <2>1, OutboxUnchanged DEF IInv, element, tracker, TrackerType
<1> QED
  BY <1>1, <1>2, <1>3, <1>4, <1>5, <1>6, <1>7, <1>8, <1>9, <1>10
     DEF Next, Network, PlayerStep

\* The first state has the invariant.
LEMMA InitOK ==
  ASSUME ListeningAssumption, Init
  PROVE  IInv
<1>0. 0 \in 0 .. Length /\ None \notin Accounts
  BY DEF ListeningAssumption
<1>1. TrackerType
  BY <1>0 DEF Init, TrackerType
<1>2. OutboxType /\ CallsInv /\ OneLoop(calls, flushing)
  <2>1. PICK s : s = <<>>
    OBVIOUS
  <2>2. s \in Seq(Events)
    BY <2>1
  <2>3. /\ stored = [a \in Accounts |-> s] /\ log = [a \in Accounts |-> s]
        /\ counted = [a \in Accounts |-> s]
        /\ user \in Accounts /\ events = s /\ flushing = FALSE /\ calls = {}
    BY <2>1 DEF Init
  <2>4. stored[user] = s /\ user # None
    BY <1>0, <2>3
  <2> QED BY <2>2, <2>3, <2>4 DEF OutboxType, CallsInv, OneLoop
<1>3. ASSUME NEW a \in Accounts PROVE AccountOK(a, stored[a], log[a], counted[a])
  <2>1. stored[a] = <<>> /\ log[a] = <<>> /\ counted[a] = <<>>
    BY DEF Init
  <2>2. PICK s : s = <<>>
    OBVIOUS
  <2>3. Len(s) = 0 /\ 1..Len(s) = {} /\ 0 \in 0..Len(s)
    BY <2>2
  <2>4. /\ Len(s) = Len(s) - 0
        /\ \A i \in 1..Len(s) : s[i] = s[0 + i]
        /\ \A i \in 1..0 : Contains(s, s[i])
    BY <2>3
  <2>5. AccountOK(a, s, s, s)
    BY <2>3, <2>4 DEF AccountOK
  <2> QED BY <2>1, <2>2, <2>5
<1> QED BY <1>1, <1>2, <1>3 DEF IInv, OutboxInv, AccountsInv

\* Every state has it.
LEMMA Invariance == Spec => []IInv
<1>1. Init => IInv
  BY ListeningAssumption, InitOK
<1>2. IInv /\ [Next]_vars => IInv'
  BY ListeningAssumption, StepOK
<1> QED BY <1>1, <1>2, PTL DEF Spec

\* What is recorded reaches the server once, in order and for the account it
\* was recorded for.
THEOREM ReportsAlwaysCounted == Spec => []ReportsAreCounted
<1>1. IInv => ReportsAreCounted
  <2> SUFFICES ASSUME IInv PROVE ReportsAreCounted
    OBVIOUS
  <2>1. TypeOK
    BY DEF IInv, OutboxInv, OutboxType, TrackerType, TypeOK
  <2>2. ASSUME NEW a \in Accounts
        PROVE  /\ \E n \in 0 .. Len(log[a]) :
                    /\ stored[a] = SubSeq(log[a], n + 1, Len(log[a]))
                    /\ ToSet(SubSeq(log[a], 1, n)) \subseteq ToSet(counted[a])
               /\ \A i, j \in DOMAIN counted[a] :
                    counted[a][i].id = counted[a][j].id => i = j
               /\ ToSet(counted[a]) \subseteq ToSet(log[a])
    <3>1. PICK q, w, k : q = stored[a] /\ w = log[a] /\ k = counted[a]
      OBVIOUS
    <3>2. /\ q \in Seq(Events) /\ w \in Seq(Events) /\ k \in Seq(Events)
          /\ AccountOK(a, q, w, k)
      BY <3>1 DEF IInv, OutboxInv, OutboxType, AccountsInv
    <3>3. /\ Len(w) \in Nat /\ Len(q) \in Nat /\ Len(k) \in Nat
          /\ DOMAIN w = 1..Len(w) /\ DOMAIN k = 1..Len(k) /\ 1 \in Int
          /\ \A i \in 1..Len(w) : w[i] \in Events
      BY <3>2, LenProperties, ElementOfSeq
    <3>4. PICK n \in 0..Len(w) :
            /\ Len(q) = Len(w) - n
            /\ \A i \in 1..Len(q) : q[i] = w[n + i]
            /\ \A i \in 1..n : Contains(k, w[i])
      BY <3>2 DEF AccountOK
    <3>5. q = SubSeq(w, n + 1, Len(w))
      <4>1. PICK m : m = n + 1
        OBVIOUS
      <4>2. PICK p : p = SubSeq(w, m, Len(w))
        OBVIOUS
      <4>3. m \in Int /\ \A i \in m..Len(w) : w[i] \in Events
        BY <3>3, <4>1
      <4>4. /\ p \in Seq(Events)
            /\ Len(p) = IF m <= Len(w) THEN Len(w) - m + 1 ELSE 0
            /\ \A i \in 1..Len(w) - m + 1 : p[i] = w[m + i - 1]
        BY <3>3, <4>2, <4>3, SubSeqProperties
      <4>5. Len(p) = Len(q) /\ Len(w) - m + 1 = Len(q)
        <5>1. /\ Len(q) = Len(w) - n /\ Len(w) \in Nat /\ n \in 0..Len(w)
              /\ Len(p) = IF m <= Len(w) THEN Len(w) - m + 1 ELSE 0
          BY <3>3, <3>4, <4>4
        <5> QED BY <4>1, <5>1
      <4>6. ASSUME NEW i \in 1..Len(q) PROVE q[i] = p[i]
        <5>1. i \in 1..Len(w) - m + 1 /\ i \in Nat
          BY <3>3, <4>5
        <5>2. m + i - 1 = n + i
          BY <4>1, <5>1
        <5>3. p[i] = w[m + i - 1] /\ q[i] = w[n + i]
          BY <3>4, <4>4, <5>1
        <5> QED BY <5>2, <5>3
      <4> QED BY <3>2, <4>1, <4>2, <4>4, <4>5, <4>6, SeqEqual
    <3>6. ToSet(SubSeq(w, 1, n)) \subseteq ToSet(k)
      <4>1. PICK p : p = SubSeq(w, 1, n)
        OBVIOUS
      <4>2. n \in Int /\ \A i \in 1..n : w[i] \in Events
        BY <3>3
      <4>3. /\ p \in Seq(Events) /\ Len(p) = IF 1 <= n THEN n - 1 + 1 ELSE 0
            /\ \A i \in 1..n - 1 + 1 : p[i] = w[1 + i - 1]
        BY <3>3, <4>1, <4>2, SubSeqProperties
      <4>4. Len(p) = n /\ DOMAIN p = 1..n /\ \A i \in 1..n : p[i] = w[i]
        BY <3>3, <4>3, LenProperties
      <4>5. \A i \in 1..n : \E j \in 1..Len(k) : k[j] = w[i]
        BY <3>4 DEF Contains
      <4>6. ToSet(p) \subseteq ToSet(k)
        BY <3>3, <4>4, <4>5 DEF ToSet
      <4> QED BY <4>1, <4>6
    <3>7. ToSet(k) \subseteq ToSet(w)
      <4>1. \A i \in 1..Len(k) : \E j \in 1..Len(w) : w[j] = k[i]
        BY <3>2 DEF AccountOK, Contains
      <4> QED BY <3>3, <4>1 DEF ToSet
    <3>8. \A i, j \in DOMAIN k : k[i].id = k[j].id => i = j
      BY <3>2, <3>3 DEF AccountOK
    <3> QED BY <3>1, <3>5, <3>6, <3>7, <3>8
  <2>3. OutboxIsUncounted /\ CountsOnce
    BY <2>2 DEF OutboxIsUncounted, CountsOnce
  <2> QED BY <2>1, <2>3 DEF ReportsAreCounted
<1> QED BY <1>1, Invariance, PTL

-----------------------------------------------------------------------------
(***************************************************************************)
(* Sums over finite sets.                                                  *)
(***************************************************************************)
OneOf(T) == CHOOSE x \in T : TRUE

Subsets(S, k) == {T \in SUBSET S : Cardinality(T) <= k}

\* What Sum computes for the sets in D.
IsTotal(f, D, total) ==
  total = [T \in D |-> IF T = {} THEN 0 ELSE f[OneOf(T)] + total[T \ {OneOf(T)}]]

\* Subsets of a finite set, and one without an element.
LEMMA SubsetFacts ==
  ASSUME NEW S, IsFiniteSet(S), NEW T \in SUBSET S
  PROVE  /\ IsFiniteSet(T) /\ Cardinality(T) \in Nat
         /\ Cardinality(T) <= Cardinality(S)
         /\ Cardinality(T) = 0 <=> T = {}
         /\ T # {} => OneOf(T) \in T
         /\ \A x \in T : /\ T \ {x} \in SUBSET S
                         /\ Cardinality(T \ {x}) = Cardinality(T) - 1
<1>1. IsFiniteSet(T) /\ Cardinality(T) <= Cardinality(S)
  BY FS_Subset
<1>2. Cardinality(T) \in Nat
  BY <1>1, FS_CardinalityType
<1>3. Cardinality(T) = 0 <=> T = {}
  BY <1>1, FS_EmptySet
<1>4. \A x \in T : Cardinality(T \ {x}) = Cardinality(T) - 1
  BY <1>1, FS_RemoveElement, Zenon
<1>5. T # {} => OneOf(T) \in T
  BY DEF OneOf
<1> QED BY <1>1, <1>2, <1>3, <1>4, <1>5

\* The function that Sum defines exists.
LEMMA TotalExists ==
  ASSUME NEW S, IsFiniteSet(S), NEW f
  PROVE  \E total : IsTotal(f, SUBSET S, total)
<1> DEFINE n == Cardinality(S)
           K == {k \in 0..n : \E total : IsTotal(f, Subsets(S, k), total)}
<1>0. n \in Nat
  BY FS_CardinalityType
<1>1. 0 \in K
  <2> DEFINE t == [T \in Subsets(S, 0) |-> 0]
  <2>1. \A T \in Subsets(S, 0) : T = {}
    BY SubsetFacts DEF Subsets
  <2>2. t = [T \in Subsets(S, 0) |->
               IF T = {} THEN 0 ELSE f[OneOf(T)] + t[T \ {OneOf(T)}]]
    BY <2>1
  <2> HIDE DEF t
  <2>3. IsTotal(f, Subsets(S, 0), t)
    BY <2>2 DEF IsTotal
  <2> QED BY <1>0, <2>3
<1>2. ASSUME NEW k \in 0..n - 1, k \in K PROVE k + 1 \in K
  <2>1. PICK t : IsTotal(f, Subsets(S, k), t)
    BY <1>2
  <2>2. \A T \in Subsets(S, k) :
          t[T] = IF T = {} THEN 0 ELSE f[OneOf(T)] + t[T \ {OneOf(T)}]
    BY <2>1 DEF IsTotal
  <2> DEFINE D == Subsets(S, k + 1)
             g == [T \in D |-> IF T \in Subsets(S, k) THEN t[T]
                               ELSE f[OneOf(T)] + t[T \ {OneOf(T)}]]
             h == [T \in D |-> IF T = {} THEN 0
                               ELSE f[OneOf(T)] + g[T \ {OneOf(T)}]]
  <2>3. ASSUME NEW T \in D PROVE g[T] = h[T]
    <3>1. /\ T \in SUBSET S /\ Cardinality(T) <= k + 1 /\ Cardinality(T) \in Nat
          /\ k \in Nat
      BY <1>0, SubsetFacts DEF Subsets
    <3>2. CASE T = {}
      <4>1. T \in Subsets(S, k)
        BY <3>1, <3>2, SubsetFacts DEF Subsets
      <4> QED BY <2>2, <3>2, <4>1
    <3>3. CASE T # {}
      <4>1. PICK x : x = OneOf(T)
        OBVIOUS
      <4>2. /\ x \in T /\ T \ {x} \in SUBSET S
            /\ Cardinality(T \ {x}) = Cardinality(T) - 1
        BY <3>1, <3>3, <4>1, SubsetFacts
      <4>3. T \ {x} \in Subsets(S, k) /\ T \ {x} \in D
        BY <3>1, <4>2 DEF Subsets
      <4>4. g[T \ {x}] = t[T \ {x}]
        BY <4>3
      <4>5. g[T] = f[x] + t[T \ {x}]
        BY <2>2, <3>3, <4>1
      <4>6. h[T] = f[x] + g[T \ {x}]
        BY <3>3, <4>1
      <4> QED BY <4>4, <4>5, <4>6
    <3> QED BY <3>2, <3>3
  <2>4. g = h
    BY <2>3
  <2>5. g = [T \in D |-> IF T = {} THEN 0
                         ELSE f[OneOf(T)] + g[T \ {OneOf(T)}]]
    BY <2>4
  <2> HIDE DEF g, h
  <2>6. IsTotal(f, Subsets(S, k + 1), g)
    BY <2>5 DEF IsTotal
  <2> QED BY <1>0, <1>2, <2>6
<1> HIDE DEF K
<1>3. n \in K
  <2>1. \A k \in 0..n : k \in K
    BY <1>0, <1>1, <1>2, HoldsUpTo
  <2> QED BY <1>0, <2>1
<1>4. Subsets(S, n) = SUBSET S
  BY SubsetFacts DEF Subsets
<1> QED BY <1>3, <1>4 DEF K

\* Sum is that function, of the whole set.
LEMMA SumIsTotal ==
  ASSUME NEW S, IsFiniteSet(S), NEW f
  PROVE  \E total : IsTotal(f, SUBSET S, total) /\ Sum(f, S) = total[S]
<1>1. Sum(f, S) = (CHOOSE total : IsTotal(f, SUBSET S, total))[S]
  BY DEF Sum, IsTotal, OneOf
<1>2. PICK t : t = CHOOSE total : IsTotal(f, SUBSET S, total)
  OBVIOUS
<1>3. IsTotal(f, SUBSET S, t)
  BY <1>2, TotalExists
<1>4. Sum(f, S) = t[S]
  BY <1>1, <1>2
<1> QED BY <1>3, <1>4

\* The total of a set is a number, and any element may be added last.
LEMMA AnyLast ==
  ASSUME NEW S, IsFiniteSet(S), NEW f, \A x \in S : f[x] \in Nat,
         NEW t, IsTotal(f, SUBSET S, t)
  PROVE  \A T \in SUBSET S : t[T] \in Nat /\ \A y \in T : t[T] = f[y] + t[T \ {y}]
<1> DEFINE n == Cardinality(S)
           Fine(T) == t[T] \in Nat /\ \A y \in T : t[T] = f[y] + t[T \ {y}]
           K == {k \in 0..n : \A T \in Subsets(S, k) : Fine(T)}
<1>0. n \in Nat
  BY FS_CardinalityType
<1>t. \A T \in SUBSET S :
        t[T] = IF T = {} THEN 0 ELSE f[OneOf(T)] + t[T \ {OneOf(T)}]
  BY DEF IsTotal
<1>1. 0 \in K
  <2>1. \A T \in Subsets(S, 0) : T = {} /\ T \in SUBSET S
    BY SubsetFacts DEF Subsets
  <2>2. \A T \in Subsets(S, 0) : t[T] = 0 /\ T = {}
    BY <1>t, <2>1
  <2>3. \A T \in Subsets(S, 0) : Fine(T)
    BY <2>2
  <2> HIDE DEF Fine
  <2> QED BY <1>0, <2>3
<1>2. ASSUME NEW k \in 0..n - 1, k \in K PROVE k + 1 \in K
  <2>1. ASSUME NEW T \in Subsets(S, k + 1) PROVE Fine(T)
    <3>1. /\ T \in SUBSET S /\ Cardinality(T) <= k + 1 /\ Cardinality(T) \in Nat
          /\ k \in Nat
      BY <1>0, SubsetFacts DEF Subsets
    <3>2. CASE T = {}
      BY <1>t, <3>1, <3>2
    <3>3. CASE T # {}
      <4>1. PICK x : x = OneOf(T)
        OBVIOUS
      <4>2. x \in T /\ t[T] = f[x] + t[T \ {x}] /\ f[x] \in Nat
        BY <1>t, <3>1, <3>3, <4>1, SubsetFacts
      <4>3. \A y \in T : Fine(T \ {y})
        <5>1. \A y \in T : T \ {y} \in Subsets(S, k)
          BY <3>1, SubsetFacts DEF Subsets
        <5> HIDE DEF Fine
        <5> QED BY <1>2, <5>1
      <4>4. t[T] \in Nat
        <5>1. t[T \ {x}] \in Nat
          BY <4>2, <4>3
        <5> QED BY <4>2, <5>1
      <4>5. ASSUME NEW y \in T PROVE t[T] = f[y] + t[T \ {y}]
        <5>1. CASE y = x
          BY <4>2, <5>1
        <5>2. CASE y # x
          <6>1. PICK U : U = (T \ {x}) \ {y}
            OBVIOUS
          <6>2. U = (T \ {y}) \ {x} /\ y \in T \ {x} /\ x \in T \ {y}
            BY <4>2, <5>2, <6>1
          <6>3. t[T \ {x}] = f[y] + t[U]
            BY <4>2, <4>3, <6>1, <6>2
          <6>4. t[T \ {y}] = f[x] + t[U]
            BY <4>3, <6>2
          <6>5. f[y] \in Nat /\ t[U] \in Nat
            <7>1. U \in Subsets(S, k)
              <8>1. T \ {x} \in SUBSET S /\ Cardinality(T \ {x}) = Cardinality(T) - 1
                BY <3>1, <4>2, SubsetFacts
              <8>2. /\ U \in SUBSET S
                    /\ Cardinality(U) = Cardinality(T \ {x}) - 1
                    /\ Cardinality(U) \in Nat
                BY <6>1, <6>2, <8>1, SubsetFacts
              <8> QED BY <3>1, <8>1, <8>2 DEF Subsets
            <7>2. f[y] \in Nat
              BY <3>1
            <7> QED BY <1>2, <7>1, <7>2
          <6> QED BY <4>2, <6>3, <6>4, <6>5
        <5> QED BY <5>1, <5>2
      <4> QED BY <4>4, <4>5
    <3> QED BY <3>2, <3>3
  <2> HIDE DEF Fine
  <2> QED BY <1>0, <2>1
<1> HIDE DEF K
<1>3. n \in K
  <2>1. \A k \in 0..n : k \in K
    BY <1>0, <1>1, <1>2, HoldsUpTo
  <2> QED BY <1>0, <2>1
<1>4. \A T \in SUBSET S : T \in Subsets(S, n)
  BY SubsetFacts DEF Subsets
<1> QED BY <1>3, <1>4 DEF K

\* Two totals agree where the functions do.
LEMMA TotalsAgree ==
  ASSUME NEW S, IsFiniteSet(S), NEW D, NEW E, SUBSET S \subseteq D, SUBSET S \subseteq E,
         NEW f, NEW g, \A x \in S : f[x] = g[x],
         NEW t, IsTotal(f, D, t), NEW u, IsTotal(g, E, u)
  PROVE  t[S] = u[S]
<1> DEFINE n == Cardinality(S)
           K == {k \in 0..n : \A T \in Subsets(S, k) : t[T] = u[T]}
<1>0. n \in Nat
  BY FS_CardinalityType
<1>t. \A T \in SUBSET S :
        /\ t[T] = IF T = {} THEN 0 ELSE f[OneOf(T)] + t[T \ {OneOf(T)}]
        /\ u[T] = IF T = {} THEN 0 ELSE g[OneOf(T)] + u[T \ {OneOf(T)}]
  BY DEF IsTotal
<1>1. 0 \in K
  <2>1. \A T \in Subsets(S, 0) : T = {} /\ T \in SUBSET S
    BY SubsetFacts DEF Subsets
  <2>2. \A T \in Subsets(S, 0) : t[T] = 0 /\ u[T] = 0
    BY <1>t, <2>1
  <2> QED BY <1>0, <2>2
<1>2. ASSUME NEW k \in 0..n - 1, k \in K PROVE k + 1 \in K
  <2>1. ASSUME NEW T \in Subsets(S, k + 1) PROVE t[T] = u[T]
    <3>1. /\ T \in SUBSET S /\ Cardinality(T) <= k + 1 /\ Cardinality(T) \in Nat
          /\ k \in Nat
      BY <1>0, SubsetFacts DEF Subsets
    <3>2. CASE T = {}
      BY <1>t, <3>1, <3>2
    <3>3. CASE T # {}
      <4>1. PICK x : x = OneOf(T)
        OBVIOUS
      <4>2. x \in T /\ x \in S /\ T \ {x} \in Subsets(S, k)
        BY <3>1, <3>3, <4>1, SubsetFacts DEF Subsets
      <4>3. t[T \ {x}] = u[T \ {x}] /\ f[x] = g[x]
        BY <1>2, <4>2
      <4> QED BY <1>t, <3>1, <3>3, <4>1, <4>3
    <3> QED BY <3>2, <3>3
  <2> QED BY <1>0, <2>1
<1> HIDE DEF K
<1>3. n \in K
  <2>1. \A k \in 0..n : k \in K
    BY <1>0, <1>1, <1>2, HoldsUpTo
  <2> QED BY <1>0, <2>1
<1>4. S \in Subsets(S, n)
  BY SubsetFacts DEF Subsets
<1> QED BY <1>3, <1>4 DEF K

\* A sum depends on the values only, and one more element adds its own.
LEMMA SumFacts ==
  ASSUME NEW S, IsFiniteSet(S), NEW f, \A x \in S : f[x] \in Nat, NEW g,
         \A x \in S : g[x] = f[x]
  PROVE  /\ Sum(f, S) \in Nat
         /\ Sum(g, S) = Sum(f, S)
         /\ \A y : y \notin S /\ g[y] \in Nat => Sum(g, S \cup {y}) = Sum(f, S) + g[y]
<1>1. PICK t : IsTotal(f, SUBSET S, t) /\ Sum(f, S) = t[S]
  BY SumIsTotal
<1>2. PICK u : IsTotal(g, SUBSET S, u) /\ Sum(g, S) = u[S]
  BY SumIsTotal
<1>3. t[S] \in Nat
  BY <1>1, AnyLast
<1>4. u[S] = t[S]
  <2>1. PICK D : D = SUBSET S
    OBVIOUS
  <2>2. IsTotal(f, D, t) /\ IsTotal(g, D, u) /\ SUBSET S \subseteq D
    BY <1>1, <1>2, <2>1
  <2> QED BY <2>2, TotalsAgree
<1>5. ASSUME NEW y, y \notin S, g[y] \in Nat
      PROVE  Sum(g, S \cup {y}) = Sum(f, S) + g[y]
  <2>1. PICK R : R = S \cup {y}
    OBVIOUS
  <2>2. IsFiniteSet(R) /\ R \ {y} = S /\ y \in R /\ \A x \in R : g[x] \in Nat
    BY <1>5, <2>1, FS_AddElement
  <2>3. PICK v : IsTotal(g, SUBSET R, v) /\ Sum(g, R) = v[R]
    BY <2>2, SumIsTotal
  <2>4. v[R] = g[y] + v[S]
    BY <2>2, <2>3, AnyLast
  <2>5. v[S] = t[S]
    <3>1. PICK D, E : D = SUBSET R /\ E = SUBSET S
      OBVIOUS
    <3>2. IsTotal(g, D, v) /\ IsTotal(f, E, t) /\ SUBSET S \subseteq D
          /\ SUBSET S \subseteq E
      BY <1>1, <2>1, <2>3, <3>1
    <3> QED BY <3>2, TotalsAgree
  <2> QED BY <1>1, <1>3, <1>5, <2>1, <2>3, <2>4, <2>5
<1> QED BY <1>1, <1>2, <1>3, <1>4, <1>5

-----------------------------------------------------------------------------
(***************************************************************************)
(* What was recorded of a track, as the logs grow.                         *)
(***************************************************************************)
Places(logs, track) ==
  UNION {{a} \X {i \in DOMAIN logs[a] : logs[a][i].track = track} : a \in Accounts}

UnitsAt(logs, S) == [at \in S |-> logs[at[1]][at[2]].units]

Total(logs, track) == Sum(UnitsAt(logs, Places(logs, track)), Places(logs, track))

\* A place in the logs is an account and an index.
LEMMA PlaceFacts ==
  ASSUME NEW logs \in [Accounts -> Seq(Events)], NEW track, NEW at
  PROVE  at \in Places(logs, track) <=>
           \E a \in Accounts : \E i \in 1..Len(logs[a]) :
             at = <<a, i>> /\ logs[a][i].track = track
<1>1. \A a \in Accounts : DOMAIN logs[a] = 1..Len(logs[a])
  BY LenProperties
<1> QED BY <1>1 DEF Places

\* The units at these places are numbers.
LEMMA UnitsFacts ==
  ASSUME NEW logs \in [Accounts -> Seq(Events)], NEW track,
         NEW at \in Places(logs, track)
  PROVE  logs[at[1]][at[2]].units \in Nat
<1>0. PICK a \in Accounts : \E i \in 1..Len(logs[a]) : at = <<a, i>>
  BY PlaceFacts
<1>1. PICK i \in 1..Len(logs[a]) : at = <<a, i>>
  BY <1>0
<1>2. logs[a][i] \in Events
  BY ElementOfSeq
<1> QED BY <1>1, <1>2 DEF Events

\* One more event in the log of an account.
IsGrown(logs, a, e, grown) ==
  /\ grown \in [Accounts -> Seq(Events)]
  /\ grown[a] = logs[a] \o <<e>>
  /\ \A b \in Accounts \ {a} : grown[b] = logs[b]

GrewBy(more, units, e, track) ==
  more = units + IF e.track = track THEN e.units ELSE 0

\* Its track has its units more.
LEMMA TotalGrows ==
  ASSUME NEW logs \in [Accounts -> Seq(Events)], NEW a \in Accounts, NEW e \in Events,
         NEW track, IsFiniteSet(Places(logs, track)),
         NEW grown, IsGrown(logs, a, e, grown)
  PROVE  /\ IsFiniteSet(Places(grown, track))
         /\ Total(logs, track) \in Nat
         /\ GrewBy(Total(grown, track), Total(logs, track), e, track)
<1>1. PICK w, v : w = logs[a] /\ v = w \o <<e>>
  OBVIOUS
<1>2. PICK m : m = Len(w) + 1
  OBVIOUS
<1>3. /\ w \in Seq(Events) /\ Len(w) \in Nat /\ Len(v) = m /\ m \in Nat
      /\ \A i \in 1..Len(w) : v[i] = w[i]
      /\ v[m] = e
  BY <1>1, <1>2, OneMore, LenProperties
<1>4. grown[a] = v /\ \A b \in Accounts \ {a} : grown[b] = logs[b]
  BY <1>1 DEF IsGrown
<1>5. PICK P, R, y : P = Places(logs, track) /\ R = Places(grown, track) /\ y = <<a, m>>
  OBVIOUS
<1>6. \A at : at \in P <=> \E b \in Accounts : \E i \in 1..Len(logs[b]) :
                             at = <<b, i>> /\ logs[b][i].track = track
  <2>1. \A at : at \in Places(logs, track) <=>
                  \E b \in Accounts : \E i \in 1..Len(logs[b]) :
                    at = <<b, i>> /\ logs[b][i].track = track
    BY PlaceFacts
  <2> QED BY <1>5, <2>1
<1>7. \A at : at \in R <=> \E b \in Accounts : \E i \in 1..Len(grown[b]) :
                             at = <<b, i>> /\ grown[b][i].track = track
  <2>1. \A at : at \in Places(grown, track) <=>
                  \E b \in Accounts : \E i \in 1..Len(grown[b]) :
                    at = <<b, i>> /\ grown[b][i].track = track
    <3>1. grown \in [Accounts -> Seq(Events)]
      BY DEF IsGrown
    <3> QED BY <3>1, PlaceFacts
  <2> QED BY <1>5, <2>1
<1>8. y \notin P
  <2> SUFFICES ASSUME NEW b \in Accounts, NEW i \in 1..Len(logs[b]), y = <<b, i>>
               PROVE  FALSE
    BY <1>6
  <2>1. <<a, m>> = <<b, i>>
    BY <1>5
  <2>2. b = a /\ i = m
    BY <2>1
  <2> QED BY <1>1, <1>2, <1>3, <2>2
<1>9. ASSUME NEW at \in P
      PROVE  at \in R /\ grown[at[1]][at[2]] = logs[at[1]][at[2]]
  <2>a. PICK b \in Accounts : \E i \in 1..Len(logs[b]) :
          at = <<b, i>> /\ logs[b][i].track = track
    BY <1>6
  <2>1. PICK i \in 1..Len(logs[b]) : at = <<b, i>> /\ logs[b][i].track = track
    BY <2>a
  <2>2. i \in 1..Len(grown[b]) /\ grown[b][i] = logs[b][i]
    BY <1>1, <1>2, <1>3, <1>4
  <2> QED BY <1>7, <2>1, <2>2
<1>10. ASSUME NEW at \in R PROVE at \in P \/ (at = y /\ e.track = track)
  <2>a. PICK b \in Accounts : \E i \in 1..Len(grown[b]) :
          at = <<b, i>> /\ grown[b][i].track = track
    BY <1>7
  <2>1. PICK i \in 1..Len(grown[b]) : at = <<b, i>> /\ grown[b][i].track = track
    BY <2>a
  <2>2. CASE b = a /\ i = m
    BY <1>3, <1>4, <1>5, <2>1, <2>2
  <2>3. CASE ~(b = a /\ i = m)
    <3>1. i \in 1..Len(logs[b]) /\ grown[b][i] = logs[b][i]
      BY <1>1, <1>2, <1>3, <1>4, <2>3
    <3> QED BY <1>6, <2>1, <3>1
  <2> QED BY <2>2, <2>3
<1>11. e.track = track => y \in R
  <2>1. m \in 1..Len(grown[a]) /\ grown[a][m] = e
    BY <1>2, <1>3, <1>4
  <2> QED BY <1>5, <1>7, <2>1
<1>12. R = IF e.track = track THEN P \cup {y} ELSE P
  BY <1>9, <1>10, <1>11
<1>13. PICK f, g : f = UnitsAt(logs, P) /\ g = UnitsAt(grown, R)
  OBVIOUS
<1>14. IsFiniteSet(P) /\ Total(logs, track) = Sum(f, P) /\ Total(grown, track) = Sum(g, R)
  BY <1>5, <1>13 DEF Total
<1>15. \A at \in P : f[at] \in Nat /\ g[at] = f[at]
  <2>1. \A at \in P : logs[at[1]][at[2]].units \in Nat
    BY <1>5, UnitsFacts
  <2>2. \A at \in P : f[at] = logs[at[1]][at[2]].units
    BY <1>13 DEF UnitsAt
  <2>3. \A at \in R : g[at] = grown[at[1]][at[2]].units
    BY <1>13 DEF UnitsAt
  <2>4. \A at \in P : g[at] = f[at]
    BY <1>9, <2>2, <2>3
  <2> QED BY <2>1, <2>2, <2>4
<1>16. Sum(f, P) \in Nat /\ Sum(g, P) = Sum(f, P)
       /\ \A z : z \notin P /\ g[z] \in Nat => Sum(g, P \cup {z}) = Sum(f, P) + g[z]
  BY <1>14, <1>15, SumFacts
<1>17. CASE e.track = track
  <2>1. g[y] = e.units /\ e.units \in Nat
    <3>1. y \in R /\ y[1] = a /\ y[2] = m
      BY <1>5, <1>11, <1>17
    <3>2. g[y] = grown[y[1]][y[2]].units
      BY <1>13, <3>1 DEF UnitsAt
    <3> QED BY <1>3, <1>4, <3>1, <3>2 DEF Events
  <2>2. R = P \cup {y} /\ IsFiniteSet(R)
    BY <1>12, <1>14, <1>17, FS_AddElement
  <2>3. Sum(g, R) = Sum(f, P) + e.units
    BY <1>8, <1>16, <2>1, <2>2
  <2> QED BY <1>5, <1>14, <1>16, <1>17, <2>2, <2>3 DEF GrewBy
<1>18. CASE e.track # track
  <2>1. R = P
    BY <1>12, <1>18
  <2>2. Sum(g, R) = Sum(f, P) + 0
    BY <1>16, <2>1
  <2> QED BY <1>5, <1>14, <1>16, <1>18, <2>1, <2>2 DEF GrewBy
<1> QED BY <1>17, <1>18

\* No events yet.
LEMMA NothingRecorded ==
  ASSUME NEW logs, logs = [a \in Accounts |-> <<>>], NEW track
  PROVE  IsFiniteSet(Places(logs, track)) /\ Total(logs, track) = 0
<1>1. \A a \in Accounts : DOMAIN logs[a] = {}
  BY DEF Places
<1>2. Places(logs, track) = {}
  BY <1>1 DEF Places
<1>3. PICK f : f = UnitsAt(logs, {})
  OBVIOUS
<1>4. PICK S : S = {} /\ IsFiniteSet(S)
  BY FS_EmptySet
<1>5. PICK t : IsTotal(f, SUBSET S, t) /\ Sum(f, S) = t[S]
  BY <1>4, SumIsTotal
<1>6. t[S] = 0
  BY <1>4, <1>5 DEF IsTotal
<1> QED BY <1>2, <1>3, <1>4, <1>5, <1>6 DEF Total

-----------------------------------------------------------------------------
(***************************************************************************)
(* What the tracker has heard.                                             *)
(***************************************************************************)

\* What would be recorded of the tracked track now.
Due == HeardAt(position)

Share(track) == IF tracked = track THEN Due ELSE 0

\* What may be reported of a track.
Allowed(track) == played[track] + MaxGap * chosen[track]

HeardInv == \A t \in Tracks : Total(log, t) + Share(t) <= Allowed(t)

LogsInv == \A t \in Tracks : IsFiniteSet(Places(log, t)) /\ Total(log, t) \in Nat

TimesType == played \in [Tracks -> Nat] /\ chosen \in [Tracks -> Nat]

\* What is shown is what is tracked.
ListenedInv == IInv /\ tracked = current /\ TimesType /\ LogsInv /\ HeardInv

\* What is due is a time, and what was heard before.
LEMMA DueFacts ==
  ASSUME ListeningAssumption, TrackerType
  PROVE  Due \in Nat /\ heard \in Nat /\ heard <= Due
<1>1. Length \in Nat
  BY DEF ListeningAssumption
<1>2. CASE last = None
  BY <1>2 DEF Due, HeardAt, TrackerType
<1>3. CASE last # None
  <2>1. last \in Nat /\ position \in Nat /\ heard \in Nat
    BY <1>1, <1>3 DEF TrackerType
  <2>2. PlaybackDelta(last, position) \in Nat
    BY <2>1 DEF PlaybackDelta
  <2>3. HeardAt(position) = heard + PlaybackDelta(last, position)
    BY <1>3 DEF HeardAt
  <2> QED BY <2>1, <2>2, <2>3 DEF Due
<1> QED BY <1>2, <1>3

\* The same of the state a step leads to: a gap at most beyond what was heard,
\* and nothing beyond it where the tracker knows the position.
LEMMA DueNext ==
  ASSUME ListeningAssumption, TrackerType'
  PROVE  /\ Due' \in Nat /\ heard' \in Nat /\ Due' <= heard' + MaxGap
         /\ last' = position' => Due' = heard'
<1>1. Length \in Nat /\ MaxGap \in Nat
  BY DEF ListeningAssumption
<1>2. PICK h, l, p, d : h = heard' /\ l = last' /\ p = position' /\ d = Due'
  OBVIOUS
<1>3. h \in Nat /\ p \in Nat /\ (l = None \/ l \in Nat)
  BY <1>1, <1>2 DEF TrackerType
<1>4. d = h + IF l = None THEN 0 ELSE PlaybackDelta(l, p)
  BY <1>2 DEF Due, HeardAt, PlaybackDelta
<1>5. CASE l = None
  <2>1. d = h + 0
    BY <1>4, <1>5
  <2>2. d = h
    BY <1>3, <2>1
  <2>3. d \in Nat /\ d <= h + MaxGap /\ (l = p => d = h)
    BY <1>1, <1>3, <2>2
  <2> QED BY <1>2, <1>3, <2>3
<1>6. CASE l # None
  <2>1. PICK x : x = PlaybackDelta(l, p)
    OBVIOUS
  <2>2. x \in Nat /\ x <= MaxGap /\ (l = p => x = 0)
    BY <1>1, <1>3, <1>6, <2>1 DEF PlaybackDelta
  <2>3. d = h + x
    BY <1>4, <1>6, <2>1
  <2>4. d \in Nat /\ d <= h + MaxGap /\ (l = p => d = h)
    BY <1>1, <1>3, <2>2, <2>3
  <2> QED BY <1>2, <1>3, <2>4
<1> QED BY <1>5, <1>6

\* No other events: the sums stay.
LEMMA LogUnchanged ==
  ASSUME LogsInv, log' = log
  PROVE  LogsInv' /\ \A t \in Tracks : Total(log, t)' = Total(log, t)
BY DEF LogsInv, Places, Total, UnitsAt

\* What may be reported is a time.
LEMMA AllowedType ==
  ASSUME ListeningAssumption, TimesType, NEW t \in Tracks
  PROVE  Allowed(t) \in Nat
<1>1. PICK p, c : p = played[t] /\ c = chosen[t]
  OBVIOUS
<1>2. p \in Nat /\ c \in Nat /\ MaxGap \in Nat
  BY <1>1 DEF TimesType, ListeningAssumption
<1>3. MaxGap * c \in Nat
  BY <1>2
<1> QED BY <1>1, <1>2, <1>3 DEF Allowed

\* One event is recorded, or none: its track has no more units more than
\* were heard of it.
LEMMA RecordCounts ==
  ASSUME ListeningAssumption, OutboxType, LogsInv, user \in Accounts,
         NEW track \in Tracks \cup {None}, NEW units \in Nat,
         Record(NewEvents(track, units)), (log \in [Accounts -> Seq(Events)])'
  PROVE  LogsInv' /\ \A t \in Tracks :
           Total(log, t)' <= Total(log, t) + IF track = t THEN units ELSE 0
<1>1. CASE log' = log
  <2>1. LogsInv' /\ \A t \in Tracks : Total(log, t)' = Total(log, t)
    BY <1>1, LogUnchanged
  <2>2. \A t \in Tracks : Total(log, t) \in Nat
    BY DEF LogsInv
  <2> QED BY <2>1, <2>2
<1>2. CASE log' # log
  <2>1. /\ NewEvents(track, units) # <<>>
        /\ log' = [log EXCEPT ![user] = @ \o NewEvents(track, units)]
    BY <1>2 DEF Record, outbox
  <2>2. PICK e : e = [id |-> <<user, Len(log[user]) + 1>>, track |-> track, units |-> units]
    OBVIOUS
  <2>3. NewEvents(track, units) = <<e>> /\ e.track = track /\ e.units = units
    BY <2>1, <2>2 DEF NewEvents
  <2>4. e \in Events
    <3>1. PICK new : new = NewEvents(track, units)
      OBVIOUS
    <3>2. IsNew(new)
      BY <3>1, NewEventsAreNew
    <3>3. new = <<e>>
      BY <2>3, <3>1
    <3>4. PICK d \in Events : new = <<d>>
      BY <2>1, <3>1, <3>2 DEF IsNew
    <3>5. d = e
      BY <3>3, <3>4
    <3> QED BY <3>4, <3>5
  <2>5. PICK a, old, grown : a = user /\ old = log /\ grown = log'
    OBVIOUS
  <2>6. /\ a \in Accounts /\ old \in [Accounts -> Seq(Events)]
        /\ grown \in [Accounts -> Seq(Events)]
        /\ grown[a] = old[a] \o <<e>> /\ \A b \in Accounts \ {a} : grown[b] = old[b]
    BY <2>1, <2>3, <2>5 DEF OutboxType
  <2>7. \A t \in Tracks : IsFiniteSet(Places(old, t))
    BY <2>5 DEF LogsInv
  <2>8. \A t \in Tracks :
          /\ IsFiniteSet(Places(grown, t)) /\ Total(old, t) \in Nat
          /\ GrewBy(Total(grown, t), Total(old, t), e, t)
    <3> SUFFICES ASSUME NEW t \in Tracks
                 PROVE  /\ IsFiniteSet(Places(grown, t)) /\ Total(old, t) \in Nat
                        /\ GrewBy(Total(grown, t), Total(old, t), e, t)
      OBVIOUS
    <3>1. IsFiniteSet(Places(old, t))
      BY <2>7
    <3>2. IsGrown(old, a, e, grown)
      BY <2>6 DEF IsGrown
    <3> QED BY <2>4, <2>6, <3>1, <3>2, TotalGrows
  <2>9. \A t \in Tracks :
          /\ IsFiniteSet(Places(log', t)) /\ Total(log', t) \in Nat
          /\ Total(log', t) <= Total(log, t) + IF track = t THEN units ELSE 0
    BY <2>3, <2>5, <2>8 DEF GrewBy
  <2>10. \A t \in Tracks : Total(log', t) = Total(log, t)' /\ Places(log', t) = Places(log, t)'
    BY DEF Total, Places, UnitsAt
  <2> QED BY <2>9, <2>10 DEF LogsInv
<1> QED BY <1>1, <1>2

\* Nothing is recorded, and no more is due of the tracked track.
LEMMA LessHeard ==
  ASSUME LogsInv, HeardInv, TimesType, ListeningAssumption, TrackerType, TrackerType',
         log' = log, played' = played, chosen' = chosen,
         tracked' \in {tracked, None}, Due' <= Due
  PROVE  TimesType' /\ LogsInv' /\ HeardInv'
<1>1. LogsInv' /\ \A t \in Tracks : Total(log, t)' = Total(log, t)
  BY LogUnchanged
<1>2. Due \in Nat /\ Due' \in Nat /\ None \notin Tracks
  BY DueFacts, DueNext DEF ListeningAssumption
<1>3. ASSUME NEW t \in Tracks PROVE (Total(log, t) + Share(t) <= Allowed(t))'
  <2>1. PICK n, m, p, q : /\ n = Total(log, t) /\ m = Allowed(t) /\ p = Share(t)
                          /\ q = Share(t)'
    OBVIOUS
  <2>2. /\ n + p <= m /\ n \in Nat /\ m \in Nat
        /\ Total(log, t)' = n /\ Allowed(t)' = m
    BY <1>1, <2>1, AllowedType DEF LogsInv, HeardInv, Allowed
  <2>3. p \in Nat /\ q \in Nat /\ q <= p
    BY <1>2, <2>1 DEF Share
  <2>4. n + q <= m
    BY <2>2, <2>3
  <2> QED BY <2>1, <2>2, <2>4
<1>4. TimesType'
  BY DEF TimesType
<1> QED BY <1>1, <1>3, <1>4 DEF HeardInv

\* What was heard is recorded, and what is due afterwards was allowed anew.
LEMMA AllRecorded ==
  ASSUME IInv, IInv', LogsInv, HeardInv, TimesType, TimesType', ListeningAssumption,
         user \in Accounts, Record(NewEvents(tracked, HeardAt(position))),
         \A t \in Tracks : Allowed(t) + Share(t)' <= Allowed(t)'
  PROVE  LogsInv' /\ HeardInv'
<1>1. Due \in Nat /\ Due' \in Nat /\ tracked \in Tracks \cup {None}
  BY DueFacts, DueNext DEF IInv, TrackerType
<1>2. PICK units : units = Due
  OBVIOUS
<1>3. LogsInv' /\ \A t \in Tracks :
        Total(log, t)' <= Total(log, t) + IF tracked = t THEN units ELSE 0
  <2>1. OutboxType /\ (log \in [Accounts -> Seq(Events)])'
    BY DEF IInv, OutboxInv, OutboxType
  <2>2. PICK x : x = tracked
    OBVIOUS
  <2>3. x \in Tracks \cup {None} /\ units \in Nat /\ Record(NewEvents(x, units))
    BY <1>1, <1>2, <2>2 DEF Due
  <2>4. LogsInv' /\ \A t \in Tracks :
          Total(log, t)' <= Total(log, t) + IF x = t THEN units ELSE 0
    BY <2>1, <2>3, RecordCounts
  <2> QED BY <2>2, <2>4
<1>4. ASSUME NEW t \in Tracks PROVE (Total(log, t) + Share(t) <= Allowed(t))'
  <2>1. PICK n, m, p, l, q, r : /\ n = Total(log, t) /\ m = Allowed(t) /\ p = Share(t)
                                /\ l = Total(log, t)' /\ q = Share(t)' /\ r = Allowed(t)'
    OBVIOUS
  <2>2. /\ n + p <= m /\ n \in Nat /\ m \in Nat /\ l \in Nat /\ m + q <= r
    BY <1>3, <2>1, AllowedType DEF LogsInv, HeardInv
  <2>3. p = IF tracked = t THEN units ELSE 0
    BY <1>2, <2>1 DEF Share
  <2>4. l <= n + p
    BY <1>3, <2>1, <2>3
  <2>5. p \in Nat
    BY <1>1, <1>2, <2>3
  <2>6. q \in Nat
    BY <1>1, <2>1 DEF Share
  <2>7. r \in Nat
    <3>1. PICK a, c : a = (played[t])' /\ c = (chosen[t])'
      OBVIOUS
    <3>2. a \in Nat /\ c \in Nat /\ MaxGap \in Nat
      BY <3>1 DEF TimesType, ListeningAssumption
    <3>3. MaxGap * c \in Nat /\ r = a + MaxGap * c
      BY <2>1, <3>1, <3>2 DEF Allowed
    <3> QED BY <3>2, <3>3
  <2>8. l + q <= r
    BY <2>2, <2>4, <2>5, <2>6, <2>7
  <2> QED BY <2>1, <2>8
<1> QED BY <1>3, <1>4 DEF HeardInv

\* The tracker goes on with the same track, and nothing is due of it.
LEMMA SameTrack ==
  ASSUME IInv, IInv', LogsInv, HeardInv, TimesType, ListeningAssumption,
         user \in Accounts, Record(NewEvents(tracked, HeardAt(position))),
         heard' = 0, last' = position', played' = played, chosen' = chosen
  PROVE  TimesType' /\ LogsInv' /\ HeardInv'
<1>1. Due' = 0
  BY DueNext DEF IInv
<1>2. TimesType'
  BY DEF TimesType
<1>3. ASSUME NEW t \in Tracks PROVE Allowed(t) + Share(t)' <= Allowed(t)'
  <2>1. PICK m : m = Allowed(t)
    OBVIOUS
  <2>2. m \in Nat /\ Allowed(t)' = m /\ Share(t)' = 0
    BY <1>1, <2>1, AllowedType DEF Allowed, Share
  <2> QED BY <2>1, <2>2
<1> QED BY <1>2, <1>3, AllRecorded

\* It starts with another one, of which a gap may be due at once.
LEMMA OtherTrack ==
  ASSUME IInv, IInv', LogsInv, HeardInv, TimesType, ListeningAssumption,
         user \in Accounts, Record(NewEvents(tracked, HeardAt(position))),
         NEW next \in Tracks, Reset(next), played' = played
  PROVE  TimesType' /\ LogsInv' /\ HeardInv'
<1>1. /\ tracked' = next /\ heard' = 0
      /\ chosen' = [chosen EXCEPT ![next] = @ + 1]
  BY DEF Reset
<1>2. Due' \in Nat /\ Due' <= MaxGap /\ MaxGap \in Nat
  BY <1>1, DueNext DEF IInv, ListeningAssumption
<1>3. TimesType'
  BY <1>1 DEF TimesType
<1>4. ASSUME NEW t \in Tracks PROVE Allowed(t) + Share(t)' <= Allowed(t)'
  <2>1. PICK p, c, m : p = played[t] /\ c = chosen[t] /\ m = Allowed(t)
    OBVIOUS
  <2>2. p \in Nat /\ c \in Nat /\ m \in Nat /\ m = p + MaxGap * c /\ MaxGap * c \in Nat
    BY <1>2, <2>1, AllowedType DEF TimesType, Allowed
  <2>3. CASE t = next
    <3>1. Share(t)' = Due' /\ (chosen[t])' = c + 1 /\ (played[t])' = p
      BY <1>1, <2>1, <2>3 DEF Share, TimesType
    <3>2. MaxGap * (c + 1) = MaxGap * c + MaxGap
      BY <1>2, <2>2
    <3>3. Allowed(t)' = p + (MaxGap * c + MaxGap)
      BY <3>1, <3>2 DEF Allowed
    <3> QED BY <1>2, <2>1, <2>2, <3>1, <3>3
  <2>4. CASE t # next
    <3>1. Share(t)' = 0 /\ Allowed(t)' = m
      BY <1>1, <2>1, <2>4 DEF Share, Allowed, TimesType
    <3> QED BY <2>1, <2>2, <3>1
  <2> QED BY <2>3, <2>4
<1> QED BY <1>3, <1>4, AllRecorded

\* The element plays on: a unit more is due at most.
LEMMA AdvanceHeard ==
  ASSUME ListenedInv, IInv', ListeningAssumption, Advance
  PROVE  TimesType' /\ LogsInv' /\ HeardInv'
<1>1. /\ position' = position + 1 /\ played' = [played EXCEPT ![current] = @ + 1]
      /\ UNCHANGED <<tracked, heard, last, chosen, log>> /\ tracked = current
  BY DEF ListenedInv, Advance, tracker, outbox
<1>2. TimesType'
  <2>1. played \in [Tracks -> Nat] /\ chosen' \in [Tracks -> Nat]
    BY <1>1 DEF ListenedInv, TimesType
  <2>2. played' \in [Tracks -> Nat]
    <3>1. PICK f, c, g : f = played /\ c = current /\ g = played'
      OBVIOUS
    <3>2. f \in [Tracks -> Nat] /\ g = [f EXCEPT ![c] = @ + 1]
      BY <1>1, <2>1, <3>1
    <3>3. g = [t \in Tracks |-> IF t = c THEN f[t] + 1 ELSE f[t]]
      BY <3>2
    <3>4. \A t \in Tracks : f[t] \in Nat /\ f[t] + 1 \in Nat
      BY <3>2
    <3> QED BY <3>1, <3>3, <3>4
  <2> QED BY <2>1, <2>2 DEF TimesType
<1>3. LogsInv' /\ \A t \in Tracks : Total(log, t)' = Total(log, t)
  BY <1>1, LogUnchanged DEF ListenedInv
<1>4. Due \in Nat /\ Due' \in Nat /\ Due' <= Due + 1
  <2>1. Due \in Nat /\ Due' \in Nat
    BY DueFacts, DueNext DEF ListenedInv, IInv
  <2>2. /\ position \in Nat /\ heard \in Nat /\ MaxGap \in Nat
        /\ last # None => last \in Nat
    BY DEF ListenedInv, IInv, TrackerType, ListeningAssumption
  <2>3. CASE last = None
    BY <1>1, <2>2, <2>3 DEF Due, HeardAt
  <2>4. CASE last # None
    <3>1. /\ PlaybackDelta(last, position + 1) <= PlaybackDelta(last, position) + 1
          /\ PlaybackDelta(last, position + 1) \in Nat
          /\ PlaybackDelta(last, position) \in Nat
      BY <2>2, <2>4 DEF PlaybackDelta
    <3>2. /\ Due = heard + PlaybackDelta(last, position)
          /\ Due' = heard + PlaybackDelta(last, position + 1)
      BY <1>1, <2>4 DEF Due, HeardAt, PlaybackDelta
    <3> QED BY <2>2, <3>1, <3>2
  <2> QED BY <2>1, <2>3, <2>4
<1>5. ASSUME NEW t \in Tracks PROVE (Total(log, t) + Share(t) <= Allowed(t))'
  <2>1. PICK n, p, g, d, e : /\ n = Total(log, t) /\ p = played[t]
                             /\ g = MaxGap * chosen[t] /\ d = Due /\ e = Due'
    OBVIOUS
  <2>2. /\ n + Share(t) <= p + g /\ n \in Nat /\ p \in Nat /\ Total(log, t)' = n
    BY <1>3, <2>1 DEF ListenedInv, LogsInv, HeardInv, Allowed, TimesType
  <2>3. g \in Nat
    <3>1. PICK c : c = chosen[t]
      OBVIOUS
    <3>2. c \in Nat /\ MaxGap \in Nat
      BY <3>1 DEF ListenedInv, TimesType, ListeningAssumption
    <3> QED BY <2>1, <3>1, <3>2
  <2>4. CASE t = current
    <3>1. /\ Share(t) = d /\ Share(t)' = e /\ (played[t])' = p + 1
      BY <1>1, <2>1, <2>4 DEF Share, ListenedInv, TimesType
    <3>2. Allowed(t)' = p + 1 + g
      BY <1>1, <2>1, <3>1 DEF Allowed
    <3>3. n + e <= p + 1 + g
      BY <1>4, <2>1, <2>2, <2>3, <3>1
    <3> QED BY <2>2, <3>1, <3>2, <3>3
  <2>5. CASE t # current
    <3>1. Share(t) = 0 /\ Share(t)' = 0 /\ (played[t])' = p
      BY <1>1, <2>1, <2>5 DEF Share, ListenedInv, TimesType
    <3>2. Allowed(t)' = p + g
      BY <1>1, <2>1, <3>1 DEF Allowed
    <3> QED BY <2>2, <2>3, <3>1, <3>2
  <2> QED BY <2>4, <2>5
<1> QED BY <1>2, <1>3, <1>5 DEF HeardInv

\* Every step keeps the listening sound.
LEMMA ListenedStep ==
  ASSUME ListeningAssumption, ListenedInv, [Next]_vars
  PROVE  ListenedInv'
<1>0. /\ IInv' /\ TrackerType /\ TrackerType' /\ LogsInv /\ HeardInv /\ IInv
      /\ TimesType /\ tracked = current
      /\ Length \in Nat /\ None \notin Tracks \cup Accounts
      /\ user # None => user \in Accounts
  BY StepOK DEF ListenedInv, IInv, ListeningAssumption, OutboxInv, OutboxType
<1>d. /\ Due \in Nat /\ heard \in Nat /\ heard <= Due /\ Due' \in Nat
      /\ last' = position' => Due' = heard'
  BY <1>0, DueFacts, DueNext
<1>a. ASSUME UNCHANGED <<played, chosen, log>>, tracked' = current',
             tracked' \in {tracked, None}, Due' <= Due
      PROVE  ListenedInv'
  BY <1>0, <1>a, LessHeard DEF ListenedInv
<1>b. ASSUME UNCHANGED <<tracked, current, played, chosen>>, user \in Accounts,
             Record(NewEvents(tracked, HeardAt(position))),
             heard' = 0, last' = position'
      PROVE  ListenedInv'
  BY <1>0, <1>b, SameTrack DEF ListenedInv
<1>c. ASSUME UNCHANGED <<element, tracker, log>> PROVE ListenedInv'
  <2>1. Due' = Due
    BY <1>c DEF Due, HeardAt, PlaybackDelta, element, tracker
  <2> QED BY <1>0, <1>a, <1>c, <1>d, <2>1 DEF element, tracker
<1>e. ASSUME user \in Accounts, Record(NewEvents(tracked, HeardAt(position))),
             NEW next \in Tracks, Reset(next), played' = played, current' = next
      PROVE  ListenedInv'
  <2>1. tracked' = current'
    BY <1>e DEF Reset
  <2> QED BY <1>0, <1>e, <2>1, OtherTrack DEF ListenedInv
<1>1. CASE Advance
  <2>1. tracked' = current'
    BY <1>0, <1>1 DEF Advance, tracker
  <2> QED BY <1>0, <1>1, <2>1, AdvanceHeard DEF ListenedInv
<1>2. CASE TimeUpdate
  <2>1. Due' = heard' /\ heard' = Due
    BY <1>d, <1>2 DEF TimeUpdate, element, Due
  <2> QED BY <1>0, <1>2, <1>a, <1>d, <2>1 DEF TimeUpdate, element, outbox
<1>3. CASE Pause
  <2>1. /\ user \in Accounts /\ FlushListening(position) /\ position' = position
        /\ UNCHANGED <<current, played>>
    BY <1>0, <1>3 DEF Pause
  <2>2. CASE tracked = None
    <3>1. Due' = Due /\ UNCHANGED <<tracked, log, chosen>>
      BY <2>1, <2>2 DEF FlushListening, tracker, outbox, Due, HeardAt, PlaybackDelta
    <3> QED BY <1>0, <1>a, <1>d, <2>1, <3>1
  <2>3. CASE tracked # None
    BY <1>b, <2>1, <2>3 DEF FlushListening
  <2> QED BY <2>2, <2>3
<1>4. CASE Resume
  <2>1. Due' = heard' /\ heard' = heard
    BY <1>d, <1>4 DEF Resume
  <2> QED BY <1>0, <1>4, <1>a, <1>d, <2>1 DEF Resume, outbox
<1>5. CASE Stream
  <2>1. Due' = heard' /\ heard' = heard
    BY <1>d, <1>5 DEF Stream
  <2> QED BY <1>0, <1>5, <1>a, <1>d, <2>1 DEF Stream, outbox
<1>6. ASSUME NEW to \in 0 .. Length, Seek(to) PROVE ListenedInv'
  <2>1. Due' = heard' /\ heard' = heard
    BY <1>d, <1>6 DEF Seek
  <2> QED BY <1>0, <1>6, <1>a, <1>d, <2>1 DEF Seek, outbox
<1>7. ASSUME NEW track \in Tracks, Choose(track) PROVE ListenedInv'
  <2>1. /\ current' = track /\ StartTracking(track) /\ user \in Accounts
        /\ UNCHANGED <<position, played>>
    BY <1>0, <1>7 DEF Choose
  <2>2. CASE tracked = track
    <3>1. UNCHANGED <<tracked, heard, last, chosen, log>>
      BY <2>1, <2>2 DEF StartTracking, tracker, outbox
    <3>2. Due' = Due
      BY <2>1, <3>1 DEF Due, HeardAt, PlaybackDelta
    <3> QED BY <1>a, <1>d, <2>1, <2>2, <3>1, <3>2
  <2>3. CASE tracked # track
    <3>1. /\ Record(IF tracked = None THEN <<>> ELSE NewEvents(tracked, HeardAt(position)))
          /\ Reset(track)
      BY <2>1, <2>3 DEF StartTracking
    <3>2. Record(NewEvents(tracked, HeardAt(position)))
      BY <3>1 DEF NewEvents
    <3> QED BY <1>e, <2>1, <3>1, <3>2
  <2> QED BY <2>2, <2>3
<1>8. ASSUME NEW next \in Tracks \cup {None}, Ended(next) PROVE ListenedInv'
  <2>1. /\ user \in Accounts /\ played' = played
        /\ Record(NewEvents(tracked, HeardAt(position)))
    BY <1>0, <1>8 DEF Ended
  <2>2. CASE next \in {None, current}
    <3>1. UNCHANGED <<tracked, current, chosen>> /\ heard' = 0 /\ last' = position'
      BY <1>8, <2>2 DEF Ended
    <3> QED BY <1>b, <2>1, <3>1
  <2>3. CASE next \notin {None, current}
    <3>1. next \in Tracks /\ Reset(next) /\ current' = next
      BY <1>8, <2>3 DEF Ended
    <3> QED BY <1>e, <2>1, <3>1
  <2> QED BY <2>2, <2>3
<1>9. CASE StreamFails
  <2>1. Due' = Due /\ UNCHANGED <<tracked, current, played, chosen, log>>
    BY <1>9 DEF StreamFails, Due, HeardAt, PlaybackDelta, tracker, outbox
  <2> QED BY <1>0, <1>a, <1>d, <2>1
<1>10. CASE Retry
  BY <1>10, <1>c DEF Retry
<1>11. ASSUME NEW c \in calls, Serve(c) PROVE ListenedInv'
  BY <1>11, <1>c DEF Serve
<1>12. ASSUME NEW c \in calls, Answer(c) PROVE ListenedInv'
  BY <1>12, <1>c DEF Answer
<1>13. ASSUME NEW c \in calls, GiveUp(c) PROVE ListenedInv'
  BY <1>13, <1>c DEF GiveUp
<1>14. ASSUME NEW account \in Accounts, NEW track \in Tracks,
              Refuse(account, track) \/ Accept(account, track)
       PROVE  ListenedInv'
  BY <1>14, <1>c DEF Refuse, Accept, outbox
<1>15. CASE SignOut
  <2>1. /\ position' = 0 /\ UNCHANGED <<tracked, current, heard, last, played, chosen, log>>
    BY <1>15 DEF SignOut, tracker
  <2>2. Due' = heard
    <3>1. Due' = heard + IF last = None THEN 0 ELSE PlaybackDelta(last, 0)
      BY <2>1 DEF Due, HeardAt, PlaybackDelta
    <3>2. (IF last = None THEN 0 ELSE PlaybackDelta(last, 0)) = 0
      BY <1>0 DEF PlaybackDelta, TrackerType
    <3>3. heard + 0 = heard
      BY <1>d
    <3> QED BY <3>1, <3>2, <3>3
  <2> QED BY <1>0, <1>a, <1>d, <2>1, <2>2
<1>16. CASE Reload
  <2>1. /\ heard' = 0 /\ last' = None /\ tracked' = None /\ current' = None
        /\ UNCHANGED <<played, chosen, log>>
    BY <1>16 DEF Reload
  <2>2. Due' = 0
    <3>1. Due' = 0 + 0
      BY <2>1 DEF Due, HeardAt
    <3> QED BY <3>1
  <2> QED BY <1>a, <1>d, <2>1, <2>2
<1>17. ASSUME NEW account \in Accounts, SignIn(account) PROVE ListenedInv'
  BY <1>17, <1>c DEF SignIn
<1>18. CASE UNCHANGED vars
  BY <1>18, <1>c DEF vars, outbox
<1> QED
  BY <1>1, <1>2, <1>3, <1>4, <1>5, <1>6, <1>7, <1>8, <1>9, <1>10, <1>11, <1>12,
     <1>13, <1>14, <1>15, <1>16, <1>17, <1>18 DEF Next, Network

\* Nothing is heard at first.
LEMMA ListenedInit ==
  ASSUME ListeningAssumption, Init
  PROVE  ListenedInv
<1>1. IInv
  BY InitOK
<1>2. tracked = None /\ current = None /\ TimesType /\ None \notin Tracks
  BY DEF Init, TimesType, ListeningAssumption
<1>3. PICK logs : logs = log
  OBVIOUS
<1>4. \A t \in Tracks : IsFiniteSet(Places(logs, t)) /\ Total(logs, t) = 0
  BY <1>3, NothingRecorded DEF Init
<1>5. \A t \in Tracks : IsFiniteSet(Places(log, t)) /\ Total(log, t) = 0
  BY <1>3, <1>4
<1>6. LogsInv
  BY <1>5 DEF LogsInv
<1>7. \A t \in Tracks : Allowed(t) \in Nat
  BY <1>2, AllowedType
<1>8. HeardInv
  BY <1>2, <1>5, <1>7 DEF HeardInv, Share
<1> QED BY <1>1, <1>2, <1>6, <1>8 DEF ListenedInv

\* No more is ever recorded or due than was played, and allowed.
LEMMA ListenedInvariance == Spec => []ListenedInv
<1>1. Init => ListenedInv
  BY ListeningAssumption, ListenedInit
<1>2. ListenedInv /\ [Next]_vars => ListenedInv'
  BY ListeningAssumption, ListenedStep
<1> QED BY <1>1, <1>2, PTL DEF Spec

\* Of no track more is reported than sounded while it was the current one and a
\* gap for every time it became that, whatever is chosen, paused and sought,
\* whether or not streams come, and whoever signs in.
THEOREM NothingUnheardIsReported == Spec => []ReportedWasPlayed
<1>1. ListenedInv => ReportedWasPlayed
  <2> SUFFICES ASSUME ListenedInv, NEW t \in Tracks
               PROVE  Units(t) + (IF tracked = t THEN heard ELSE 0)
                        <= played[t] + MaxGap * chosen[t]
    BY DEF ReportedWasPlayed
  <2>1. Units(t) = Total(log, t) /\ Allowed(t) = played[t] + MaxGap * chosen[t]
    BY DEF Units, Total, UnitsAt, Of, Places, Allowed
  <2>2. Due \in Nat /\ heard \in Nat /\ heard <= Due
    BY ListeningAssumption, DueFacts DEF ListenedInv, IInv
  <2>3. PICK n, m, s : n = Total(log, t) /\ m = Allowed(t) /\ s = Share(t)
    OBVIOUS
  <2>4. n \in Nat /\ m \in Nat /\ n + s <= m
    BY <2>3, ListeningAssumption, AllowedType DEF ListenedInv, LogsInv, HeardInv
  <2>5. PICK h : h = IF tracked = t THEN heard ELSE 0
    OBVIOUS
  <2>6. s \in Nat /\ h \in Nat /\ h <= s
    BY <2>2, <2>3, <2>5 DEF Share
  <2>7. n + h <= m
    BY <2>4, <2>6
  <2> QED BY <2>1, <2>3, <2>5, <2>7
<1> QED BY <1>1, ListenedInvariance, PTL
=============================================================================
