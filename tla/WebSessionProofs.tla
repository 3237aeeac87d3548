-------------------------- MODULE WebSessionProofs --------------------------
(***************************************************************************)
(* Proofs about WebSession, for every set of tabs, every number of         *)
(* requests under way and of sessions, and however many faults.            *)
(***************************************************************************)
EXTENDS WebSession, FiniteSetTheorems, TLAPS

USE SessionAssumption DEF Replies

-----------------------------------------------------------------------------
(***************************************************************************)
(* The inductive invariant.                                                *)
(***************************************************************************)

\* A request is of a page that a tab shows or has shown; only a request
\* that carries credentials is refused; a sign-in gives a known session.
CallOK(c) ==
  /\ c = [n |-> c.n, tab |-> c.tab, page |-> c.page, kind |-> c.kind,
          token |-> c.token, reply |-> c.reply, session |-> c.session]
  /\ c.tab \in Tabs /\ c.page \in Nat /\ c.page <= tab[c.tab].page
  /\ c.kind \in Kinds
  /\ c.reply = "refused" => c.kind \in {"me", "login", "logout", "tracks"}
  /\ c.kind = "login" /\ c.reply = "ok" => c.session \in 1 .. created

CallsOK == IsFiniteSet(calls) /\ \A c \in calls : CallOK(c)

\* The requests of the page that a tab shows now.
Current(t) == {c \in calls : c.tab = t /\ c.page = tab[t].page}

\* While bootstrapAuth runs it has the page to itself: no answer of another
\* request of the page can come in between, and none comes to the error page.
\* The session it looks up has not been ended by its own page.
BootsAlone(t) ==
  /\ tab[t].view = "error" => Current(t) = {}
  /\ \A c \in Current(t) :
       c.kind \in {"status", "me"} =>
         /\ tab[t].view = "checking" /\ Current(t) = {c}
         /\ c.kind = "me" /\ token = None => cleared # t

\* What holds of the page of one tab: only a form is being sent, and in the
\* app there is a session, a list, and a request for what is being loaded.
PageOK(t) ==
  /\ BootsAlone(t)
  /\ tab[t].submitting => tab[t].view \in FormViews
  /\ tab[t].view = "authenticated" =>
       /\ token = None => cleared # t
       /\ tab[t].shown \/ tab[t].loading \/ tab[t].failed
       /\ tab[t].loading => \E c \in Current(t) : c.kind = "tracks"

IInv == TypeOK /\ CallsOK /\ \A t \in Tabs : PageOK(t)

-----------------------------------------------------------------------------
(***************************************************************************)
(* Requests.                                                               *)
(***************************************************************************)

\* Requests stay what they are while pages and sessions only become more.
LEMMA CallsStayOK ==
  ASSUME IInv, NEW rest \in SUBSET calls,
         created' \in Nat, created <= created',
         \A t \in Tabs : tab'[t].page \in Nat /\ tab[t].page <= tab'[t].page
  PROVE  \A c \in rest : CallOK(c)'
<1> SUFFICES ASSUME NEW c \in rest PROVE CallOK(c)'
  OBVIOUS
<1>1. CallOK(c) /\ created \in Nat /\ tab[c.tab].page \in Nat
  BY DEF IInv, CallsOK, CallOK, TypeOK, Tab
<1> QED
  BY <1>1 DEF CallOK

\* The page of a tab depends on its own requests only.
LEMMA OtherPageOK ==
  ASSUME IInv, NEW u \in Tabs, tab'[u] = tab[u],
         \A c : c.tab = u => (c \in calls' <=> c \in calls),
         token' = None => (token = None /\ cleared' = cleared) \/ cleared' # u
  PROVE  PageOK(u)'
<1>1. Current(u)' = Current(u)
  BY DEF Current
<1> QED
  BY <1>1 DEF IInv, PageOK, BootsAlone

\* One more request, where there is room.
LEMMA OneMore ==
  ASSUME NEW S, IsFiniteSet(S), Room(S), NEW c
  PROVE  IsFiniteSet(S \cup {c}) /\ Cardinality(S \cup {c}) <= MaxCalls
<1>1. Cardinality(S) \in Nat /\ Cardinality(S) < MaxCalls
  BY FS_CardinalityType DEF Room
<1>2. /\ IsFiniteSet(S \cup {c})
      /\ Cardinality(S \cup {c}) = Cardinality(S)
           \/ Cardinality(S \cup {c}) = Cardinality(S) + 1
  BY FS_AddElement
<1> QED
  BY <1>1, <1>2

\* Where a request has been taken away there is room.
LEMMA RoomForOne ==
  ASSUME IInv, NEW c \in calls
  PROVE  /\ calls \ {c} \in SUBSET calls /\ IsFiniteSet(calls \ {c})
         /\ Room(calls \ {c})
<1>1. Cardinality(calls) \in Nat /\ Cardinality(calls) <= MaxCalls
  BY FS_CardinalityType DEF IInv, CallsOK, TypeOK
<1>2. IsFiniteSet(calls \ {c}) /\ Cardinality(calls \ {c}) = Cardinality(calls) - 1
  BY FS_RemoveElement DEF IInv, CallsOK
<1> QED
  BY <1>1, <1>2 DEF Room

-----------------------------------------------------------------------------
(***************************************************************************)
(* A step of one page: it removes some of its requests, sends at most one, *)
(* and may remove or store the token.                                      *)
(***************************************************************************)
LEMMA PageStep ==
  ASSUME IInv, NEW t \in Tabs, NEW page \in Tab, NEW rest \in SUBSET calls,
         tab' = [tab EXCEPT ![t] = page], tab[t].page <= page.page,
         \A c \in calls \ rest : c.tab = t,
         \/ calls' = rest
         \/ /\ Room(rest)
            /\ \E kind \in Kinds : \E tok : calls' = Sent(rest, t, page.page, kind, tok),
         UNCHANGED server,
         Keep \/ Clear(t) \/ (token' \in 1 .. created /\ cleared' = None),
         PageOK(t)'
  PROVE  IInv'
<1>1. /\ created \in Nat /\ tab \in [Tabs -> Tab] /\ tab' \in [Tabs -> Tab]
      /\ \A u \in Tabs : tab'[u] = IF u = t THEN page ELSE tab[u]
      /\ \A u \in Tabs : tab'[u].page \in Nat /\ tab[u].page <= tab'[u].page
  BY DEF IInv, TypeOK, Tab
<1>2. IsFiniteSet(rest) /\ Cardinality(rest) <= MaxCalls
  <2>1. IsFiniteSet(rest) /\ Cardinality(rest) <= Cardinality(calls)
    BY FS_Subset DEF IInv, CallsOK
  <2> QED
    BY <2>1, FS_CardinalityType DEF IInv, CallsOK, TypeOK
<1>3. \A c \in rest : CallOK(c)'
  BY <1>1, CallsStayOK DEF server
<1>4. /\ IsFiniteSet(calls') /\ Cardinality(calls') <= MaxCalls
      /\ \A c \in calls' : CallOK(c)'
      /\ \A c : c.tab # t => (c \in calls' <=> c \in calls)
  <2>1. CASE calls' = rest
    BY <2>1, <1>2, <1>3
  <2>2. CASE /\ Room(rest)
             /\ \E kind \in Kinds : \E tok : calls' = Sent(rest, t, page.page, kind, tok)
    <3>0. PICK kind \in Kinds : \E tok : calls' = Sent(rest, t, page.page, kind, tok)
      BY <2>2
    <3>1. PICK tok : calls' = Sent(rest, t, page.page, kind, tok)
      BY <3>0
    <3>2. PICK n : calls' = rest \cup
            {[n |-> n, tab |-> t, page |-> page.page, kind |-> kind,
              token |-> tok, reply |-> None, session |-> None]}
      BY <3>1 DEF Sent
    <3> DEFINE r == [n |-> n, tab |-> t, page |-> page.page, kind |-> kind,
                     token |-> tok, reply |-> None, session |-> None]
    <3>3. CallOK(r)'
      BY <1>1 DEF CallOK, Tab
    <3>4. r.tab = t
      OBVIOUS
    <3> HIDE DEF r
    <3>5. IsFiniteSet(calls') /\ Cardinality(calls') <= MaxCalls
      BY <3>2, <2>2, <1>2, OneMore DEF r
    <3>6. calls' = rest \cup {r}
      BY <3>2 DEF r
    <3>7. \A c \in calls' : CallOK(c)'
      BY <3>6, <3>3, <1>3
    <3> QED
      BY <3>4, <3>5, <3>6, <3>7
  <2> QED
    BY <2>1, <2>2
<1>5. TypeOK'
  <2>1. token' \in (1 .. created) \cup {None}
    BY DEF IInv, TypeOK, Keep, Clear
  <2> QED
    BY <2>1, <1>1, <1>4 DEF IInv, TypeOK, server, CallOK
<1>6. ASSUME NEW u \in Tabs, u # t PROVE PageOK(u)'
  <2>1. tab'[u] = tab[u] /\ \A c : c.tab = u => (c \in calls' <=> c \in calls)
    BY <1>1, <1>4, <1>6
  <2>2. token' = None => (token = None /\ cleared' = cleared) \/ cleared' # u
    BY <1>6 DEF Keep, Clear, IInv, TypeOK
  <2> QED
    BY <2>1, <2>2, OtherPageOK
<1> QED
  BY <1>4, <1>5, <1>6 DEF IInv, CallsOK

\* The requests of a page that stays, when some are done.
LEMMA CurrentShrinks ==
  ASSUME NEW t \in Tabs, NEW rest \in SUBSET calls, tab'[t].page = tab[t].page,
         calls' = rest
  PROVE  Current(t)' = Current(t) \cap rest
BY DEF Current

-----------------------------------------------------------------------------
(***************************************************************************)
(* An answer reaches its page.                                             *)
(***************************************************************************)
LEMMA ReceiveOK ==
  ASSUME IInv, NEW c \in calls, Receive(c),
         NEW t, t = c.tab, NEW rest, rest = calls \ {c}
  PROVE  IInv'
<1>1. /\ t \in Tabs /\ tab[t] \in Tab /\ c \in Current(t) /\ PageOK(t)
      /\ tab \in [Tabs -> Tab] /\ c.kind \in Kinds
  BY DEF IInv, CallsOK, CallOK, TypeOK, Current, Receive
<1>2. /\ rest \in SUBSET calls /\ Room(rest)
      /\ \A d \in calls \ rest : d.tab = t
  BY RoomForOne
<1>3. /\ \A d \in Current(t) \cap rest : d.kind \notin {"status", "me"}
      /\ tab[t].view # "error"
      /\ c.kind \in {"status", "me"} =>
           /\ Current(t) \cap rest = {} /\ tab[t].view = "checking"
           /\ ~tab[t].submitting
           /\ c.kind = "me" /\ token = None => cleared # t
  BY <1>1 DEF PageOK, BootsAlone, FormViews
<1>4. /\ UNCHANGED server 
      /\ c.reply = "refused" => c.kind \in {"me", "login", "logout", "tracks"}
      /\ c.kind = "login" /\ c.reply = "ok" => c.session \in 1 .. created
  BY DEF Receive, IInv, CallsOK, CallOK
<1>5. ASSUME NEW page \in Tab, page.page = tab[t].page, Becomes(t, page),
             \/ calls' = rest
             \/ \E kind \in Kinds : \E tok : calls' = Sent(rest, t, tab[t].page, kind, tok),
             Keep \/ Clear(t) \/ (token' \in 1 .. created /\ cleared' = None),
             PageOK(t)'
      PROVE  IInv'
  <2>1. tab[t].page \in Nat
    BY <1>1 DEF Tab
  <2>2. tab' = [tab EXCEPT ![t] = page] /\ tab[t].page <= page.page
    BY <1>5, <2>1 DEF Becomes
  <2>3. \/ calls' = rest
        \/ /\ Room(rest)
           /\ \E kind \in Kinds : \E tok : calls' = Sent(rest, t, page.page, kind, tok)
    BY <1>2, <1>5
  <2> QED
    BY <1>1, <1>2, <1>4, <1>5, <2>2, <2>3, PageStep
\* The page waits for one answer less.
<1>6. ASSUME NEW page \in Tab, page.page = tab[t].page, Becomes(t, page), calls' = rest,
             Keep \/ Clear(t),
             page.view = "error" => c.kind \in {"status", "me"},
             page.submitting => page.view \in FormViews,
             page.view = "authenticated" =>
               /\ token' = None => cleared' # t
               /\ page.shown \/ page.loading \/ page.failed
               /\ page.loading => \E d \in Current(t) \cap rest : d.kind = "tracks"
      PROVE  IInv'
  <2>1. tab'[t] = page
    BY <1>1, <1>6 DEF Becomes
  <2>2. Current(t)' = Current(t) \cap rest
    BY <1>1, <1>2, <1>6, <2>1, CurrentShrinks
  <2>3. PageOK(t)'
    BY <2>1, <2>2, <1>3, <1>6 DEF PageOK, BootsAlone
  <2> QED
    BY <2>3, <1>5, <1>6
\* The answer makes the page send another request.
<1>7. ASSUME NEW page \in Tab, page.page = tab[t].page, Becomes(t, page),
             NEW kind \in Kinds, NEW tok, calls' = Sent(rest, t, tab[t].page, kind, tok),
             Keep \/ (token' \in 1 .. created /\ cleared' = None),
             page.view # "error", kind # "status",
             kind = "me" => page.view = "checking" /\ Current(t) \cap rest = {} /\ token' # None,
             page.submitting => page.view \in FormViews,
             page.view = "authenticated" =>
               /\ token' = None => cleared' # t
               /\ page.shown \/ page.loading \/ page.failed
               /\ page.loading =>
                    kind = "tracks" \/ \E d \in Current(t) \cap rest : d.kind = "tracks"
      PROVE  IInv'
  <2>1. tab'[t] = page
    BY <1>1, <1>7 DEF Becomes
  <2>2. PICK r : /\ r.kind = kind /\ r.tab = t /\ r.page = tab[t].page
                 /\ calls' = rest \cup {r}
    BY <1>7 DEF Sent
  <2>3. Current(t)' = (Current(t) \cap rest) \cup {r}
    BY <1>2, <1>7, <2>1, <2>2 DEF Current
  <2>4. PageOK(t)'
    BY <2>1, <2>2, <2>3, <1>3, <1>7 DEF PageOK, BootsAlone
  <2> QED
    BY <2>4, <1>5, <1>7
<1>8. CASE c.reply = "refused" /\ Refused(t, c.kind, rest)
  <2>1. c.kind \in {"me", "login", "logout", "tracks"}
    BY <1>4, <1>8
  <2>2. Clear(t) /\ calls' = rest
    BY <1>8 DEF Refused
  <2>3. Unauthorized(tab[t]) \in Tab /\ Unauthorized(tab[t]).page = tab[t].page
    BY <1>1 DEF Unauthorized, SignedOut, Shows, Tab, Views
  <2>4. /\ Unauthorized(tab[t]).view \in {"login", tab[t].view}
        /\ Unauthorized(tab[t]).submitting => Unauthorized(tab[t]).view \in FormViews
        /\ Unauthorized(tab[t]).view = "authenticated" =>
             token = None /\ Unauthorized(tab[t]) = tab[t]
    BY <1>1 DEF Unauthorized, SignedOut, Shows, Tab, Views, FormViews, PageOK
  <2> DEFINE u == Unauthorized(tab[t])
  <2>5. CASE c.kind \in {"me", "logout"}
    <3>1. Becomes(t, SignedOut(u))
      BY <2>5, <1>8 DEF Refused
    <3>2. /\ SignedOut(u) \in Tab /\ SignedOut(u).page = tab[t].page
          /\ SignedOut(u).view = "login"
      BY <2>3 DEF SignedOut, Shows, Tab, Views
    <3> QED
      BY <2>2, <3>1, <3>2, <1>6 DEF FormViews
  <2>6. CASE c.kind = "login"
    <3> DEFINE p == [u EXCEPT !.submitting = FALSE,
                          !.error = @ \/ token = None \/ tab[t].view # "register"]
    <3>1. Becomes(t, p)
      BY <2>6, <1>8 DEF Refused
    <3>2. /\ p \in Tab /\ p.page = u.page /\ p.view = u.view /\ ~p.submitting
          /\ p.shown = u.shown /\ p.loading = u.loading /\ p.failed = u.failed
      BY <2>3 DEF Tab
    <3> HIDE DEF p
    <3>3. p.view # "error"
      BY <3>2, <2>4, <1>3
    <3>4. p.view = "authenticated" =>
            /\ token' = None => cleared' # t
            /\ p.shown \/ p.loading \/ p.failed
            /\ p.loading => \E d \in Current(t) \cap rest : d.kind = "tracks"
      BY <3>2, <2>2, <2>4, <2>6, <1>1 DEF PageOK, Clear, Current
    <3> QED
      BY <2>2, <2>3, <3>1, <3>2, <3>3, <3>4, <1>6
  <2>7. CASE c.kind = "tracks"
    <3> DEFINE p == [u EXCEPT !.loading = FALSE, !.failed = TRUE]
    <3>1. Becomes(t, p)
      BY <2>7, <1>8 DEF Refused
    <3>2. /\ p \in Tab /\ p.page = u.page /\ p.view = u.view
          /\ p.submitting = u.submitting /\ ~p.loading /\ p.failed
      BY <2>3 DEF Tab
    <3> HIDE DEF p
    <3>3. p.view # "error"
      BY <3>2, <2>4, <1>3
    <3>4. p.view = "authenticated" => (token' = None => cleared' # t)
      BY <3>2, <2>2, <2>4, <1>1 DEF PageOK, Clear
    <3> QED
      BY <2>2, <2>3, <2>4, <3>1, <3>2, <3>3, <3>4, <1>6
  <2> QED
    BY <2>1, <2>5, <2>6, <2>7
<1>9. CASE /\ c.kind = "status" /\ c.reply \in {"yes", "no"}
           /\ StatusKnown(t, c.reply = "yes", rest)
  <2>1. ASSUME NEW v \in FormViews
        PROVE  Shows(tab[t], v) \in Tab /\ Shows(tab[t], v).page = tab[t].page
                 /\ Shows(tab[t], v).view = v
    BY <1>1 DEF Shows, Tab, Views, FormViews
  <2>2. CASE c.reply # "yes"
    BY <1>9, <2>1, <2>2, <1>6 DEF StatusKnown, FormViews
  <2>3. CASE c.reply = "yes" /\ token = None
    BY <1>9, <2>1, <2>3, <1>6 DEF StatusKnown, FormViews
  <2>4. CASE c.reply = "yes" /\ token # None
    <3>1. /\ Keep /\ UNCHANGED tab /\ "me" \in Kinds
          /\ calls' = Sent(rest, t, tab[t].page, "me", token)
      BY <1>9, <2>4 DEF StatusKnown, Kinds
    <3>2. Becomes(t, tab[t]) /\ token' # None
      BY <3>1, <1>1, <2>4 DEF Becomes, Keep
    <3> QED
      BY <3>1, <3>2, <1>1, <1>3, <1>7, <1>9
  <2> QED
    BY <2>2, <2>3, <2>4
<1>10. CASE c.kind = "me" /\ c.reply = "ok" /\ Keep /\ Authenticated(t, tab[t], rest, token)
  <2> DEFINE p == [tab[t] EXCEPT !.view = "authenticated", !.loading = TRUE, !.failed = FALSE]
  <2>1. /\ Becomes(t, p) /\ "tracks" \in Kinds
        /\ calls' = Sent(rest, t, tab[t].page, "tracks", token)
    BY <1>10 DEF Authenticated, Kinds
  <2>2. /\ p \in Tab /\ p.page = tab[t].page /\ p.view = "authenticated" /\ p.loading
        /\ p.submitting = tab[t].submitting
    BY <1>1 DEF Tab, Views
  <2> HIDE DEF p
  <2>3. token' = None => cleared' # t
    BY <1>3, <1>10 DEF Keep
  <2> QED
    BY <2>1, <2>2, <2>3, <1>3, <1>7, <1>10
<1>11. CASE c.kind \in {"status", "me"} /\ BootstrapFailed(t, rest)
  <2> DEFINE p == [tab[t] EXCEPT !.view = "error"]
  <2>1. Keep /\ Becomes(t, p) /\ calls' = rest
    BY <1>11 DEF BootstrapFailed
  <2>2. /\ p \in Tab /\ p.page = tab[t].page /\ p.view = "error"
        /\ p.submitting = tab[t].submitting
    BY <1>1 DEF Tab, Views
  <2> HIDE DEF p
  <2> QED
    BY <2>1, <2>2, <1>3, <1>6, <1>11
<1>12. CASE /\ c.kind = "register" /\ c.reply = "ok"
            /\ Keep /\ UNCHANGED tab
            /\ calls' = Sent(rest, t, tab[t].page, "login", token)
  <2>1. Becomes(t, tab[t]) /\ "login" \in Kinds
    BY <1>12, <1>1 DEF Becomes, Kinds
  <2>2. tab[t].view = "authenticated" =>
          /\ token' = None => cleared' # t
          /\ tab[t].shown \/ tab[t].loading \/ tab[t].failed
          /\ tab[t].loading => \E d \in Current(t) \cap rest : d.kind = "tracks"
    BY <1>1, <1>12 DEF PageOK, Keep, Current
  <2> QED
    BY <2>1, <2>2, <1>1, <1>3, <1>7, <1>12 DEF PageOK
<1>13. CASE c.kind = "login" /\ c.reply = "ok" /\ LoggedIn(t, c.session, rest)
  <2> DEFINE q == [tab[t] EXCEPT !.submitting = FALSE]
             p == [q EXCEPT !.view = "authenticated", !.loading = TRUE, !.failed = FALSE]
  <2>1. q.page = tab[t].page
    BY <1>1 DEF Tab
  <2>2. /\ token' = c.session /\ cleared' = None /\ "tracks" \in Kinds
        /\ Becomes(t, p) /\ calls' = Sent(rest, t, tab[t].page, "tracks", c.session)
    BY <1>13, <2>1 DEF LoggedIn, Authenticated, Kinds
  <2>3. /\ p \in Tab /\ p.page = tab[t].page /\ p.view = "authenticated" /\ p.loading
        /\ ~p.submitting
    BY <1>1 DEF Tab, Views
  <2> HIDE DEF p
  <2>4. token' \in 1 .. created /\ token' # None
    BY <2>2, <1>4, <1>13 DEF IInv, TypeOK
  <2> QED
    BY <2>2, <2>3, <2>4, <1>3, <1>7
<1>14. CASE c.kind \in {"register", "login"} /\ FormFailed(t, rest)
  <2> DEFINE p == [tab[t] EXCEPT !.submitting = FALSE, !.error = TRUE]
  <2>1. Keep /\ Becomes(t, p) /\ calls' = rest
    BY <1>14 DEF FormFailed
  <2>2. /\ p \in Tab /\ p.page = tab[t].page /\ p.view = tab[t].view /\ ~p.submitting
        /\ p.shown = tab[t].shown /\ p.loading = tab[t].loading /\ p.failed = tab[t].failed
    BY <1>1 DEF Tab
  <2> HIDE DEF p
  <2>3. p.view = "authenticated" =>
          /\ token' = None => cleared' # t
          /\ p.shown \/ p.loading \/ p.failed
          /\ p.loading => \E d \in Current(t) \cap rest : d.kind = "tracks"
    BY <2>1, <2>2, <1>1, <1>14 DEF PageOK, Keep, Current
  <2> QED
    BY <2>1, <2>2, <2>3, <1>3, <1>6
<1>15. CASE c.kind = "logout" /\ LoggedOut(t, rest)
  <2>1. /\ SignedOut(tab[t]) \in Tab /\ SignedOut(tab[t]).page = tab[t].page
        /\ SignedOut(tab[t]).view = "login"
    BY <1>1 DEF SignedOut, Shows, Tab, Views
  <2> QED
    BY <2>1, <1>6, <1>15 DEF LoggedOut, FormViews
<1>16. CASE c.kind = "tracks" /\ ListArrived(t, c.reply = "ok", rest)
  <2> DEFINE ok == c.reply = "ok"
             p == [tab[t] EXCEPT !.loading = FALSE, !.shown = @ \/ ok, !.failed = @ \/ ~ok]
  <2>1. Keep /\ Becomes(t, p) /\ calls' = rest
    BY <1>16 DEF ListArrived
  <2>2. /\ p.page = tab[t].page /\ p.view = tab[t].view
        /\ p.submitting = tab[t].submitting /\ ~p.loading
        /\ p.shown = (tab[t].shown \/ ok) /\ p.failed = (tab[t].failed \/ ~ok)
        /\ p \in Tab
    BY <1>1 DEF Tab
  <2> HIDE DEF p
  <2>3. p.view = "authenticated" => (token' = None => cleared' # t)
    BY <2>1, <2>2, <1>1 DEF PageOK, Keep
  <2>4. p.submitting => p.view \in FormViews
    BY <2>2, <1>1 DEF PageOK
  <2> QED
    BY <2>1, <2>2, <2>3, <2>4, <1>3, <1>6
<1> QED
  BY <1>8, <1>9, <1>10, <1>11, <1>12, <1>13, <1>14, <1>15, <1>16 DEF Receive

-----------------------------------------------------------------------------
(***************************************************************************)
(* The server, and the network.                                            *)
(***************************************************************************)

\* A request gets its answer, and stays where it is.
LEMMA AnswerStep ==
  ASSUME IInv, NEW c \in calls, NEW d, d.tab = c.tab, d.page = c.page, d.kind = c.kind,
         CallOK(d)', calls' = (calls \ {c}) \cup {d},
         UNCHANGED <<token, tab, cleared>>,
         created' \in 0 .. MaxSessions, created <= created',
         valid' \subseteq 1 .. created', initialized' \in BOOLEAN
  PROVE  IInv'
<1>1. /\ IsFiniteSet(calls \ {c}) /\ Room(calls \ {c})
      /\ calls \ {c} \in SUBSET calls
  BY RoomForOne
<1>2. IsFiniteSet(calls') /\ Cardinality(calls') <= MaxCalls
  BY <1>1, OneMore
<1>3. \A b \in calls \ {c} : CallOK(b)'
  <2>1. created' \in Nat /\ created \in Nat
    BY DEF IInv, TypeOK
  <2>2. \A t \in Tabs : tab'[t].page \in Nat /\ tab[t].page <= tab'[t].page
    BY DEF IInv, TypeOK, Tab
  <2> QED
    BY <1>1, <2>1, <2>2, CallsStayOK
<1>4. \A b \in calls' : CallOK(b)'
  BY <1>3
<1>5. TypeOK'
  BY <1>2, <1>4 DEF IInv, TypeOK, CallOK
<1>6. ASSUME NEW t \in Tabs PROVE PageOK(t)'
  <2>1. CASE c \notin Current(t)
    <3>1. Current(t)' = Current(t)
      BY <2>1 DEF Current
    <3> QED
      BY <3>1 DEF IInv, PageOK, BootsAlone
  <2>2. CASE c \in Current(t)
    <3>1. Current(t)' = (Current(t) \ {c}) \cup {d}
      BY <2>2 DEF Current
    <3>2. PageOK(t)
      BY DEF IInv
    <3>3. BootsAlone(t)'
      <4>1. tab'[t].view # "error"
        BY <2>2, <3>2 DEF PageOK, BootsAlone
      <4>2. ASSUME NEW b \in Current(t)', b.kind \in {"status", "me"}
            PROVE  /\ tab'[t].view = "checking" /\ Current(t)' = {b}
                   /\ b.kind = "me" /\ token' = None => cleared' # t
        <5>1. CASE b = d
          BY <3>1, <3>2, <4>2, <5>1, <2>2 DEF PageOK, BootsAlone
        <5>2. CASE b # d
          BY <3>1, <3>2, <4>2, <5>2, <2>2 DEF PageOK, BootsAlone
        <5> QED
          BY <5>1, <5>2
      <4> QED
        BY <4>1, <4>2 DEF BootsAlone
    <3> QED
      BY <3>1, <3>2, <3>3, <2>2 DEF PageOK
  <2> QED
    BY <2>1, <2>2
<1> QED
  BY <1>2, <1>4, <1>5, <1>6 DEF IInv, CallsOK

\* An answer that is no refusal of a request without credentials.
LEMMA AnswerOK ==
  ASSUME IInv, NEW c \in calls, NEW reply, Answer(c, reply),
         reply = "refused" => c.kind \in {"me", "login", "logout", "tracks"},
         c.kind = "login" => reply # "ok",
         UNCHANGED <<token, tab, cleared>>,
         created' = created, valid' \subseteq valid, initialized' \in BOOLEAN
  PROVE  IInv'
<1> DEFINE d == [c EXCEPT !.reply = reply]
<1>1. CallOK(c) /\ tab[c.tab].page \in Nat
  BY DEF IInv, CallsOK, CallOK, TypeOK, Tab
<1>2. /\ d.tab = c.tab /\ d.page = c.page /\ d.kind = c.kind /\ d.reply = reply
      /\ d = [n |-> d.n, tab |-> d.tab, page |-> d.page, kind |-> d.kind,
              token |-> d.token, reply |-> d.reply, session |-> d.session]
  BY <1>1 DEF CallOK
<1>3. calls' = (calls \ {c}) \cup {d}
  BY DEF Answer
<1> HIDE DEF d
<1>4. CallOK(d)'
  BY <1>1, <1>2 DEF CallOK
<1>5. created' \in 0 .. MaxSessions /\ created <= created' /\ valid' \subseteq 1 .. created'
  BY DEF IInv, TypeOK
<1> QED
  BY <1>2, <1>3, <1>4, <1>5, AnswerStep

\* The server answers a call.
LEMMA ServeOK ==
  ASSUME IInv, NEW c \in calls, Serve(c)
  PROVE  IInv'
<1>1. UNCHANGED <<token, tab, cleared, count>> /\ c.reply = None
  BY DEF Serve
<1>2. initialized \in BOOLEAN /\ CallOK(c) /\ c.kind \in Kinds /\ created \in 0 .. MaxSessions
  BY DEF IInv, TypeOK, CallsOK, CallOK
<1>3. CASE /\ c.kind = "status"
           /\ Answer(c, IF initialized THEN "yes" ELSE "no") /\ UNCHANGED server
  BY <1>1, <1>2, <1>3, AnswerOK DEF server
<1>4. CASE /\ c.kind \in {"me", "tracks", "logout"}
           /\ Answer(c, IF c.token \in valid THEN "ok" ELSE "refused")
           /\ valid' \subseteq valid /\ UNCHANGED <<initialized, created>>
  BY <1>1, <1>2, <1>4, AnswerOK
<1>5. CASE /\ c.kind = "register" /\ Answer(c, IF initialized THEN "closed" ELSE "ok")
           /\ initialized' = TRUE /\ UNCHANGED <<valid, created>>
  BY <1>1, <1>2, <1>5, AnswerOK
<1>6. CASE /\ c.kind = "login" /\ created < MaxSessions
           /\ created' = created + 1 /\ valid' = valid \cup {created + 1}
           /\ calls' = (calls \ {c}) \cup
                       {[c EXCEPT !.reply = "ok", !.session = created + 1]}
           /\ UNCHANGED initialized
  <2>0. PICK d : d = [c EXCEPT !.reply = "ok", !.session = created + 1]
    OBVIOUS
  <2>1. /\ d.tab = c.tab /\ d.page = c.page /\ d.kind = c.kind
        /\ d.reply = "ok" /\ d.session = created + 1
        /\ d = [n |-> d.n, tab |-> d.tab, page |-> d.page, kind |-> d.kind,
                token |-> d.token, reply |-> d.reply, session |-> d.session]
    BY <1>2, <2>0 DEF CallOK
  <2>2. calls' = (calls \ {c}) \cup {d}
    BY <1>6, <2>0
  <2>3. /\ created' \in 0 .. MaxSessions /\ created <= created'
        /\ valid' \subseteq 1 .. created' /\ created + 1 \in 1 .. created'
    BY <1>2, <1>6 DEF IInv, TypeOK
  <2>4. CallOK(d)'
    BY <1>1, <1>2, <2>1, <2>3 DEF CallOK
  <2> QED
    BY <1>1, <1>2, <1>6, <2>1, <2>2, <2>3, <2>4, AnswerStep
<1>7. CASE c.kind = "login" /\ Answer(c, "refused") /\ UNCHANGED server
  BY <1>1, <1>2, <1>7, AnswerOK DEF server
<1> QED
  BY <1>3, <1>4, <1>5, <1>6, <1>7 DEF Serve, server

\* A call, or its answer, is lost.
LEMMA LoseOK ==
  ASSUME IInv, NEW c \in calls, Lose(c)
  PROVE  IInv'
<1>1. Answer(c, "failed") /\ UNCHANGED <<server, token, tab, cleared>>
  BY DEF Lose
<1> QED
  BY <1>1, AnswerOK DEF server, IInv, TypeOK

\* A session of the server expires.
LEMMA ExpireOK ==
  ASSUME IInv, NEW session, Expire(session)
  PROVE  IInv'
<1>1. /\ UNCHANGED <<initialized, created, token, tab, calls, cleared>>
      /\ valid' \subseteq valid
  BY DEF Expire
<1>2. \A t \in Tabs : Current(t)' = Current(t)
  BY <1>1 DEF Current
<1>3. TypeOK'
  BY <1>1 DEF IInv, TypeOK
<1>4. CallsOK'
  BY <1>1 DEF IInv, CallsOK, CallOK
<1>5. \A t \in Tabs : PageOK(t)'
  BY <1>1, <1>2 DEF IInv, PageOK, BootsAlone
<1> QED
  BY <1>3, <1>4, <1>5 DEF IInv

-----------------------------------------------------------------------------
(***************************************************************************)
(* The user, and the browser.                                              *)
(***************************************************************************)

\* A click or the form sends a request of the page that is shown, or changes
\* the page only.
LEMMA ClickStep ==
  ASSUME IInv, NEW t \in Tabs, NEW page \in Tab, page.page = tab[t].page,
         Becomes(t, page), UNCHANGED <<server, token, cleared>>,
         tab[t].view # "checking",
         \/ /\ calls' = calls /\ page.view = tab[t].view
            /\ page.loading => tab[t].loading
         \/ /\ Room(calls)
            /\ \E kind \in Kinds : \E tok :
                 /\ calls' = Sent(calls, t, tab[t].page, kind, tok)
                 /\ kind = "tracks" \/ (page.loading => tab[t].loading)
                 /\ IF kind \in {"status", "me"}
                    THEN kind = "status" /\ tab[t].view = "error" /\ page.view = "checking"
                    ELSE page.view = tab[t].view /\ page.view # "error",
         page.submitting => page.view \in FormViews,
         page.view = "authenticated" => page.shown \/ page.loading \/ page.failed
  PROVE  IInv'
<1>1. /\ PageOK(t) /\ calls \in SUBSET calls /\ tab'[t] = page
      /\ tab \in [Tabs -> Tab] /\ tab[t].page \in Nat
  BY DEF IInv, TypeOK, Becomes, Tab
<1>2. Keep /\ UNCHANGED server
  BY DEF Keep
<1>3. \A d \in Current(t) : d.kind \notin {"status", "me"}
  BY <1>1 DEF PageOK, BootsAlone
<1>4. CASE /\ calls' = calls /\ page.view = tab[t].view
           /\ page.loading => tab[t].loading
  <2>1. Current(t)' = Current(t)
    BY <1>1, <1>4 DEF Current
  <2>2. PageOK(t)'
    BY <1>1, <1>2, <1>3, <1>4, <2>1 DEF PageOK, BootsAlone, Keep
  <2>3. tab' = [tab EXCEPT ![t] = page] /\ tab[t].page <= page.page
    BY <1>1 DEF Becomes
  <2>4. \A c \in calls \ calls : c.tab = t
    OBVIOUS
  <2> QED
    BY <1>1, <1>2, <1>4, <2>2, <2>3, <2>4, PageStep
<1>5. ASSUME NEW kind \in Kinds, NEW tok, Room(calls),
             calls' = Sent(calls, t, tab[t].page, kind, tok),
             kind = "tracks" \/ (page.loading => tab[t].loading),
             IF kind \in {"status", "me"}
             THEN kind = "status" /\ tab[t].view = "error" /\ page.view = "checking"
             ELSE page.view = tab[t].view /\ page.view # "error"
      PROVE  IInv'
  <2>1. PICK r : /\ r.kind = kind /\ r.tab = t /\ r.page = tab[t].page
                 /\ calls' = calls \cup {r}
    BY <1>5 DEF Sent
  <2>2. Current(t)' = Current(t) \cup {r}
    BY <1>1, <2>1 DEF Current
  <2>3. BootsAlone(t)'
    <3>1. CASE kind = "status"
      BY <1>1, <1>5, <2>1, <2>2, <3>1 DEF PageOK, BootsAlone
    <3>2. CASE kind # "status"
      BY <1>1, <1>3, <1>5, <2>1, <2>2, <3>2 DEF BootsAlone
    <3> QED
      BY <3>1, <3>2
  <2>4. page.view = "authenticated" =>
          page.view = tab[t].view /\ (kind = "tracks" \/ (page.loading => tab[t].loading))
    BY <1>5
  <2>5. PageOK(t)'
    BY <1>1, <1>2, <2>1, <2>2, <2>3, <2>4 DEF PageOK, Keep
  <2>6. tab' = [tab EXCEPT ![t] = page] /\ tab[t].page <= page.page
    BY <1>1 DEF Becomes
  <2>7. /\ \A c \in calls \ calls : c.tab = t
        /\ \E k \in Kinds : \E x : calls' = Sent(calls, t, page.page, k, x)
    BY <1>5
  <2> QED
    BY <1>1, <1>2, <1>5, <2>5, <2>6, <2>7, PageStep
<1> QED
  BY <1>4, <1>5

\* The user submits a form, signs out, refreshes or retries.
LEMMA ClicksOK ==
  ASSUME IInv, NEW t \in Tabs,
         Submit(t) \/ ClickLogout(t) \/ ClickRefresh(t) \/ ClickRetry(t)
  PROVE  IInv'
<1>1. tab \in [Tabs -> Tab] /\ tab[t] \in Tab /\ PageOK(t) /\ tab[t].view \in Views
  BY DEF IInv, TypeOK, Tab
<1>2. /\ Shell(tab[t]) = "form" => tab[t].view \in FormViews
      /\ Shell(tab[t]) = "app" => tab[t].view = "authenticated"
      /\ Shell(tab[t]) = "error" => tab[t].view = "error"
  BY <1>1 DEF Shell, FormViews, Views
<1>3. CASE Submit(t)
  <2>1. tab[t].view \in FormViews /\ UNCHANGED <<server, token, cleared>>
    BY <1>2, <1>3 DEF Submit
  <2>2. CASE Becomes(t, [tab[t] EXCEPT !.error = TRUE]) /\ UNCHANGED calls
    <3> DEFINE p == [tab[t] EXCEPT !.error = TRUE]
    <3>1. /\ p \in Tab /\ p.page = tab[t].page /\ p.view = tab[t].view
          /\ p.loading = tab[t].loading /\ p.view # "checking" /\ p.view # "authenticated"
      BY <1>1, <2>1 DEF Tab, FormViews
    <3> HIDE DEF p
    <3> QED
      BY <2>1, <2>2, <3>1, ClickStep DEF p
  <2>3. CASE /\ Becomes(t, [tab[t] EXCEPT !.submitting = TRUE, !.error = FALSE])
             /\ Room(calls) /\ calls' = Sent(calls, t, tab[t].page, tab[t].view, token)
    <3> DEFINE p == [tab[t] EXCEPT !.submitting = TRUE, !.error = FALSE]
    <3>1. /\ p \in Tab /\ p.page = tab[t].page /\ p.view = tab[t].view
          /\ p.loading = tab[t].loading
          /\ p.view \notin {"checking", "authenticated", "error", "status", "me"}
      BY <1>1, <2>1 DEF Tab, FormViews
    <3>2. tab[t].view \in Kinds
      BY <2>1 DEF FormViews, Kinds
    <3>3. Becomes(t, p)
      BY <2>3
    <3> HIDE DEF p
    <3>4. \E kind \in Kinds : \E tok :
            /\ calls' = Sent(calls, t, tab[t].page, kind, tok)
            /\ kind = "tracks" \/ (p.loading => tab[t].loading)
            /\ IF kind \in {"status", "me"}
               THEN kind = "status" /\ tab[t].view = "error" /\ p.view = "checking"
               ELSE p.view = tab[t].view /\ p.view # "error"
      BY <2>3, <3>1, <3>2
    <3> QED
      BY <2>1, <2>3, <3>1, <3>3, <3>4, ClickStep
  <2> QED
    BY <1>3, <2>2, <2>3 DEF Submit
<1>4. CASE ClickLogout(t)
  <2>1. /\ tab[t].view = "authenticated" /\ UNCHANGED <<server, token, cleared>>
        /\ Room(calls) /\ calls' = Sent(calls, t, tab[t].page, "logout", token)
        /\ Becomes(t, tab[t]) /\ "logout" \in Kinds
    BY <1>1, <1>2, <1>4 DEF ClickLogout, Becomes, Kinds
  <2>2. \E kind \in Kinds : \E tok :
            /\ calls' = Sent(calls, t, tab[t].page, kind, tok)
            /\ kind = "tracks" \/ (tab[t].loading => tab[t].loading)
            /\ IF kind \in {"status", "me"}
               THEN kind = "status" /\ tab[t].view = "error" /\ tab[t].view = "checking"
               ELSE tab[t].view = tab[t].view /\ tab[t].view # "error"
    BY <2>1
  <2> QED
    BY <1>1, <2>1, <2>2, ClickStep DEF PageOK
<1>5. CASE ClickRefresh(t)
  <2> DEFINE p == [tab[t] EXCEPT !.loading = TRUE, !.failed = FALSE]
  <2>1. /\ tab[t].view = "authenticated" /\ UNCHANGED <<server, token, cleared>>
        /\ Room(calls) /\ calls' = Sent(calls, t, tab[t].page, "tracks", token)
        /\ Becomes(t, p) /\ "tracks" \in Kinds
    BY <1>1, <1>2, <1>5 DEF ClickRefresh, Kinds
  <2>2. /\ p \in Tab /\ p.page = tab[t].page /\ p.view = tab[t].view /\ p.loading
        /\ p.submitting = tab[t].submitting
    BY <1>1 DEF Tab
  <2> HIDE DEF p
  <2>3. \E kind \in Kinds : \E tok :
            /\ calls' = Sent(calls, t, tab[t].page, kind, tok)
            /\ kind = "tracks" \/ (p.loading => tab[t].loading)
            /\ IF kind \in {"status", "me"}
               THEN kind = "status" /\ tab[t].view = "error" /\ p.view = "checking"
               ELSE p.view = tab[t].view /\ p.view # "error"
    BY <2>1, <2>2
  <2> QED
    BY <1>1, <2>1, <2>2, <2>3, ClickStep DEF PageOK
<1>6. CASE ClickRetry(t)
  <2> DEFINE p == [tab[t] EXCEPT !.view = "checking"]
  <2>1. /\ tab[t].view = "error" /\ UNCHANGED <<server, token, cleared>>
        /\ Room(calls) /\ calls' = Sent(calls, t, tab[t].page, "status", token)
        /\ Becomes(t, p) /\ "status" \in Kinds
    BY <1>1, <1>2, <1>6 DEF ClickRetry, Kinds
  <2>2. /\ p \in Tab /\ p.page = tab[t].page /\ p.view = "checking"
        /\ p.submitting = tab[t].submitting /\ p.loading = tab[t].loading
    BY <1>1 DEF Tab, Views
  <2> HIDE DEF p
  <2>3. \E kind \in Kinds : \E tok :
            /\ calls' = Sent(calls, t, tab[t].page, kind, tok)
            /\ kind = "tracks" \/ (p.loading => tab[t].loading)
            /\ IF kind \in {"status", "me"}
               THEN kind = "status" /\ tab[t].view = "error" /\ p.view = "checking"
               ELSE p.view = tab[t].view /\ p.view # "error"
    BY <2>1, <2>2
  <2>4. ~p.submitting
    BY <1>1, <2>1, <2>2 DEF PageOK, FormViews
  <2> QED
    BY <1>1, <2>1, <2>2, <2>3, <2>4, ClickStep
<1> QED
  BY <1>3, <1>4, <1>5, <1>6

\* A page is loaded again.
LEMMA ReloadOK ==
  ASSUME IInv, NEW t \in Tabs, Reload(t)
  PROVE  IInv'
<1> DEFINE page == NewPage(tab[t].page + 1)
<1>1. /\ tab \in [Tabs -> Tab] /\ tab[t].page \in Nat
      /\ \A c \in calls : c.tab = t => c.page \in Nat /\ c.page <= tab[t].page
  BY DEF IInv, TypeOK, Tab, CallsOK, CallOK
<1>2. /\ page \in Tab /\ page.page = tab[t].page + 1 /\ page.view = "checking"
      /\ ~page.submitting /\ Becomes(t, page)
  BY <1>1 DEF NewPage, Tab, Views, Reload
<1> HIDE DEF page
<1>3. PICK rest \in SUBSET calls :
        /\ \A c \in calls \ rest : c.tab = t
        /\ Room(rest) /\ calls' = Sent(rest, t, page.page, "status", token)
  BY <1>2 DEF Reload
<1>4. PICK r : r.kind = "status" /\ r.tab = t /\ r.page = page.page /\ calls' = rest \cup {r}
  BY <1>3 DEF Sent
<1>5. tab'[t] = page /\ tab[t].page <= page.page
  BY <1>1, <1>2 DEF Becomes
<1>6. Current(t)' = {r}
  BY <1>1, <1>2, <1>4, <1>5 DEF Current
<1>7. PageOK(t)'
  BY <1>2, <1>4, <1>5, <1>6 DEF PageOK, BootsAlone
<1>8. /\ \E kind \in Kinds : \E tok : calls' = Sent(rest, t, page.page, kind, tok)
      /\ tab' = [tab EXCEPT ![t] = page] /\ Keep /\ UNCHANGED server
  BY <1>2, <1>3 DEF Reload, Keep, Becomes, Kinds
<1> QED
  BY <1>2, <1>3, <1>5, <1>7, <1>8, PageStep

\* The answer to a page that is gone.
LEMMA DropOK ==
  ASSUME IInv, NEW c \in calls, Drop(c)
  PROVE  IInv'
<1>1. PICK t \in Tabs : t = c.tab
  BY DEF IInv, CallsOK, CallOK
<1>2. PICK rest \in SUBSET calls : rest = calls \ {c}
  OBVIOUS
<1>3. /\ calls' = rest /\ UNCHANGED <<server, token, tab, cleared>>
      /\ c.page # tab[t].page /\ tab \in [Tabs -> Tab] /\ tab[t] \in Tab
  BY <1>1, <1>2 DEF Drop, IInv, TypeOK
<1>4. Current(t)' = Current(t)
  BY <1>1, <1>2, <1>3 DEF Current
<1>5. PageOK(t)'
  BY <1>3, <1>4 DEF PageOK, BootsAlone, IInv
<1>6. /\ tab' = [tab EXCEPT ![t] = tab[t]] /\ tab[t].page <= tab[t].page
      /\ Keep /\ \A d \in calls \ rest : d.tab = t
  BY <1>1, <1>2, <1>3 DEF Keep, Tab
<1> QED
  BY <1>3, <1>5, <1>6, PageStep

-----------------------------------------------------------------------------
(***************************************************************************)
(* The invariant holds from the start and is kept by every step.           *)
(***************************************************************************)
LEMMA InitOK == Init => IInv
<1> SUFFICES ASSUME Init PROVE IInv
  OBVIOUS
<1>1. PICK t \in Tabs :
        /\ tab = [u \in Tabs |-> [NewPage(0) EXCEPT !.view =
                                    IF u = t THEN "checking" ELSE "error"]]
        /\ calls = Sent({}, t, 0, "status", None)
  BY DEF Init
<1>2. PICK n : calls = {[n |-> n, tab |-> t, page |-> 0, kind |-> "status",
                         token |-> None, reply |-> None, session |-> None]}
  BY <1>1 DEF Sent
<1>3. /\ tab \in [Tabs -> Tab]
      /\ \A u \in Tabs : /\ tab[u].page = 0 /\ ~tab[u].submitting
                         /\ tab[u].view = IF u = t THEN "checking" ELSE "error"
  BY <1>1 DEF NewPage, Tab, Views
<1>4. PICK r : calls = {r} /\ CallOK(r) /\ r.tab = t /\ r.page = 0 /\ r.kind = "status"
  <2> DEFINE r == [n |-> n, tab |-> t, page |-> 0, kind |-> "status",
                   token |-> None, reply |-> None, session |-> None]
  <2>1. CallOK(r) /\ r.tab = t /\ r.page = 0 /\ r.kind = "status"
    BY <1>3 DEF CallOK, Kinds
  <2>2. calls = {r}
    BY <1>2
  <2> QED
    BY <2>1, <2>2
<1>5. IsFiniteSet(calls) /\ Cardinality(calls) = 1
  BY <1>4, FS_Singleton
<1>6. TypeOK
  <2>1. /\ initialized \in BOOLEAN /\ valid = {} /\ created = 0 /\ token = None
    BY DEF Init
  <2>2. 0 \in 0 .. MaxSessions /\ 1 <= MaxCalls
    OBVIOUS
  <2> QED
    BY <1>3, <1>4, <1>5, <2>1, <2>2 DEF TypeOK, CallOK
<1>7. ASSUME NEW u \in Tabs PROVE PageOK(u)
  <2>1. Current(u) = IF u = t THEN {r} ELSE {}
    BY <1>3, <1>4 DEF Current
  <2> QED
    BY <1>3, <1>4, <2>1 DEF PageOK, BootsAlone
<1> QED
  BY <1>4, <1>5, <1>6, <1>7 DEF IInv, CallsOK

\* Every step keeps the invariant.
LEMMA NextOK == IInv /\ [Next]_vars => IInv'
<1> SUFFICES ASSUME IInv, [Next]_vars PROVE IInv'
  OBVIOUS
<1>1. CASE UNCHANGED vars
  <2>1. \A t \in Tabs : Current(t)' = Current(t)
    BY <1>1 DEF vars, Current
  <2>2. \A t \in Tabs : PageOK(t)'
    BY <1>1, <2>1 DEF vars, IInv, PageOK, BootsAlone
  <2>3. TypeOK' /\ CallsOK'
    BY <1>1 DEF vars, server, IInv, TypeOK, CallsOK, CallOK
  <2> QED
    BY <2>2, <2>3 DEF IInv
<1>2. ASSUME NEW t \in Tabs, Network(t) PROVE IInv'
  BY <1>2, ServeOK, ReceiveOK, DropOK DEF Network
<1>3. ASSUME NEW c \in calls, Lose(c) PROVE IInv'
  BY <1>3, LoseOK
<1>4. ASSUME NEW session \in Sessions, Expire(session) PROVE IInv'
  BY <1>4, ExpireOK
<1>5. ASSUME NEW t \in Tabs,
             Submit(t) \/ ClickLogout(t) \/ ClickRefresh(t) \/ ClickRetry(t)
      PROVE  IInv'
  BY <1>5, ClicksOK
<1>6. ASSUME NEW t \in Tabs, Reload(t) PROVE IInv'
  BY <1>6, ReloadOK
<1> QED
  BY <1>1, <1>2, <1>3, <1>4, <1>5, <1>6 DEF Next

(***************************************************************************)
(* Whichever answers come late, whichever tab signs in or out, and however *)
(* many tabs there are: no page is in the app without a session of its own *)
(* doing, blank, or loading for nothing (App.tsx, apps/web/src).           *)
(***************************************************************************)
THEOREM PagesStayWhole == Spec => []PagesAreWhole
<1>1. IInv => PagesAreWhole
  BY DEF IInv, PageOK, PagesAreWhole, SignedInHasToken, NoBlankPage, LoadingIsReal, Current
<1> QED
  BY <1>1, InitOK, NextOK, PTL DEF Spec

-----------------------------------------------------------------------------
(***************************************************************************)
(* What a step may not do.                                                 *)
(***************************************************************************)

\* A form that stops being sent is answered on its page.
Turned(page, next) ==
  /\ page.view = "register" /\ next.view = "login"
  /\ token # None /\ token' = None

Answered(page, next) ==
  page.submitting /\ ~next.submitting =>
    next.view = "authenticated" \/ next.error \/ Turned(page, next)

\* A form is answered by the answer to its own call.
LEMMA FormAnswersWhen ==
  ASSUME IInv, NEW t \in Tabs, NEW page \in Tab, Becomes(t, page),
         page.page = tab[t].page => Answered(tab[t], page)
  PROVE  FormAnswers
<1>1. /\ tab \in [Tabs -> Tab] /\ tab' \in [Tabs -> Tab]
      /\ \A u \in Tabs : tab'[u] = IF u = t THEN page ELSE tab[u]
  BY DEF IInv, TypeOK, Becomes
<1>2. \A u \in Tabs : tab[u].submitting /\ ~tab'[u].submitting
                        /\ tab'[u].page = tab[u].page =>
                      \/ tab'[u].view = "authenticated" \/ tab'[u].error
                      \/ Turned(tab[u], tab'[u])
  BY <1>1 DEF Answered
<1> QED
  BY <1>2 DEF FormAnswers, Shell, FormParts, FormViews, Turned

\* To sign out keeps a form as it is.
LEMMA SignedOutAnswers ==
  ASSUME NEW page \in Tab, page.submitting => page.view \in FormViews
  PROVE  /\ SignedOut(page) \in Tab /\ SignedOut(page).submitting = page.submitting
         /\ SignedOut(page).submitting => SignedOut(page).view \in FormViews
BY DEF SignedOut, Shows, Tab, Views, FormViews

\* Whatever answer a page receives, its form ends as it should.
LEMMA ReceiveFormAnswers ==
  ASSUME IInv, NEW c \in calls, Receive(c),
         NEW t, t = c.tab, NEW rest, rest = calls \ {c}
  PROVE  FormAnswers
<1>1. /\ t \in Tabs /\ tab[t] \in Tab /\ c \in Current(t) /\ PageOK(t)
      /\ tab \in [Tabs -> Tab]
      /\ c.reply = "refused" => c.kind \in {"me", "login", "logout", "tracks"}
  BY DEF IInv, CallsOK, CallOK, TypeOK, Current, Receive
<1>2. /\ tab[t].submitting => tab[t].view \in FormViews
      /\ c.kind \in {"status", "me"} => ~tab[t].submitting
  BY <1>1 DEF PageOK, BootsAlone, FormViews
<1>3. CASE c.reply = "refused" /\ Refused(t, c.kind, rest)
  <2> DEFINE u == Unauthorized(tab[t])
  <2>1. /\ u \in Tab /\ u.submitting = tab[t].submitting
        /\ u.submitting => u.view \in FormViews
    BY <1>1, <1>2, SignedOutAnswers DEF Unauthorized
  <2> HIDE DEF u
  <2>2. CASE c.kind \in {"me", "logout"}
    <3>1. Becomes(t, SignedOut(u))
      BY <1>3, <2>2 DEF Refused, u
    <3> QED
      BY <1>1, <2>1, <3>1, SignedOutAnswers, FormAnswersWhen DEF Answered
  <2>3. CASE c.kind = "login"
    <3> DEFINE p == [u EXCEPT !.submitting = FALSE,
                          !.error = @ \/ token = None \/ tab[t].view # "register"]
    <3>1. Becomes(t, p)
      BY <1>3, <2>3 DEF Refused, u
    <3>2. /\ p \in Tab /\ p.view = u.view
          /\ p.error \/ (token # None /\ tab[t].view = "register")
      BY <2>1 DEF Tab
    <3> HIDE DEF p
    <3>3. token # None => token' = None /\ u.view = "login"
      BY <1>3 DEF Refused, Clear, u, Unauthorized, SignedOut, Shows, Tab
    <3>4. Answered(tab[t], p)
      BY <3>2, <3>3 DEF Answered, Turned
    <3> QED
      BY <1>1, <3>1, <3>2, <3>4, FormAnswersWhen
  <2>4. CASE c.kind = "tracks"
    <3> DEFINE p == [u EXCEPT !.loading = FALSE, !.failed = TRUE]
    <3>1. Becomes(t, p)
      BY <1>3, <2>4 DEF Refused, u
    <3>2. p \in Tab /\ p.submitting = u.submitting
      BY <2>1 DEF Tab
    <3> HIDE DEF p
    <3> QED
      BY <1>1, <2>1, <3>1, <3>2, FormAnswersWhen DEF Answered
  <2> QED
    BY <1>1, <1>3, <2>2, <2>3, <2>4
<1>4. CASE c.kind = "login" /\ c.reply = "ok" /\ LoggedIn(t, c.session, rest)
  <2> DEFINE q == [tab[t] EXCEPT !.submitting = FALSE]
             p == [q EXCEPT !.view = "authenticated", !.loading = TRUE, !.failed = FALSE]
  <2>1. Becomes(t, p)
    BY <1>4 DEF LoggedIn, Authenticated
  <2>2. p \in Tab /\ p.view = "authenticated"
    BY <1>1 DEF Tab, Views
  <2> HIDE DEF p
  <2> QED
    BY <1>1, <2>1, <2>2, FormAnswersWhen DEF Answered
<1>5. CASE FormFailed(t, rest)
  <2> DEFINE p == [tab[t] EXCEPT !.submitting = FALSE, !.error = TRUE]
  <2>1. Becomes(t, p)
    BY <1>5 DEF FormFailed
  <2>2. p \in Tab /\ p.error
    BY <1>1 DEF Tab
  <2> HIDE DEF p
  <2> QED
    BY <1>1, <2>1, <2>2, FormAnswersWhen DEF Answered
<1>6. CASE c.kind = "logout" /\ LoggedOut(t, rest)
  <2>1. Becomes(t, SignedOut(tab[t]))
    BY <1>6 DEF LoggedOut
  <2> QED
    BY <1>1, <1>2, <2>1, SignedOutAnswers, FormAnswersWhen DEF Answered
<1>7. CASE c.kind = "tracks" /\ ListArrived(t, c.reply = "ok", rest)
  <2> DEFINE ok == c.reply = "ok"
             p == [tab[t] EXCEPT !.loading = FALSE, !.shown = @ \/ ok, !.failed = @ \/ ~ok]
  <2>1. Becomes(t, p)
    BY <1>7 DEF ListArrived
  <2>2. p \in Tab /\ p.submitting = tab[t].submitting
    BY <1>1 DEF Tab
  <2> HIDE DEF p
  <2> QED
    BY <1>1, <2>1, <2>2, FormAnswersWhen DEF Answered
<1>8. CASE UNCHANGED tab
  BY <1>8 DEF FormAnswers
<1>9. CASE c.kind \in {"status", "me"} /\ \E p \in Tab : Becomes(t, p)
  BY <1>1, <1>2, <1>9, FormAnswersWhen DEF Answered
<1>10. c.kind \in {"status", "me"} /\ c.reply # "refused" =>
         UNCHANGED tab \/ \E p \in Tab : Becomes(t, p)
  <2>1. ASSUME NEW v \in Views
        PROVE  /\ Shows(tab[t], v) \in Tab
               /\ [tab[t] EXCEPT !.view = v] \in Tab
               /\ [tab[t] EXCEPT !.view = v, !.loading = TRUE, !.failed = FALSE] \in Tab
    BY <1>1 DEF Shows, Tab, Views
  <2>2. c.kind = "status" /\ StatusKnown(t, c.reply = "yes", rest) =>
          UNCHANGED tab \/ \E p \in Tab : Becomes(t, p)
    BY <2>1 DEF StatusKnown, Views
  <2>3. c.kind = "me" /\ Authenticated(t, tab[t], rest, token) => \E p \in Tab : Becomes(t, p)
    BY <2>1 DEF Authenticated, Views
  <2>4. BootstrapFailed(t, rest) => \E p \in Tab : Becomes(t, p)
    BY <2>1 DEF BootstrapFailed, Views
  <2> QED
    BY <2>2, <2>3, <2>4 DEF Receive
<1> QED
  BY <1>3, <1>4, <1>5, <1>6, <1>7, <1>8, <1>9, <1>10 DEF Receive

\* The token goes with an answer that is a reason.
LEMMA ReceiveGivesReason ==
  ASSUME IInv, NEW c \in calls, Receive(c)
  PROVE  OnlyRefusalsEndSessions
<1> SUFFICES ASSUME token # None, token' = None
             PROVE  c \notin calls' /\ (c.reply \in {"refused", "no"} \/ c.kind = "logout")
  BY DEF OnlyRefusalsEndSessions
<1>1. /\ ~Keep
      /\ ~(c.kind = "login" /\ c.reply = "ok" /\ LoggedIn(c.tab, c.session, calls \ {c}))
  BY DEF Keep, LoggedIn, IInv, CallsOK, CallOK
<1> QED
  BY <1>1 DEF Receive, Refused, StatusKnown, BootstrapFailed, FormFailed, ListArrived, LoggedOut

\* Both action properties hold of every step.
LEMMA StepsHaveReasons ==
  IInv /\ [Next]_vars => [FormAnswers /\ OnlyRefusalsEndSessions]_vars
<1> SUFFICES ASSUME IInv, Next PROVE FormAnswers /\ OnlyRefusalsEndSessions
  OBVIOUS
<1>1. CASE UNCHANGED <<token, tab>>
  BY <1>1 DEF FormAnswers, OnlyRefusalsEndSessions
<1>2. ASSUME NEW t \in Tabs, NEW c \in calls, c.tab = t, Receive(c)
      PROVE  FormAnswers /\ OnlyRefusalsEndSessions
  BY <1>2, ReceiveFormAnswers, ReceiveGivesReason
<1>3. ASSUME NEW t \in Tabs, NEW page \in Tab, Becomes(t, page), UNCHANGED token,
             page.page = tab[t].page => Answered(tab[t], page)
      PROVE  FormAnswers /\ OnlyRefusalsEndSessions
  BY <1>3, FormAnswersWhen DEF OnlyRefusalsEndSessions
<1>4. ASSUME NEW t \in Tabs, Submit(t) \/ ClickRefresh(t) \/ ClickRetry(t) \/ Reload(t)
      PROVE  FormAnswers /\ OnlyRefusalsEndSessions
  <2>1. tab[t] \in Tab /\ tab[t].page \in Nat /\ UNCHANGED token
    BY <1>4 DEF IInv, TypeOK, Tab, Submit, ClickRefresh, ClickRetry, Reload
  <2>2. \E page \in Tab :
          Becomes(t, page) /\ (page.page = tab[t].page => Answered(tab[t], page))
    <3>1. CASE Submit(t)
      <4> DEFINE p == [tab[t] EXCEPT !.error = TRUE]
                 q == [tab[t] EXCEPT !.submitting = TRUE, !.error = FALSE]
      <4>1. p \in Tab /\ p.error /\ q \in Tab /\ q.submitting
        BY <2>1 DEF Tab
      <4>2. Becomes(t, p) \/ Becomes(t, q)
        BY <3>1 DEF Submit
      <4> QED
        BY <4>1, <4>2 DEF Answered
    <3>2. CASE ClickRefresh(t)
      <4> DEFINE p == [tab[t] EXCEPT !.loading = TRUE, !.failed = FALSE]
      <4>1. p \in Tab /\ p.submitting = tab[t].submitting
        BY <2>1 DEF Tab
      <4> QED
        BY <3>2, <4>1 DEF Answered, ClickRefresh
    <3>3. CASE ClickRetry(t)
      <4> DEFINE p == [tab[t] EXCEPT !.view = "checking"]
      <4>1. p \in Tab /\ p.submitting = tab[t].submitting
        BY <2>1 DEF Tab, Views
      <4> QED
        BY <3>3, <4>1 DEF Answered, ClickRetry
    <3>4. CASE Reload(t)
      <4> DEFINE p == NewPage(tab[t].page + 1)
      <4>1. p \in Tab /\ p.page # tab[t].page
        BY <2>1 DEF NewPage, Tab, Views
      <4> QED
        BY <3>4, <4>1 DEF Reload
    <3> QED
      BY <1>4, <3>1, <3>2, <3>3, <3>4
  <2> QED
    BY <2>1, <2>2, <1>3
<1> QED
  BY <1>1, <1>2, <1>4 DEF Next, Network, Serve, Drop, Lose, Expire, ClickLogout

(***************************************************************************)
(* Nothing happens to a session, or to an attempt to begin one, without a  *)
(* reason that the user has given or is shown: a form that was sent says   *)
(* why it failed or gives way to the app, and the token goes only when the *)
(* server refused a request or has no administrator, or the user signed    *)
(* out (App.tsx, AuthPage.tsx, apps/web/src).                              *)
(***************************************************************************)
THEOREM NothingEndsWithoutReason == Spec => SessionsEndForAReason
BY InitOK, NextOK, StepsHaveReasons, PTL DEF Spec, SessionsEndForAReason
=============================================================================
