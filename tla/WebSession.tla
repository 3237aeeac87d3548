----------------------------- MODULE WebSession -----------------------------
(***************************************************************************)
(* The session of the web app: the tabs of a browser (App.tsx, AuthPage in *)
(* apps/web/src), which share one token in localStorage, and the server    *)
(* with its one administrator (server/internal/httpapi/auth.go).           *)
(*                                                                         *)
(* A handler of a tab runs to its next await.  The list of the tracks      *)
(* stands for those that are loaded after signing in: the discovery and    *)
(* the report are loaded, and dropped, in the same way.                    *)
(***************************************************************************)
EXTENDS Naturals, FiniteSets

CONSTANTS
  Tabs,
  None,          \* no token, no answer
  MaxCalls,      \* bound on the requests under way
  MaxSessions,   \* bound on the sessions the server creates
  MaxFaults,     \* bound on lost calls, expired sessions and reloads in all
  MaxClicks      \* bound on clicks that ask for a sign-out or a list

\* What the server answers, or that no answer comes.
Replies == {"yes", "no", "ok", "closed", "refused", "failed"}

ASSUME SessionAssumption ==
  /\ MaxCalls \in Nat \ {0}
  /\ {MaxSessions, MaxFaults, MaxClicks} \subseteq Nat
  /\ None \notin Nat \cup Replies

VARIABLES
  initialized,  \* the server has its administrator
  valid,        \* the sessions the server accepts
  created,      \* number of sessions created so far
  token,        \* the token in localStorage
  tab,          \* what every tab shows, see Tab
  calls,        \* requests under way
  cleared,      \* the tab that has removed the token, None while there is one
  count         \* how often the bounded things happened

server == <<initialized, valid, created>>
vars == <<server, token, tab, calls, cleared, count>>

Views == {"checking", "register", "login", "authenticated", "error"}
Kinds == {"status", "me", "register", "login", "logout", "tracks"}
Sessions == 1 .. MaxSessions

\* authView, submitting and error of the form, tracks, tracksLoading and
\* tracksError.  "page" tells the loads of the page apart.
Tab == [view : Views, submitting : BOOLEAN, error : BOOLEAN, shown : BOOLEAN,
        loading : BOOLEAN, failed : BOOLEAN, page : Nat]

-----------------------------------------------------------------------------
Counted(what) == count' = [count EXCEPT ![what] = @ + 1]

(***************************************************************************)
(* requestJson: a request carries the token that is stored as it is sent.  *)
(***************************************************************************)
Sent(pending, t, page, kind, tok) ==
  LET used == {c.n : c \in pending}
      n == CHOOSE n \in 1 .. MaxCalls : n \notin used
  IN  pending \cup {[n |-> n, tab |-> t, page |-> page, kind |-> kind,
                     token |-> tok, reply |-> None, session |-> None]}

Room(pending) == Cardinality(pending) < MaxCalls

\* A page as it is loaded: bootstrapAuth asks for the status.
NewPage(page) ==
  [view |-> "checking", submitting |-> FALSE, error |-> FALSE, shown |-> FALSE,
   loading |-> TRUE, failed |-> FALSE, page |-> page]

Init ==
  /\ initialized \in BOOLEAN
  /\ valid = {} /\ created = 0 /\ token = None /\ cleared = None
  /\ \E t \in Tabs :
       /\ tab = [u \in Tabs |-> [NewPage(0) EXCEPT !.view =
                                   IF u = t THEN "checking" ELSE "error"]]
       /\ calls = Sent({}, t, 0, "status", None)
  /\ count = [faults |-> 0, clicks |-> 0]

-----------------------------------------------------------------------------
(***************************************************************************)
(* What is shown.  The form is made anew when it appears, and forgets its  *)
(* error when it turns from registering into signing in.                   *)
(***************************************************************************)
FormViews == {"register", "login"}

Shell(page) ==
  CASE page.view \in FormViews -> "form"
    [] page.view \in {"checking", "error"} -> page.view
    [] page.view = "authenticated" -> "app"

FormParts(page) ==
  {part \in {"name", "password", "confirm", "alert", "button"} :
     CASE part = "confirm" -> page.view = "register"
       [] part = "alert"   -> page.error
       [] part = "button"  -> ~page.submitting
       [] OTHER            -> TRUE}

Shows(page, v) ==
  [page EXCEPT !.view = v,
     !.error = @ /\ page.view = v,
     !.submitting = @ /\ page.view \in FormViews]

\* What submit finds wrong with the fields: the name is blank, there is no
\* password, or it is too short or not repeated for a new account.
Fields == [name : BOOLEAN, password : {"none", "short", "long", "other"},
           again : {"none", "short", "long", "other"}]

Complaint(mode, fields) ==
  \/ ~fields.name
  \/ fields.password = "none"
  \/ mode = "register" /\ fields.password = "short"
  \/ mode = "register" /\ fields.password # fields.again

-----------------------------------------------------------------------------
(***************************************************************************)
(* The handlers.  Each says what becomes of the tab, of the token and of   *)
(* the other requests.                                                     *)
(***************************************************************************)
SignedOut(page) == [Shows(page, "login") EXCEPT !.shown = FALSE]

Clear(t) == token' = None /\ cleared' = IF token = None THEN cleared ELSE t
Keep == UNCHANGED <<token, cleared>>

Becomes(t, page) == tab' = [tab EXCEPT ![t] = page]

\* Once authenticated, the effects load the tracks.
Authenticated(t, page, pending, tok) ==
  /\ Becomes(t, [page EXCEPT !.view = "authenticated",
                             !.loading = TRUE, !.failed = FALSE])
  /\ calls' = Sent(pending, t, page.page, "tracks", tok)

\* handleUnauthorized, as far as the page goes.
Unauthorized(page) == IF token = None THEN page ELSE SignedOut(page)

\* A 401 of any request, and what the code that made it does then.  The form
\* forgets the error at once when it has turned into the one for signing in:
\* another page had signed in meanwhile, and a toast says that this is over.
Refused(t, kind, rest) ==
  /\ Clear(t)
  /\ Becomes(t,
       CASE kind = "me"       -> SignedOut(Unauthorized(tab[t]))
         [] kind = "logout"   -> SignedOut(Unauthorized(tab[t]))
         [] kind = "login"    -> [Unauthorized(tab[t]) EXCEPT !.submitting = FALSE,
                                    !.error = @ \/ token = None \/ tab[t].view # "register"]
         [] kind = "tracks"   -> [Unauthorized(tab[t]) EXCEPT !.loading = FALSE,
                                                              !.failed = TRUE])
  /\ calls' = rest

\* Mutant of BootstrapFailed: whatever went wrong, the session is over.
BootstrapFailedClearing(t, rest) ==
  /\ Clear(t) /\ Becomes(t, SignedOut(tab[t])) /\ calls' = rest

\* bootstrapAuth cannot reach the server: it offers to try again.
BootstrapFailed(t, rest) ==
  /\ Keep /\ Becomes(t, [tab[t] EXCEPT !.view = "error"]) /\ calls' = rest

\* bootstrapAuth, with the status.
StatusKnown(t, known, rest) ==
  IF ~known
  THEN /\ Clear(t) /\ calls' = rest
       /\ Becomes(t, Shows(tab[t], "register"))
  ELSE /\ Keep
       /\ IF token = None
          THEN calls' = rest /\ Becomes(t, Shows(tab[t], "login"))
          ELSE calls' = Sent(rest, t, tab[t].page, "me", token) /\ UNCHANGED tab

\* authenticated, with the session that submit was given.
LoggedIn(t, session, rest) ==
  /\ token' = session /\ cleared' = None
  /\ Authenticated(t, [tab[t] EXCEPT !.submitting = FALSE], rest, session)

\* logout ends the session of the page whatever the answer is.
LoggedOut(t, rest) ==
  Clear(t) /\ calls' = rest /\ Becomes(t, SignedOut(tab[t]))

\* Mutant of FormFailed: the form stays disabled.
FormFailedSubmitting(t, rest) == Keep /\ calls' = rest /\ UNCHANGED tab

\* submit shows the error, and the form can be sent again.
FormFailed(t, rest) ==
  /\ Keep /\ calls' = rest
  /\ Becomes(t, [tab[t] EXCEPT !.submitting = FALSE, !.error = TRUE])

\* Mutant of ListArrived: the error is not shown.
ListArrivedSilently(t, ok, rest) ==
  /\ Keep /\ calls' = rest
  /\ Becomes(t, [tab[t] EXCEPT !.loading = FALSE, !.shown = @ \/ ok])

\* refreshTracks, with the tracks or with an error.
ListArrived(t, ok, rest) ==
  /\ Keep /\ calls' = rest
  /\ Becomes(t, [tab[t] EXCEPT !.loading = FALSE, !.shown = @ \/ ok,
                               !.failed = @ \/ ~ok])

(***************************************************************************)
(* The answer of a request, or its failure, reaches the page that sent it. *)
(***************************************************************************)
Receive(c) ==
  LET t == c.tab  rest == calls \ {c} IN
  /\ c \in calls /\ c.reply # None /\ c.page = tab[t].page
  /\ \/ c.reply = "refused" /\ Refused(t, c.kind, rest)
     \/ /\ c.kind = "status" /\ c.reply \in {"yes", "no"}
        /\ StatusKnown(t, c.reply = "yes", rest)
     \/ /\ c.kind = "me" /\ c.reply = "ok"
        /\ Keep /\ Authenticated(t, tab[t], rest, token)
     \/ /\ c.kind \in {"status", "me"} /\ c.reply = "failed"
        /\ BootstrapFailed(t, rest)
     \/ /\ c.kind = "register" /\ c.reply = "ok"
        /\ Keep /\ UNCHANGED tab
        /\ calls' = Sent(rest, t, tab[t].page, "login", token)
     \/ c.kind = "login" /\ c.reply = "ok" /\ LoggedIn(t, c.session, rest)
     \/ /\ c.kind \in {"register", "login"} /\ c.reply \in {"failed", "closed"}
        /\ FormFailed(t, rest)
     \/ c.kind = "logout" /\ c.reply \in {"ok", "failed"} /\ LoggedOut(t, rest)
     \/ /\ c.kind = "tracks" /\ c.reply \in {"ok", "failed"}
        /\ ListArrived(t, c.reply = "ok", rest)
  /\ UNCHANGED <<server, count>>

-----------------------------------------------------------------------------
\* The server answers a request, and may refuse a password, other than the
\* one the form has just registered.
Answer(c, reply) ==
  calls' = (calls \ {c}) \cup {[c EXCEPT !.reply = reply]}

Serve(c) ==
  /\ c \in calls /\ c.reply = None
  /\ \/ /\ c.kind = "status"
        /\ Answer(c, IF initialized THEN "yes" ELSE "no")
        /\ UNCHANGED server
     \/ /\ c.kind \in {"me", "tracks"}
        /\ Answer(c, IF c.token \in valid THEN "ok" ELSE "refused")
        /\ UNCHANGED server
     \/ /\ c.kind = "logout"
        /\ Answer(c, IF c.token \in valid THEN "ok" ELSE "refused")
        /\ valid' = valid \ {c.token}
        /\ UNCHANGED <<initialized, created>>
     \/ /\ c.kind = "register"
        /\ Answer(c, IF initialized THEN "closed" ELSE "ok")
        /\ initialized' = TRUE
        /\ UNCHANGED <<valid, created>>
     \/ /\ c.kind = "login" /\ initialized /\ created < MaxSessions
        /\ created' = created + 1 /\ valid' = valid \cup {created + 1}
        /\ calls' = (calls \ {c}) \cup
                    {[c EXCEPT !.reply = "ok", !.session = created + 1]}
        /\ UNCHANGED initialized
     \/ /\ c.kind = "login"
        /\ tab[c.tab].view # "register" \/ created = MaxSessions
        /\ Answer(c, "refused") /\ UNCHANGED server
  /\ UNCHANGED <<token, tab, cleared, count>>

\* A request or its answer is lost, or it times out.
Lose(c) ==
  /\ c \in calls /\ c.reply # "failed"
  /\ count.faults < MaxFaults /\ Counted("faults")
  /\ Answer(c, "failed")
  /\ UNCHANGED <<server, token, tab, cleared>>

\* A session expires.
Expire(session) ==
  /\ session \in valid /\ count.faults < MaxFaults /\ Counted("faults")
  /\ valid' = valid \ {session}
  /\ UNCHANGED <<initialized, created, token, tab, calls, cleared>>

-----------------------------------------------------------------------------
\* submit of the form.  A wrong password is one the server refuses.
Submit(t) ==
  /\ Shell(tab[t]) = "form" /\ "button" \in FormParts(tab[t])
  /\ \E wrong \in {Complaint(tab[t].view, fields) : fields \in Fields} :
       IF wrong
       THEN Becomes(t, [tab[t] EXCEPT !.error = TRUE]) /\ UNCHANGED calls
       ELSE /\ Room(calls) /\ created < MaxSessions
            /\ Becomes(t, [tab[t] EXCEPT !.submitting = TRUE, !.error = FALSE])
            /\ calls' = Sent(calls, t, tab[t].page, tab[t].view, token)
  /\ UNCHANGED <<server, token, cleared, count>>

\* The button stays enabled while the sign-out is under way.
ClickLogout(t) ==
  /\ Shell(tab[t]) = "app" /\ Room(calls)
  /\ count.clicks < MaxClicks /\ Counted("clicks")
  /\ calls' = Sent(calls, t, tab[t].page, "logout", token)
  /\ UNCHANGED <<server, token, tab, cleared>>

\* refreshTracks, by its button, by the one of an error, or after a scan.
ClickRefresh(t) ==
  /\ Shell(tab[t]) = "app" /\ Room(calls)
  /\ count.clicks < MaxClicks /\ Counted("clicks")
  /\ Becomes(t, [tab[t] EXCEPT !.loading = TRUE, !.failed = FALSE])
  /\ calls' = Sent(calls, t, tab[t].page, "tracks", token)
  /\ UNCHANGED <<server, token, cleared>>

\* The button of the error page.
ClickRetry(t) ==
  /\ Shell(tab[t]) = "error" /\ Room(calls)
  /\ Becomes(t, [tab[t] EXCEPT !.view = "checking"])
  /\ calls' = Sent(calls, t, tab[t].page, "status", token)
  /\ UNCHANGED <<server, token, cleared, count>>

\* The page is loaded again: nobody waits for the answers of before.
Reload(t) ==
  LET rest == {c \in calls : c.tab # t \/ c.reply = None} IN
  /\ Room(rest)
  /\ count.faults < MaxFaults /\ Counted("faults")
  /\ Becomes(t, NewPage(tab[t].page + 1))
  /\ calls' = Sent(rest, t, tab[t].page + 1, "status", token)
  /\ UNCHANGED <<server, token, cleared>>

\* An answer for a page that is gone.
Drop(c) ==
  /\ c \in calls /\ c.reply # None /\ c.page # tab[c.tab].page
  /\ calls' = calls \ {c}
  /\ UNCHANGED <<server, token, tab, cleared, count>>

-----------------------------------------------------------------------------
Network(t) == \E c \in calls : c.tab = t /\ (Serve(c) \/ Receive(c) \/ Drop(c))

Next ==
  \/ \E t \in Tabs : Network(t)
  \/ \E c \in calls : Lose(c)
  \/ \E session \in Sessions : Expire(session)
  \/ \E t \in Tabs : \/ Submit(t) \/ ClickLogout(t) \/ ClickRefresh(t)
                     \/ ClickRetry(t) \/ Reload(t)

\* Every request is answered, or times out after 15 s.
Spec == Init /\ [][Next]_vars /\ \A t \in Tabs : WF_vars(Network(t))

-----------------------------------------------------------------------------
\* The shape of the state; the token is one the server has given out.
TypeOK ==
  /\ initialized \in BOOLEAN /\ created \in 0 .. MaxSessions
  /\ valid \subseteq 1 .. created
  /\ token \in (1 .. created) \cup {None}
  /\ tab \in [Tabs -> Tab]
  /\ Cardinality(calls) <= MaxCalls
  /\ \A c \in calls : c.kind \in Kinds /\ c.page <= tab[c.tab].page

(***************************************************************************)
(* A page is never left in the app without a token, whichever answers come *)
(* late, unless another tab has signed out.                                *)
(***************************************************************************)
SignedInHasToken ==
  \A t \in Tabs :
    tab[t].view = "authenticated" /\ token = None => cleared # t

(***************************************************************************)
(* No blank page: in the app there are tracks, or they are being loaded,   *)
(* or an error says why not, however the requests overlap.                 *)
(***************************************************************************)
NoBlankPage ==
  \A t \in Tabs :
    tab[t].view = "authenticated" =>
      tab[t].shown \/ tab[t].loading \/ tab[t].failed

\* The indicator of loading is on only while a request is under way.
LoadingIsReal ==
  \A t \in Tabs :
    tab[t].view = "authenticated" /\ tab[t].loading =>
      \E c \in calls : c.tab = t /\ c.page = tab[t].page /\ c.kind = "tracks"

(***************************************************************************)
(* Whatever answers come late and whichever tab signs in or out: no page   *)
(* is in the app without a session of its own doing, blank, or loading for *)
(* nothing (App.tsx).                                                      *)
(***************************************************************************)
PagesAreWhole == TypeOK /\ SignedInHasToken /\ NoBlankPage /\ LoadingIsReal

(***************************************************************************)
(* A form that can be sent again after it was sent says why, or the app is *)
(* shown, or the form to register has become the one to sign in, with a    *)
(* toast: no attempt to sign in ends without a word.                       *)
(***************************************************************************)
FormAnswers ==
  \A t \in Tabs :
    tab[t].submitting /\ ~tab'[t].submitting /\ tab'[t].page = tab[t].page
    => \/ Shell(tab'[t]) = "app" \/ "alert" \in FormParts(tab'[t])
       \/ /\ tab[t].view = "register" /\ tab'[t].view = "login"
          /\ token # None /\ token' = None

(***************************************************************************)
(* A failure of the network never ends a session: the token goes only when *)
(* the server refused a request, has no administrator, or the user asked.  *)
(***************************************************************************)
OnlyRefusalsEndSessions ==
  token # None /\ token' = None =>
    \E c \in calls \ calls' :
      c.reply \in {"refused", "no"} \/ c.kind = "logout"

(***************************************************************************)
(* Nothing happens to a session, or to an attempt to begin one, without a  *)
(* reason that the user has given or is shown (App.tsx, AuthPage.tsx).     *)
(***************************************************************************)
SessionsEndForAReason == [][FormAnswers /\ OnlyRefusalsEndSessions]_vars

(***************************************************************************)
(* "The sign-in has expired": an answer for an earlier session does not    *)
(* end a session that the server accepts.  This does not hold: a 401 of a  *)
(* page clears the token that another page has stored since.               *)
(***************************************************************************)
SessionSurvives ==
  [][token' = None /\ token \in valid =>
       \E c \in calls \ calls' : c.token = token]_vars

(***************************************************************************)
(* Neither the first check nor a form waits forever.                       *)
(***************************************************************************)
EverythingSettles ==
  \A t \in Tabs :
    /\ tab[t].view = "checking" ~> tab[t].view # "checking"
    /\ tab[t].submitting ~> ~tab[t].submitting
=============================================================================
