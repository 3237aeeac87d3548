------------------------ MODULE UserDataStoreProofs ------------------------
(***************************************************************************)
(* Proofs about UserDataStore, for every set of accounts and requests,     *)
(* every limit and every combination of faults.                            *)
(***************************************************************************)
EXTENDS UserDataStore, CollectionsProofs, TLAPS

-----------------------------------------------------------------------------
(***************************************************************************)
(* The outcome of a request is the account with some of its fields         *)
(* replaced, its revision never: the store alone counts revisions.         *)
(***************************************************************************)
HasShape(user, revision) ==
  user = [revision  |-> revision,       favorites |-> user.favorites,
          playlists |-> user.playlists, mode      |-> user.mode]

\* Whatever the request, Apply hands back a record of the four fields with
\* the revision it was given (the closures of store.go never touch it).
LEMMA ApplyKeepsRevision ==
  ASSUME NEW user \in UserData, NEW r \in Request
  PROVE  HasShape(Apply(user, r).user, user.revision)
<1>same. HasShape(user, user.revision)
  BY DEF HasShape, UserData
<1>f. \A x : HasShape([user EXCEPT !.favorites = x], user.revision)
  BY DEF HasShape, UserData
<1>p. \A x : HasShape([user EXCEPT !.playlists = x], user.revision)
  BY DEF HasShape, UserData
<1>m. \A x : HasShape([user EXCEPT !.mode = x], user.revision)
  BY DEF HasShape, UserData
<1>1. CASE r.op = "add_favorite"
  <2>1. HasShape(AddFavorite(user, r.track).user, user.revision)
    BY <1>f, <1>same
       DEF AddFavorite, Changed, Unchanged, Refused, Outcome
  <2> QED BY <1>1, <2>1 DEF Apply
<1>2. CASE r.op = "remove_favorite"
  <2>1. HasShape(RemoveFavorite(user, r.track).user, user.revision)
    BY <1>f, <1>same
       DEF RemoveFavorite, Changed, Unchanged, Refused, Outcome
  <2> QED BY <1>2, <2>1 DEF Apply
<1>3. CASE r.op = "create_playlist"
  <2>1. HasShape(CreatePlaylist(user, r.playlist, r.name).user, user.revision)
    BY <1>p, <1>same
       DEF CreatePlaylist, Changed, Unchanged, Refused, Outcome
  <2> QED BY <1>3, <2>1 DEF Apply
<1>4. CASE r.op = "rename_playlist"
  <2>1. HasShape(RenamePlaylist(user, r.playlist, r.name).user, user.revision)
    BY <1>p, <1>same
       DEF RenamePlaylist, Changed, Unchanged, Refused, Outcome
  <2> QED BY <1>4, <2>1 DEF Apply
<1>5. CASE r.op = "delete_playlist"
  <2>1. HasShape(DeletePlaylist(user, r.playlist).user, user.revision)
    BY <1>p, <1>same
       DEF DeletePlaylist, Changed, Unchanged, Refused, Outcome
  <2> QED BY <1>5, <2>1 DEF Apply
<1>6. CASE r.op = "add_track"
  <2>1. HasShape(AddPlaylistTrack(user, r.playlist, r.track).user, user.revision)
    BY <1>p, <1>same
       DEF AddPlaylistTrack, Changed, Unchanged, Refused, Outcome
  <2> QED BY <1>6, <2>1 DEF Apply
<1>7. CASE r.op = "remove_track"
  <2>1. HasShape(RemovePlaylistTrack(user, r.playlist, r.track).user, user.revision)
    BY <1>p, <1>same
       DEF RemovePlaylistTrack, Changed, Unchanged, Refused, Outcome
  <2> QED BY <1>7, <2>1 DEF Apply
<1>8. CASE r.op = "import"
  <2>1. HasShape(ImportCollections(user, r.favorites, r.playlists).user, user.revision)
    BY <1>same
       DEF HasShape, ImportCollections, Changed, Unchanged, Refused, Outcome
  <2> QED BY <1>8, <2>1 DEF Apply
<1>9. CASE r.op = "set_playback_mode"
  <2>1. HasShape(SetPlaybackMode(user, r.mode).user, user.revision)
    BY <1>m, <1>same
       DEF SetPlaybackMode, Changed, Unchanged, Refused, Outcome
  <2> QED BY <1>9, <2>1 DEF Apply
<1> QED BY <1>1, <1>2, <1>3, <1>4, <1>5, <1>6, <1>7, <1>8, <1>9 DEF Request

\* An account that validateDocument accepts after a request is a typed
\* record, one revision on.
LEMMA NextRevisionType ==
  ASSUME NEW user \in UserData, NEW r \in Request,
         ValidUser(NextRevision(Apply(user, r).user))
  PROVE  /\ NextRevision(Apply(user, r).user) \in UserData
         /\ NextRevision(Apply(user, r).user).revision = user.revision + 1
<1> DEFINE after == Apply(user, r).user
<1>1. after = [revision  |-> user.revision,   favorites |-> after.favorites,
               playlists |-> after.playlists, mode      |-> after.mode]
  BY ApplyKeepsRevision DEF HasShape
<1>2. user.revision \in Nat
  BY DEF UserData
<1>3. NextRevision(after) =
        [revision  |-> user.revision + 1, favorites |-> after.favorites,
         playlists |-> after.playlists,   mode      |-> after.mode]
  <2> HIDE DEF after
  <2> QED BY <1>1, <1>2 DEF NextRevision
<1>4. ValidUser(NextRevision(after))
  OBVIOUS
<1> HIDE DEF after
<1>5. /\ after.favorites \in Seq(Tracks)
      /\ after.playlists \in Seq(Playlist)
      /\ after.mode \in PlaybackModes
  BY <1>3, <1>4 DEF ValidUser
<1>6. /\ NextRevision(after) \in UserData
      /\ NextRevision(after).revision = user.revision + 1
  BY <1>2, <1>3, <1>5 DEF UserData
<1> QED BY <1>6 DEF after

-----------------------------------------------------------------------------
(***************************************************************************)
(* The order of documents that Ahead is.                                   *)
(***************************************************************************)
LEMMA EmptyDocumentType == EmptyDocument \in Document
BY DEF EmptyDocument, Document, EmptyUser, UserData, PlaybackModes

\* A document is at least as far as itself.
LEMMA AheadReflexive ==
  ASSUME NEW d \in Document
  PROVE  Ahead(d, d)
BY DEF Ahead

\* Being at least as far is transitive, account by account.
LEMMA AheadTransitive ==
  ASSUME NEW d \in Document, NEW e \in Document, NEW f \in Document,
         Ahead(d, e), Ahead(e, f)
  PROVE  Ahead(d, f)
<1> SUFFICES ASSUME NEW u \in Users
             PROVE  d[u] = f[u] \/ d[u].revision > f[u].revision
  BY DEF Ahead
<1>1. d[u].revision \in Nat /\ e[u].revision \in Nat /\ f[u].revision \in Nat
  BY DEF Document, UserData
<1>2. d[u] = e[u] \/ d[u].revision > e[u].revision
  BY DEF Ahead
<1>3. e[u] = f[u] \/ e[u].revision > f[u].revision
  BY DEF Ahead
<1> QED BY <1>1, <1>2, <1>3

-----------------------------------------------------------------------------
(***************************************************************************)
(* The inductive invariant.  WriteInv says what is known of the document   *)
(* being written while the lock is held; FileInv that the file is one of   *)
(* the contents a loss of power may leave, all of which load accepts;      *)
(* OrderInv puts the documents in order: what clients saw, what is served, *)
(* what the next start may find.                                           *)
(***************************************************************************)
WriteInv ==
  /\ phase \in {"writing", "renamed"} =>
       /\ ValidDocument(next)
       /\ \A u \in Users \ {writer} : next[u] = document[u]
       /\ next[writer].revision = document[writer].revision + 1
       /\ next \in Results(document)
  /\ phase = "renamed" => file = next

FileInv ==
  /\ file \in recoverable
  /\ phase # "down" => document \in recoverable
  /\ \A content \in recoverable : Loadable(content)

OrderInv ==
  /\ \A content \in Recoverable : Ahead(content, answered)
  /\ phase # "down" => /\ Ahead(document, answered)
                       /\ \A content \in Recoverable :
                            Ahead(content, document)
  /\ phase = "down" => Recoverable = {file}

IInv == TypeOK /\ WriteInv /\ FileInv /\ (OneKindOfStop => OrderInv)

-----------------------------------------------------------------------------
(***************************************************************************)
(* Type correctness.                                                       *)
(***************************************************************************)
LEMMA ResultType ==
  ASSUME StoreAssumption, NEW u \in Users, NEW r \in Requests,
         document \in Document,
         ValidDocument([document EXCEPT
                          ![u] = NextRevision(Apply(document[u], r).user)])
  PROVE  LET result == [document EXCEPT
                          ![u] = NextRevision(Apply(document[u], r).user)]
         IN  /\ result \in Document
             /\ result[u].revision = document[u].revision + 1
             /\ \A v \in Users \ {u} : result[v] = document[v]
<1> DEFINE after  == NextRevision(Apply(document[u], r).user)
           result == [document EXCEPT ![u] = after]
<1>1. document[u] \in UserData /\ r \in Request
  BY DEF Document, StoreAssumption
<1>2. result[u] = after
  BY DEF Document
<1>3. ValidUser(after)
  BY <1>2 DEF ValidDocument
<1>4. after \in UserData /\ after.revision = document[u].revision + 1
  BY <1>1, <1>3, NextRevisionType
<1> HIDE DEF after
<1>5. result \in Document
  BY <1>4 DEF Document
<1>6. \A v \in Users \ {u} : result[v] = document[v]
  BY DEF Document
<1> QED BY <1>2, <1>4, <1>5, <1>6 DEF after

\* Every step keeps the types.
LEMMA TypeStep ==
  ASSUME StoreAssumption, TypeOK, [Next]_vars
  PROVE  TypeOK'
<1>1. ASSUME NEW u \in Users, Read(u) PROVE TypeOK'
  <2>1. document[u] \in UserData
    BY DEF TypeOK, Document
  <2> QED BY <1>1, <2>1 DEF Read, TypeOK, Document
<1>2. ASSUME NEW u \in Users, NEW r \in Requests, BeginWrite(u, r)
      PROVE  TypeOK'
  <2>1. next' \in Document
    BY <1>2, ResultType DEF BeginWrite, TypeOK
  <2> QED BY <1>2, <2>1 DEF BeginWrite, TypeOK
<1>3. CASE Abandon
  BY <1>3 DEF Abandon, TypeOK
<1>4. CASE RenameFile
  BY <1>4 DEF RenameFile, TypeOK
<1>5. CASE Publish
  <2>1. next[writer] \in UserData
    BY DEF TypeOK, Document
  <2>2. answered' \in Document
    BY <1>5, <2>1 DEF Publish, TypeOK, Document
  <2>3. refused' \in Document
    BY <1>5, EmptyDocumentType DEF Publish, TypeOK
  <2> QED BY <1>5, <2>2, <2>3 DEF Publish, TypeOK
<1>6. CASE Crash
  BY <1>6, EmptyDocumentType DEF Crash, Stop, TypeOK
<1>7. CASE PowerLoss
  BY <1>7, EmptyDocumentType DEF PowerLoss, Stop, TypeOK
<1>8. CASE Restart
  BY <1>8 DEF Restart, TypeOK
<1>9. CASE UNCHANGED vars
  BY <1>9 DEF vars, TypeOK
<1> QED
  BY <1>1, <1>2, <1>3, <1>4, <1>5, <1>6, <1>7, <1>8, <1>9
     DEF Next, AnswerUnchanged, RefuseOversized, FailWrite, FailDirSync

\* Every variable keeps its type: in particular a document in memory or in
\* the file is a function of typed accounts whatever requests were applied.
THEOREM TypeCorrect == Spec => []TypeOK
<1>1. Init => TypeOK
  BY EmptyDocumentType DEF Init, TypeOK
<1>2. TypeOK /\ [Next]_vars => TypeOK'
  BY StoreAssumption, TypeStep
<1> QED BY <1>1, <1>2, PTL DEF Spec

-----------------------------------------------------------------------------
(***************************************************************************)
(* The steps preserve the inductive invariant, one lemma per part of it.   *)
(***************************************************************************)
LEMMA WriteStep ==
  ASSUME StoreAssumption, IInv, [Next]_vars
  PROVE  WriteInv'
<1> USE DEF IInv
<1>1. ASSUME NEW u \in Users, Read(u) PROVE WriteInv'
  BY <1>1 DEF Read, WriteInv
<1>2. ASSUME NEW u \in Users, NEW r \in Requests, BeginWrite(u, r)
      PROVE  WriteInv'
  <2> DEFINE result == [document EXCEPT
                          ![u] = NextRevision(Apply(document[u], r).user)]
  <2>1. /\ next' = result /\ writer' = u /\ document' = document
        /\ phase' = "writing" /\ ValidDocument(result)
        /\ Apply(document[u], r).status = "changed"
    BY <1>2 DEF BeginWrite
  <2>2. /\ result[u].revision = document[u].revision + 1
        /\ \A v \in Users \ {u} : result[v] = document[v]
    BY <2>1, ResultType DEF TypeOK
  <2>3. ValidDocument(next)'
    BY <2>1 DEF ValidDocument, KnownUsers
  <2>4. result \in Results(document)
    <3>1. <<u, r>> \in {q \in Users \X Requests :
                          Apply(document[q[1]], q[2]).status = "changed"}
      BY <2>1
    <3>2. result = [document EXCEPT ![<<u, r>>[1]] =
                      NextRevision(Apply(document[<<u, r>>[1]],
                                         <<u, r>>[2]).user)]
      OBVIOUS
    <3> HIDE DEF result
    <3> QED BY <3>1, <3>2, Zenon DEF Results
  <2>5. Results(document)' = Results(document)
    BY <2>1 DEF Results
  <2> HIDE DEF result
  <2> QED BY <2>1, <2>2, <2>3, <2>4, <2>5 DEF WriteInv
<1>3. CASE Abandon
  BY <1>3 DEF Abandon, WriteInv
<1>4. CASE RenameFile
  <2>1. ValidDocument(next)'
    BY <1>4 DEF RenameFile, WriteInv, ValidDocument, KnownUsers
  <2> QED BY <1>4, <2>1 DEF RenameFile, WriteInv
<1>5. CASE Publish
  BY <1>5 DEF Publish, WriteInv
<1>6. CASE Stop
  BY <1>6 DEF Stop, WriteInv
<1>7. CASE Restart
  BY <1>7 DEF Restart, WriteInv
<1>8. CASE UNCHANGED vars
  <2>1. ValidDocument(next)' <=> ValidDocument(next)
    BY <1>8 DEF vars, ValidDocument, KnownUsers
  <2> QED BY <1>8, <2>1 DEF vars, WriteInv
<1> QED
  BY <1>1, <1>2, <1>3, <1>4, <1>5, <1>6, <1>7, <1>8
     DEF Next, AnswerUnchanged, RefuseOversized, FailWrite, FailDirSync,
         Crash, PowerLoss

\* Every step keeps all contents that can be found loadable.
LEMMA FileStep ==
  ASSUME StoreAssumption, IInv, [Next]_vars
  PROVE  FileInv'
<1> USE DEF IInv
<1>1. ASSUME NEW u \in Users, Read(u) PROVE FileInv'
  BY <1>1 DEF Read, FileInv
<1>2. ASSUME NEW u \in Users, NEW r \in Requests, BeginWrite(u, r)
      PROVE  FileInv'
  BY <1>2 DEF BeginWrite, FileInv
<1>3. CASE Abandon /\ phase # "down"
  BY <1>3 DEF Abandon, FileInv
<1>4. CASE RenameFile
  <2>1. Loadable(next)
    BY <1>4 DEF RenameFile, WriteInv, Loadable
  <2> QED BY <1>4, <2>1 DEF RenameFile, FileInv
<1>5. CASE Publish
  BY <1>5 DEF Publish, FileInv, WriteInv
<1>6. CASE Crash
  BY <1>6 DEF Crash, Stop, FileInv
<1>7. CASE PowerLoss
  BY <1>7 DEF PowerLoss, Stop, FileInv
<1>8. CASE Restart
  BY <1>8 DEF Restart, FileInv
<1>9. CASE UNCHANGED vars
  BY <1>9 DEF vars, FileInv
<1> QED
  BY <1>1, <1>2, <1>3, <1>4, <1>5, <1>6, <1>7, <1>8, <1>9
     DEF Next, AnswerUnchanged, RefuseOversized, FailWrite, FailDirSync

\* The document being written is later than the one served.
LEMMA NextIsAhead ==
  ASSUME IInv, phase \in {"writing", "renamed"}
  PROVE  Ahead(next, document) /\ next[writer].revision > document[writer].revision
<1>1. document[writer].revision \in Nat /\ writer \in Users
  BY DEF IInv, TypeOK, Document, UserData
<1>2. next[writer].revision > document[writer].revision
  BY <1>1 DEF IInv, WriteInv
<1>3. \A u \in Users \ {writer} : next[u] = document[u]
  BY DEF IInv, WriteInv
<1> QED BY <1>2, <1>3 DEF Ahead

\* Every step keeps the order of what was answered, served and found.
LEMMA OrderStep ==
  ASSUME StoreAssumption, IInv, OneKindOfStop, [Next]_vars
  PROVE  OrderInv'
<1> USE DEF IInv
<1>0. /\ file \in Document /\ document \in Document /\ answered \in Document
      /\ next \in Document /\ writer \in Users
      /\ \A content \in Recoverable : content \in Document
  BY DEF TypeOK, Recoverable
<1>1. ASSUME NEW u \in Users, Read(u) PROVE OrderInv'
  <2>1. /\ phase' = phase /\ phase # "down" /\ document' = document
        /\ Recoverable' = Recoverable
        /\ answered' = [answered EXCEPT ![u] = document[u]]
    BY <1>1 DEF Read, Recoverable
  <2>2. \A content \in Recoverable : Ahead(content, answered')
    BY <2>1, <1>0 DEF OrderInv, Ahead, Document
  <2>3. Ahead(document, answered')
    BY <2>1, <1>0 DEF OrderInv, Ahead, Document
  <2> QED BY <2>1, <2>2, <2>3 DEF OrderInv, Ahead
<1>2. ASSUME NEW u \in Users, NEW r \in Requests, BeginWrite(u, r)
      PROVE  OrderInv'
  BY <1>2 DEF BeginWrite, OrderInv, Recoverable, Ahead
<1>3. CASE Abandon /\ phase # "down"
  BY <1>3 DEF Abandon, OrderInv, Recoverable, Ahead
<1>4. CASE RenameFile
  <2>1. /\ phase # "down" /\ phase' # "down" /\ document' = document
        /\ answered' = answered /\ Recoverable' \subseteq Recoverable \cup {next}
    BY <1>4 DEF RenameFile, Recoverable
  <2>2. Ahead(next, document)
    BY <1>4, NextIsAhead DEF RenameFile
  <2>3. Ahead(next, answered)
    BY <1>0, <2>1, <2>2, AheadTransitive DEF OrderInv
  <2> QED BY <2>1, <2>2, <2>3 DEF OrderInv, Ahead
<1>5. CASE Publish
  <2>1. /\ phase # "down" /\ phase' # "down" /\ document' = next
        /\ answered' = [answered EXCEPT ![writer] = next[writer]]
        /\ Recoverable' = {next}
    BY <1>5 DEF Publish, Recoverable, WriteInv
  <2>2. Ahead(next, answered)
    BY <1>0, <1>5, <2>1, NextIsAhead, AheadTransitive DEF OrderInv, Publish
  <2>3. Ahead(next, answered')
    BY <1>0, <2>1, <2>2 DEF Ahead, Document
  <2>4. Ahead(next, next)
    BY <1>0, AheadReflexive
  <2> QED BY <2>1, <2>3, <2>4 DEF OrderInv, Ahead
<1>6. CASE Crash
  <2>1. /\ phase' = "down" /\ answered' = answered
        /\ Recoverable' = {file} /\ Recoverable = {file} /\ file' = file
    BY <1>6 DEF Crash, Stop, Recoverable, OneKindOfStop
  <2> QED BY <2>1 DEF OrderInv, Ahead
<1>7. CASE PowerLoss
  <2>1. /\ phase' = "down" /\ answered' = answered /\ file' \in Recoverable
        /\ Recoverable' = {file'}
    BY <1>7 DEF PowerLoss, Stop, Recoverable
  <2> QED BY <2>1 DEF OrderInv, Ahead
<1>8. CASE Restart
  <2>1. /\ phase = "down" /\ phase' # "down" /\ document' = file
        /\ answered' = answered /\ Recoverable' = Recoverable
    BY <1>8 DEF Restart, Recoverable
  <2>2. Recoverable = {file} /\ Ahead(file, answered) /\ Ahead(file, file)
    BY <1>0, <2>1, AheadReflexive DEF OrderInv
  <2> QED BY <2>1, <2>2 DEF OrderInv, Ahead
<1>9. CASE UNCHANGED vars
  BY <1>9 DEF vars, OrderInv, Recoverable, Ahead
<1> QED
  BY <1>1, <1>2, <1>3, <1>4, <1>5, <1>6, <1>7, <1>8, <1>9
     DEF Next, AnswerUnchanged, RefuseOversized, FailWrite, FailDirSync

-----------------------------------------------------------------------------
\* The invariant holds throughout.
LEMMA Invariance == Spec => []IInv
<1>1. Init => IInv
  <2> SUFFICES ASSUME Init PROVE IInv
    OBVIOUS
  <2>1. TypeOK
    BY EmptyDocumentType DEF Init, TypeOK
  <2>2. WriteInv
    BY DEF Init, WriteInv
  <2>3. FileInv
    BY DEF Init, FileInv, Loadable
  <2>4. OrderInv
    BY AheadReflexive, EmptyDocumentType DEF Init, OrderInv, Recoverable
  <2> QED BY <2>1, <2>2, <2>3, <2>4 DEF IInv
<1>2. IInv /\ [Next]_vars => IInv'
  <2> SUFFICES ASSUME IInv, [Next]_vars PROVE IInv'
    OBVIOUS
  <2>1. TypeOK'
    BY StoreAssumption, TypeStep DEF IInv
  <2>2. OneKindOfStop' => OneKindOfStop
    BY DEF OneKindOfStop
  <2> QED BY StoreAssumption, <2>1, <2>2, WriteStep, FileStep, OrderStep
          DEF IInv
<1> QED BY <1>1, <1>2, PTL DEF Spec

\* The server can always be started again: whatever a crash, a failed write
\* or a loss of power leaves in the file, load accepts it.
THEOREM RestartAlwaysSucceeds == Spec => []RestartSucceeds
<1>1. IInv => RestartSucceeds
  BY DEF IInv, FileInv, RestartSucceeds
<1> QED BY <1>1, Invariance, PTL

\* No answer is lost: what a client saw is found by the next start, or a
\* later revision of it, if crashes and losses of power do not combine.
THEOREM AnswersAreDurable == Spec => []AnsweredIsDurable
<1>1. IInv => AnsweredIsDurable
  BY DEF IInv, OrderInv, AnsweredIsDurable
<1> QED BY <1>1, Invariance, PTL

\* Clients see the revisions of an account in order, and never two contents
\* under one revision, across failed writes, crashes and restarts.
THEOREM AnswersAlwaysGoForward == Spec => AnswersGoForward
<1>1. IInv /\ [Next]_vars =>
        [OneKindOfStop => Ahead(answered', answered)]_answered
  <2> SUFFICES ASSUME IInv, [Next]_vars, OneKindOfStop,
                      answered' # answered
               PROVE  Ahead(answered', answered)
    OBVIOUS
  <2>0. /\ document \in Document /\ answered \in Document /\ next \in Document
        /\ writer \in Users
    BY DEF IInv, TypeOK
  <2>1. ASSUME NEW u \in Users, Read(u) PROVE Ahead(answered', answered)
    BY <2>0, <2>1 DEF Read, IInv, OrderInv, Ahead, Document
  <2>2. CASE Publish
    <3>1. Ahead(document, answered) /\ Ahead(next, document)
      BY <2>2, NextIsAhead DEF IInv, OrderInv, Publish
    <3>2. Ahead(next, answered)
      BY <2>0, <3>1, AheadTransitive
    <3> QED BY <2>0, <2>2, <3>2 DEF Publish, Ahead, Document
  <2> QED
    BY <2>1, <2>2
       DEF Next, vars, AnswerUnchanged, BeginWrite, RefuseOversized, FailWrite,
           FailDirSync, Abandon, RenameFile, Crash, PowerLoss, Stop, Restart
<1> QED BY <1>1, Invariance, PTL DEF Spec, AnswersGoForward

\* The store implements DurableUserData: what is served, or found by the
\* next start, only changes by one whole request.
THEOREM Refinement == Spec => ImplementsDurable
<1>1. Init => Durable!Init
  BY DEF Init, Durable!Init, committed
<1>2. IInv /\ [Next]_vars => [Durable!Next]_(Durable!vars)
  <2> SUFFICES ASSUME IInv, [Next]_vars
               PROVE  [Durable!Next]_(Durable!vars)
    OBVIOUS
  <2> DEFINE limbo == recoverable \ {committed}
  <2>0. recoverable = limbo \cup {committed}
    BY DEF IInv, FileInv, committed
  <2>a. ASSUME committed' \in recoverable, recoverable' \subseteq recoverable
        PROVE  Durable!Resolve
    BY <2>0, <2>a DEF Durable!Resolve
  <2>b. ASSUME UNCHANGED <<committed, recoverable>>
        PROVE  UNCHANGED Durable!vars
    BY <2>b DEF Durable!vars
  <2>1. ASSUME NEW u \in Users, Read(u) PROVE UNCHANGED Durable!vars
    BY <2>1, <2>b DEF Read, committed
  <2>2. ASSUME NEW u \in Users, NEW r \in Requests, BeginWrite(u, r)
        PROVE  UNCHANGED Durable!vars
    BY <2>2, <2>b DEF BeginWrite, committed
  <2>3. CASE Abandon /\ phase # "down"
    BY <2>3, <2>b DEF Abandon, committed
  <2>4. CASE RenameFile
    <3>1. /\ committed = document /\ committed' = committed
          /\ recoverable' = recoverable \cup {next}
      BY <2>4 DEF RenameFile, committed
    <3>2. next \in Results(committed)
      BY <2>4, <3>1 DEF RenameFile, IInv, WriteInv
    <3>3. CASE next = committed
      BY <3>1, <3>3, <2>0, <2>b
    <3>4. CASE next # committed
      <4>1. limbo' = limbo \cup {next}
        BY <3>1, <3>4
      <4> QED BY <3>1, <3>2, <4>1 DEF Durable!Attempt, Durable!Next
    <3> QED BY <3>3, <3>4
  <2>5. CASE Publish
    <3>1. committed' \in recoverable /\ recoverable' \subseteq recoverable
      BY <2>5 DEF Publish, committed, IInv, WriteInv, FileInv
    <3> QED BY <3>1, <2>a DEF Durable!Next
  <2>6. CASE Crash \/ PowerLoss
    <3>1. committed' \in recoverable /\ recoverable' \subseteq recoverable
      BY <2>6 DEF Crash, PowerLoss, Stop, committed, IInv, FileInv
    <3> QED BY <3>1, <2>a DEF Durable!Next
  <2>7. CASE Restart
    BY <2>7, <2>b DEF Restart, committed
  <2>8. CASE UNCHANGED vars
    BY <2>8, <2>b DEF vars, committed
  <2> QED
    BY <2>1, <2>2, <2>3, <2>4, <2>5, <2>6, <2>7, <2>8
       DEF Next, AnswerUnchanged, RefuseOversized, FailWrite, FailDirSync
<1> QED BY <1>1, <1>2, Invariance, PTL DEF Spec, ImplementsDurable, Durable!Spec

-----------------------------------------------------------------------------
(***************************************************************************)
(* What the accounts hold.  validateDocument looks for playlists with one  *)
(* id and not for repeated tracks; that no list repeats one is kept by the *)
(* requests, and has to be known of every document that may come to be     *)
(* served: the one being written, and those a restart may find.            *)
(***************************************************************************)
Sound(doc) == \A u \in Users : /\ DistinctUser(doc[u])
                               /\ UniqueIds(doc[u].playlists)

ContentInv ==
  /\ Sound(document)
  /\ \A content \in recoverable : Sound(content)
  /\ phase \in {"writing", "renamed"} => Sound(next)

\* An empty document is sound.
LEMMA EmptyIsSound == Sound(EmptyDocument)
<1>1. \A u \in Users : /\ Len(EmptyDocument[u].favorites) = 0
                       /\ Len(EmptyDocument[u].playlists) = 0
                       /\ EmptyDocument[u].favorites = <<>>
  BY DEF EmptyDocument, EmptyUser
<1>2. IsInjective(<<>>)
  BY DEF IsInjective
<1> QED BY <1>1, <1>2 DEF Sound, DistinctUser, DistinctLists, UniqueIds

\* What a request makes of a sound document is sound: the request keeps the
\* lists free of repetitions, the validation refuses two playlists of one id.
LEMMA ResultIsSound ==
  ASSUME StoreAssumption, NEW u \in Users, NEW r \in Requests,
         document \in Document, Sound(document),
         ValidDocument([document EXCEPT
                          ![u] = NextRevision(Apply(document[u], r).user)])
  PROVE  Sound([document EXCEPT ![u] = NextRevision(Apply(document[u], r).user)])
<1>1. PICK user : user = document[u]
  OBVIOUS
<1> DEFINE after  == Apply(user, r).user
           kept   == NextRevision(after)
           result == [document EXCEPT ![u] = kept]
<1>2. r \in Request /\ user \in UserData /\ WellKept(user)
  BY <1>1 DEF StoreAssumption, Document, Sound, WellKept
<1>3. after \in UserData /\ DistinctUser(after)
  BY <1>2, RequestApplies DEF AppliesWell
<1> HIDE DEF after
<1>4. /\ kept.favorites = after.favorites /\ kept.playlists = after.playlists
  BY <1>3 DEF NextRevision, UserData
<1>5. result[u] = kept /\ \A v \in Users \ {u} : result[v] = document[v]
  BY DEF Document
<1>6. ValidUser(kept)
  BY <1>1, <1>5 DEF ValidDocument, after
<1> HIDE DEF kept
<1>7. UniqueIds(kept.playlists)
  <2>1. kept.playlists \in Seq(Playlist)
    BY <1>6 DEF ValidUser
  <2>2. DOMAIN kept.playlists = 1..Len(kept.playlists)
    BY <2>1, LenProperties
  <2> QED BY <1>6, <2>2 DEF ValidUser, UniqueIds
<1>8. DistinctUser(kept)
  BY <1>3, <1>4 DEF DistinctUser
<1> HIDE DEF result
<1>9. Sound(result)
  BY <1>5, <1>7, <1>8 DEF Sound
<1> QED BY <1>1, <1>9 DEF result, kept, after

\* Every step keeps the documents sound.
LEMMA ContentStep ==
  ASSUME StoreAssumption, IInv, ContentInv, [Next]_vars
  PROVE  ContentInv'
<1> USE DEF ContentInv
<1>1. ASSUME NEW u \in Users, Read(u) PROVE ContentInv'
  BY <1>1 DEF Read, Sound
<1>2. ASSUME NEW u \in Users, NEW r \in Requests, BeginWrite(u, r)
      PROVE  ContentInv'
  <2> DEFINE result == [document EXCEPT
                          ![u] = NextRevision(Apply(document[u], r).user)]
  <2>1. /\ next' = result /\ document' = document
        /\ recoverable' = recoverable /\ ValidDocument(result)
    BY <1>2 DEF BeginWrite
  <2>2. document \in Document
    BY DEF IInv, TypeOK
  <2>3. Sound(result)
    BY <2>1, <2>2, ResultIsSound
  <2> HIDE DEF result
  <2> QED BY <2>1, <2>3 DEF Sound
<1>3. CASE Abandon
  BY <1>3 DEF Abandon, Sound
<1>4. CASE RenameFile
  BY <1>4 DEF RenameFile, Sound
<1>5. CASE Publish
  BY <1>5 DEF Publish, Sound, IInv, FileInv
<1>6. CASE Crash
  BY <1>6, EmptyIsSound DEF Crash, Stop, Sound
<1>7. CASE PowerLoss
  BY <1>7, EmptyIsSound DEF PowerLoss, Stop, Sound
<1>8. CASE Restart
  BY <1>8 DEF Restart, Sound, IInv, FileInv
<1>9. CASE UNCHANGED vars
  BY <1>9 DEF vars, Sound
<1> QED
  BY <1>1, <1>2, <1>3, <1>4, <1>5, <1>6, <1>7, <1>8, <1>9
     DEF Next, AnswerUnchanged, RefuseOversized, FailWrite, FailDirSync

\* The documents are sound throughout.
LEMMA ContentInvariance == Spec => []ContentInv
<1>1. Init => ContentInv
  BY EmptyIsSound DEF Init, ContentInv, Sound
<1>2. IInv /\ ContentInv /\ [Next]_vars => ContentInv'
  BY StoreAssumption, ContentStep
<1> QED BY <1>1, <1>2, Invariance, PTL DEF Spec

\* No list of favorites and no playlist ever names a track twice, although
\* nothing validates it: each closure of store.go, the merge of an import
\* included, keeps it, across failed writes, crashes and restarts.
THEOREM NoTrackIsKeptTwice == Spec => []NoTrackTwice
<1>1. TypeOK /\ ContentInv => NoTrackTwice
  <2> SUFFICES ASSUME TypeOK, ContentInv, NEW u \in Users
               PROVE  /\ IsInjective(document[u].favorites)
                      /\ \A i \in DOMAIN document[u].playlists :
                           IsInjective(document[u].playlists[i].tracks)
    BY DEF NoTrackTwice
  <2>1. document[u].playlists \in Seq(Playlist)
    BY DEF TypeOK, Document, UserData
  <2>2. DOMAIN document[u].playlists = 1..Len(document[u].playlists)
    BY <2>1, LenProperties
  <2> QED BY <2>2 DEF ContentInv, Sound, DistinctUser, DistinctLists
<1> QED BY <1>1, ContentInvariance, TypeCorrect, PTL

\* The retry of any request that was applied changes nothing more, and is
\* answered as a success (a repeated delete as not found), whatever the
\* account has become: no limit, no conflict and no second copy.
THEOREM RetriesAreHarmless == Spec => []RetryIsHarmless
<1>1. TypeOK /\ ContentInv => RetryIsHarmless
  <2> SUFFICES ASSUME TypeOK, ContentInv
               PROVE  \A u \in Users, r \in Requests : RetryIsSafe(document[u], r)
    BY DEF RetryIsHarmless, RetryIsSafe
  <2> SUFFICES ASSUME NEW u \in Users, NEW r \in Requests
               PROVE  RetryIsSafe(document[u], r)
    OBVIOUS
  <2>1. PICK user : user = document[u]
    OBVIOUS
  <2>2. r \in Request /\ WellKept(user)
    BY <2>1, StoreAssumption
       DEF StoreAssumption, TypeOK, Document, ContentInv, Sound, WellKept
  <2>3. RetryIsSafe(user, r)
    BY <2>2, RequestApplies DEF AppliesWell
  <2> QED BY <2>1, <2>3
<1> QED BY <1>1, ContentInvariance, TypeCorrect, PTL

\* An import never removes, renames or reorders what an account has, also
\* when it names the playlists of the account.
THEOREM ImportsOnlyAdd == Spec => []ImportOnlyAdds
<1>1. TypeOK => ImportOnlyAdds
  <2> SUFFICES ASSUME TypeOK, NEW u \in Users, NEW r \in Requests,
                      r.op = "import"
               PROVE  LET before == document[u]
                          after  == Apply(before, r).user
                      IN  /\ IsPrefix(before.favorites, after.favorites)
                          /\ Len(before.playlists) <= Len(after.playlists)
                          /\ \A i \in DOMAIN before.playlists :
                               /\ after.playlists[i].id = before.playlists[i].id
                               /\ after.playlists[i].name =
                                    before.playlists[i].name
                               /\ IsPrefix(before.playlists[i].tracks,
                                           after.playlists[i].tracks)
    BY DEF ImportOnlyAdds
  <2>1. PICK before : before = document[u]
    OBVIOUS
  <2>2. PICK after : after = Apply(before, r).user
    OBVIOUS
  <2>3. before \in UserData /\ r \in Request
    BY <2>1, StoreAssumption DEF StoreAssumption, TypeOK, Document
  <2>4. /\ IsPrefix(before.favorites, after.favorites)
        /\ Len(before.playlists) <= Len(after.playlists)
        /\ \A i \in DOMAIN before.playlists :
             /\ after.playlists[i].id = before.playlists[i].id
             /\ after.playlists[i].name = before.playlists[i].name
             /\ IsPrefix(before.playlists[i].tracks, after.playlists[i].tracks)
    BY <2>2, <2>3, ImportAdds
  <2> QED BY <2>1, <2>2, <2>4
<1> QED BY <1>1, TypeCorrect, PTL
=============================================================================
