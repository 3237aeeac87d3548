--------------------------- MODULE UserDataStore ---------------------------
(***************************************************************************)
(* The server's user data store, server/internal/userdata/store.go: one    *)
(* document for all accounts, kept in memory under a lock and written to   *)
(* user-data-v1.json through a temporary file, fsync, rename and a sync of *)
(* the directory before it replaces the one in memory.                     *)
(*                                                                         *)
(* A change holds the lock from the clone to the answer, so two changes    *)
(* never interleave and no reader sees a change in the making; what can    *)
(* come between the steps of a write is the failure of the next step, the  *)
(* end of the process, and the loss of power.                              *)
(*                                                                         *)
(* Answers are not lost here: a request whose answer is lost looks to the  *)
(* store like one that was answered (CollectionsSync models its sender).   *)
(***************************************************************************)
EXTENDS Collections

CONSTANTS
  Users,            \* account ids
  Requests,         \* the requests clients send, a subset of Request
  MaxUsers,         \* maxUsers: accounts in the document
  MaxDocumentSize,  \* maxDocumentBytes, counted by EncodedSize
  MaxRevision,      \* bound on the revision of an account, for TLC
  MaxUnsynced,      \* bound on the renames not yet synced, for TLC
  Faults            \* what may go wrong, a subset of FaultKinds

FaultKinds == {"write",       \* a step of write up to the rename fails
               "dir_sync",    \* the directory sync after the rename fails
               "crash",       \* the process ends, the file system goes on
               "power_loss"}  \* the machine ends: unsynced renames may go

ASSUME StoreAssumption ==
  /\ Requests \subseteq Request
  /\ MaxUsers \in Nat \ {0}
  /\ MaxDocumentSize \in Nat
  /\ MaxRevision \in Nat
  /\ MaxUnsynced \in Nat
  /\ Faults \subseteq FaultKinds

VARIABLES
  phase,        \* "down", "serving", or how far the write has come that
                \* holds the lock: "writing" the temporary file, "renamed"
  document,     \* s.document, the accounts in memory
  writer,       \* the account whose request is being written
  next,         \* the document being written (document when there is none)
  file,         \* the content of user-data-v1.json
  recoverable,  \* the contents that file may have after a loss of power
  answered,     \* history: the account as a client of it last saw it
  refused       \* history: the last document whose write was answered with
                \* an error and that no retry has written since, or empty

vars == <<phase, document, writer, next, file, recoverable, answered, refused>>

-----------------------------------------------------------------------------
Document      == [Users -> UserData]
EmptyDocument == [u \in Users |-> EmptyUser]

\* The accounts the document has an entry for.
KnownUsers(doc) == {u \in Users : doc[u].revision > 0}

\* The length of the encoded document, in entries instead of bytes.
EncodedSize(doc) ==
  LET Entries(user) ==
        Len(user.favorites) + Len(user.playlists)
        + FoldLeft(LAMBDA n, p : n + Len(p.tracks), 0, user.playlists)
  IN  MapThenSumSet(LAMBDA u : Entries(doc[u]), Users)

ValidDocument(doc) ==
  /\ Cardinality(KnownUsers(doc)) <= MaxUsers
  /\ \A u \in Users : ValidUser(doc[u])

\* load accepts this content; a file that is not there yet is accepted too,
\* and is the empty document.
Loadable(doc) ==
  \/ doc = EmptyDocument
  \/ EncodedSize(doc) <= MaxDocumentSize /\ ValidDocument(doc)

-----------------------------------------------------------------------------
Init ==
  /\ phase = "serving"
  /\ document = EmptyDocument
  /\ writer \in Users
  /\ next = EmptyDocument
  /\ file = EmptyDocument
  /\ recoverable = {EmptyDocument}
  /\ answered = EmptyDocument
  /\ refused = EmptyDocument

\* Collections, PlaybackMode: a snapshot under the read lock.
Read(u) ==
  /\ phase = "serving"
  /\ answered' = [answered EXCEPT ![u] = document[u]]
  /\ UNCHANGED <<phase, document, writer, next, file, recoverable, refused>>

\* A request that changes nothing is answered with the current snapshot.
AnswerUnchanged(u, r) ==
  /\ Apply(document[u], r).status = "unchanged"
  /\ Read(u)

\* Mutant of BeginWrite: cloned from the file instead of the document.
BeginWriteFromFile(u, r) ==
  /\ phase = "serving"
  /\ document[u].revision < MaxRevision
  /\ Cardinality(recoverable) <= MaxUnsynced + 1
  /\ Apply(file[u], r).status = "changed"
  /\ next' = [file EXCEPT ![u] = NextRevision(Apply(@, r).user)]
  /\ ValidDocument(next')
  /\ phase' = "writing"
  /\ writer' = u
  /\ UNCHANGED <<document, file, recoverable, answered, refused>>

\* A request that changes its account: cloned, applied, validated.  A
\* refused one, or one that fails validation, leaves no trace.
BeginWrite(u, r) ==
  /\ phase = "serving"
  /\ document[u].revision < MaxRevision
  /\ Cardinality(recoverable) <= MaxUnsynced + 1
  /\ LET outcome == Apply(document[u], r)
         result  == [document EXCEPT ![u] = NextRevision(outcome.user)]
     IN  /\ outcome.status = "changed"
         /\ ValidDocument(result)
         /\ next' = result
  /\ phase' = "writing"
  /\ writer' = u
  /\ UNCHANGED <<document, file, recoverable, answered, refused>>

\* Back to serving the old document; the client gets an error.
Abandon ==
  /\ phase' = "serving"
  /\ next' = document
  /\ refused' = next
  /\ UNCHANGED <<document, writer, file, recoverable, answered>>

\* The encoded document is too long: ErrDataLimit, nothing was renamed.
RefuseOversized ==
  /\ phase = "writing"
  /\ EncodedSize(next) > MaxDocumentSize
  /\ Abandon

\* Any step up to the rename fails; the temporary file is removed.
FailWrite ==
  /\ phase = "writing"
  /\ "write" \in Faults
  /\ Abandon

\* Mutant of RenameFile: the length is not checked before the rename.
RenameFileUnchecked ==
  /\ phase = "writing"
  /\ phase' = "renamed"
  /\ file' = next
  /\ recoverable' = recoverable \cup {next}
  /\ UNCHANGED <<document, writer, next, answered, refused>>

RenameFile ==
  /\ phase = "writing"
  /\ EncodedSize(next) <= MaxDocumentSize
  /\ phase' = "renamed"
  /\ file' = next
  /\ recoverable' = recoverable \cup {next}
  /\ UNCHANGED <<document, writer, next, answered, refused>>

\* Mutant of Publish: answered without the sync of the directory.
PublishUnsynced ==
  /\ phase = "renamed"
  /\ phase' = "serving"
  /\ document' = next
  /\ answered' = [answered EXCEPT ![writer] = next[writer]]
  /\ refused' = IF refused = next THEN EmptyDocument ELSE refused
  /\ UNCHANGED <<writer, next, file, recoverable>>

\* The directory is synced, the new document published and answered.
Publish ==
  /\ phase = "renamed"
  /\ phase' = "serving"
  /\ recoverable' = {file}
  /\ document' = next
  /\ answered' = [answered EXCEPT ![writer] = next[writer]]
  /\ refused' = IF refused = next THEN EmptyDocument ELSE refused
  /\ UNCHANGED <<writer, next, file>>

\* The directory sync fails: an error, although the file is renamed.
FailDirSync ==
  /\ phase = "renamed"
  /\ "dir_sync" \in Faults
  /\ Abandon

Stop ==
  /\ phase' = "down"
  /\ document' = EmptyDocument
  /\ next' = EmptyDocument
  /\ UNCHANGED <<writer, answered, refused>>

Crash ==
  /\ phase # "down"
  /\ "crash" \in Faults
  /\ Stop
  /\ UNCHANGED <<file, recoverable>>

PowerLoss ==
  /\ "power_loss" \in Faults
  /\ Stop
  /\ \E content \in recoverable : file' = content /\ recoverable' = {content}

\* NewStore and load: a file that is not acceptable keeps the server down.
Restart ==
  /\ phase = "down"
  /\ Loadable(file)
  /\ phase' = "serving"
  /\ document' = file
  /\ next' = file
  /\ UNCHANGED <<writer, file, recoverable, answered, refused>>

Next ==
  \/ \E u \in Users : Read(u)
  \/ \E u \in Users, r \in Requests : AnswerUnchanged(u, r) \/ BeginWrite(u, r)
  \/ RefuseOversized \/ FailWrite \/ RenameFile \/ Publish \/ FailDirSync
  \/ Crash \/ PowerLoss \/ Restart

Spec == Init /\ [][Next]_vars

-----------------------------------------------------------------------------
(***************************************************************************)
(* Properties.                                                             *)
(***************************************************************************)

\* Every variable has its type.
TypeOK ==
  /\ phase \in {"down", "serving", "writing", "renamed"}
  /\ document \in Document
  /\ writer \in Users
  /\ next \in Document
  /\ file \in Document
  /\ recoverable \subseteq Document
  /\ answered \in Document
  /\ refused \in Document

\* Whatever a crash or a loss of power leaves in the file, load accepts it:
\* write never renames what NewStore would refuse to start with, for the
\* number of accounts, an account's limits or the size of the document.
RestartSucceeds == \A content \in recoverable \cup {file} : Loadable(content)

\* Every account is in doc as it is in old, or at a later revision.
Ahead(doc, old) ==
  \A u \in Users : \/ doc[u] = old[u]
                   \/ doc[u].revision > old[u].revision

\* The server never reads back a rename that is not synced and then loses
\* it: either no crash without a loss of power, or no loss of power.  (load
\* does not sync the directory it reads, so with both it may happen.)
OneKindOfStop == {"crash", "power_loss"} \cap Faults # {"crash", "power_loss"}

\* The contents the next start may find.
Recoverable == IF "power_loss" \in Faults THEN recoverable ELSE {file}

\* No answer is lost when the server stops, whichever step of a write it
\* stops in and however many writes and directory syncs failed before: the
\* next start finds what every client last saw, or a later revision of it.
AnsweredIsDurable ==
  OneKindOfStop => \A content \in Recoverable : Ahead(content, answered)

\* What clients see of an account goes forward: revisions never fall, and
\* two answers with one revision are the same content.  Refused writes,
\* crashes and restarts included.
AnswersGoForward ==
  [][OneKindOfStop => Ahead(answered', answered)]_answered

\* A client that lost the answer sends the request again: the retry of any
\* request that was applied changes nothing more, and is never answered
\* with a conflict or a limit (a repeated delete is answered 404).
RetryIsHarmless ==
  \A u \in Users, r \in Requests :
    LET first == Apply(document[u], r)
        again == Apply(first.user, r)
    IN  first.status = "changed" =>
          /\ again.user = first.user
          /\ again.status \in
               IF r.op = "delete_playlist" THEN {"not_found"} ELSE {"unchanged"}

\* No list of favorites and no playlist names a track twice, although
\* validateDocument does not look for it: every operation, and the merge
\* of an import, keeps the lists free of repetitions.
NoTrackTwice ==
  \A u \in Users :
    /\ IsInjective(document[u].favorites)
    /\ \A i \in DOMAIN document[u].playlists :
         IsInjective(document[u].playlists[i].tracks)

\* An import adds and never removes, renames or reorders what the account
\* has, also when the import names the account's own playlists.
ImportOnlyAdds ==
  \A u \in Users, r \in Requests :
    r.op = "import" =>
      LET before == document[u]
          after  == Apply(before, r).user
      IN  /\ IsPrefix(before.favorites, after.favorites)
          /\ Len(before.playlists) <= Len(after.playlists)
          /\ \A i \in DOMAIN before.playlists :
               /\ after.playlists[i].id = before.playlists[i].id
               /\ after.playlists[i].name = before.playlists[i].name
               /\ IsPrefix(before.playlists[i].tracks,
                           after.playlists[i].tracks)

\* A write answered with an error leaves the collections as they were: what
\* it would have written is never served, before a restart or after it
\* (store_test.go: "snapshot after failed persistence ... want unchanged").
\* This does not hold when the directory sync fails after the rename.
FailedWriteStaysInvisible ==
  (phase = "serving" /\ refused # EmptyDocument) => document # refused

-----------------------------------------------------------------------------
(***************************************************************************)
(* The store implements DurableUserData: the committed document is the one *)
(* being served, or the file while the server is down.                     *)
(***************************************************************************)
committed == IF phase = "down" THEN file ELSE document

\* The documents that one request can make of doc.
Results(doc) ==
  {[doc EXCEPT ![p[1]] = NextRevision(Apply(doc[p[1]], p[2]).user)] :
     p \in {q \in Users \X Requests : Apply(doc[q[1]], q[2]).status = "changed"}}

Durable == INSTANCE DurableUserData
             WITH Initial <- EmptyDocument, Results <- Results,
                  committed <- committed, limbo <- recoverable \ {committed}

\* Every change of what is served or recovered is one whole request applied
\* to the document clients were served, never a part of one or a mixture.
ImplementsDurable == Durable!Spec
=============================================================================
