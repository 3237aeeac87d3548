----------------------------- MODULE MCWebLibrary -----------------------------
(***************************************************************************)
(* Instances of WebLibrary for TLC, and what the operators of WebAnswers   *)
(* do with every answer of a small set.                                    *)
(***************************************************************************)
EXTENDS WebLibrary

CONSTANTS t1, t2, t3, p1, n1, anna, unknown, other, untitled, user

MCLabels == [artist |-> unknown, album |-> other, title |-> untitled,
             user |-> user]
MCTexts == {t1, t2, t3, p1, n1, anna, unknown, other, untitled, user}
MCCollation == <<anna, n1, t1, t2, t3, untitled, other, unknown,
                 user>>

\* What the server sends of a track; no two titles are alike.
Sent(id, artist, album) ==
  [id |-> id, title |-> id, artist |-> artist, album |-> album,
   album_artist |-> Absent, genre |-> Absent, genres |-> <<>>,
   year |-> Absent, duration |-> Absent, duration_ms |-> Absent]

\* Two tracks, one of them without tags; and after a scan one has gone and
\* another has come, in an album of its own.
MCAnswers == {<<Sent(t2, anna, Absent), Sent(t1, Absent, Absent)>>,
              <<Sent(t1, Absent, Absent), Sent(t3, anna, n1)>>}

\* The shelf holds a track that a scan may have taken away.
MCShelf == ListTracks(<<Sent(t1, Absent, Absent), Sent(t2, anna, Absent)>>)

\* An account without collections, and one with a playlist and a favorite.
MCAccounts ==
  {EmptyUser,
   [EmptyUser EXCEPT !.favorites = <<t1>>,
      !.playlists = <<[id |-> p1, name |-> n1, tracks |-> <<t2, t1>>]>>]}

MCQueues == {<<t3, t1>>}

\* Another device deletes the playlist.
MCOther == [op : {"delete_playlist"}, playlist : {p1}]

-----------------------------------------------------------------------------
Values == {anna, Blank, Absent}
Numbers == {0, 3, Blank, Absent}

RawTracks ==
  [id : {t1, Blank}, title : Values, artist : Values, album : Values,
   album_artist : Values, genre : Values, genres : {<<>>, <<anna, Blank, anna>>},
   year : {3, Blank}, duration : Numbers, duration_ms : {3, Absent}]

\* A track of an answer keeps its values; it has a genre exactly when it has
\* genres, and a duration when either was sent.
ASSUME TracksAreNormal ==
  \A raw \in RawTracks :
    LET track == NormalTrack(raw)
    IN  /\ (track.genre = <<>>) <=> (track.genres = <<>>)
        /\ raw.duration_ms = 3 => track.duration # Absent
        /\ \A f \in {"artist", "album", "album_artist"} :
             track[f] = IF raw[f] = Blank THEN Absent ELSE raw[f]
        /\ DisplayArtist(track) # Blank /\ DisplayAlbum(track) # Blank

\* Nothing without an id gets into a list, a ranking or the collections, and
\* what has one stays in its order.
ASSUME ListsHaveIds ==
  LET raw(id) == [Sent(id, anna, Absent) EXCEPT !.title = Blank]
  IN  \A ids \in UNION {[1 .. n -> {t1, t2, Blank, Absent}] : n \in 0 .. 3} :
        LET kept   == SelectSeq(ids, LAMBDA id : id \in {t1, t2})
            tracks == [i \in DOMAIN ids |-> raw(ids[i])]
            ranked == [i \in DOMAIN ids |->
                         [track |-> tracks[i], play_count |-> Absent]]
            saved  == [i \in DOMAIN ids |->
                         [id |-> ids[i], name |-> anna, tracks |-> ids]]
        IN  /\ Ids(ListTracks(tracks)) = kept
            /\ [i \in DOMAIN kept |-> NormalRanking(ranked)[i].track.id] = kept
            /\ Len(NormalRanking(ranked)) = Len(kept)
            /\ Ids(NormalPlaylists(saved)) = kept
            /\ Len(NormalHeatmap([i \in DOMAIN ids |->
                 [date |-> ids[i], play_count |-> 3]])) = Len(kept)

\* A session has a token that is a text, or it is an error.
ASSUME SessionsHaveTokens ==
  \A value \in [token : Values, user : {Absent, [id |-> t1, name |-> Absent]}] :
    NormalSession(value) = SessionError \/ NormalSession(value).token = anna

RawMetadata == [ScrapeFields -> {Absent, anna}]

TrackOf(artist) == NormalTrack(Sent(t1, artist, n1))

\* The differences that are worked out: a field changes exactly when the page
\* would show another text.  What is applied is never nothing, and it is what
\* changes, when anything does.
ASSUME DifferencesAreShown ==
  \A metadata \in RawMetadata, artist \in {anna, Absent} :
    LET candidate == NormalCandidate([id |-> p1, metadata |-> metadata,
                       confidence |-> 3, differences |-> {}], TrackOf(artist))
        changed == {f \in ScrapeFields :
                      /\ candidate.metadata[f] # Absent
                      /\ AsText(candidate.metadata[f])
                           # AsText(Current(TrackOf(artist), f))}
    IN  /\ {d.field : d \in candidate.differences} =
             {f \in ScrapeFields : candidate.metadata[f] # Absent}
        /\ changed # {} => CandidateFields(candidate) = changed
        /\ changed = {} => CandidateFields(candidate) = ScrapeFields

\* What the server says of the differences counts before what the texts say.
ASSUME SuppliedDifferencesCount ==
  \A says \in {TRUE, FALSE, Absent}, value \in {anna, n1} :
    LET supplied == {[field |-> "album", current |-> n1, candidate |-> value,
                      changed |-> says],
                     [field |-> "label", current |-> n1, candidate |-> value,
                      changed |-> TRUE]}
        candidate == NormalCandidate([id |-> p1,
          metadata |-> [f \in ScrapeFields |-> anna], confidence |-> 101,
          differences |-> supplied], TrackOf(anna))
    IN  CandidateFields(candidate) =
          IF says = TRUE \/ (says = Absent /\ value # n1)
          THEN {"album"} ELSE ScrapeFields

ASSUME ConfidenceIsAShare == \A h \in 0 .. 20000 : Confidence(h) \in 0 .. 100

ASSUME SearchIsFilledIn ==
  \A fields \in [{"title", "artist"} -> Values] :
    SearchRequest(fields) = {f \in {"title", "artist"} : fields[f] = anna}
=============================================================================
