------------------------------ MODULE WebAnswers ------------------------------
(***************************************************************************)
(* What the web app makes of the answers of the server: the functions      *)
(* normalize... of apps/web/src/api/client.ts, the candidates and their    *)
(* differences, and the labels of utils/format.ts.  Pure operators.        *)
(*                                                                         *)
(* A value of an answer is a text, the text of blanks only, a number, or   *)
(* Absent: a field that is missing, null or of a type that is not wanted.  *)
(* Two names of one field are an Either of two fields.  The text of a      *)
(* number, time stamps, sizes and addresses are left out.                  *)
(***************************************************************************)
EXTENDS Naturals, Sequences, FiniteSets, SequencesExt, FiniteSetsExt

CONSTANTS
  Texts,     \* texts with more than blanks in them
  Blank,     \* the empty text, or one of blanks
  Absent,    \* no value
  Labels     \* what is shown where there is no value

ASSUME AnswersAssumption ==
  /\ Blank \notin Texts /\ Absent \notin Texts \cup {Blank}
  /\ DOMAIN Labels = {"artist", "album", "title", "user"}
  /\ Range(Labels) \subseteq Texts

-----------------------------------------------------------------------------
(***************************************************************************)
(* Single values.                                                          *)
(***************************************************************************)
\* The operator ?? of the language, which a blank text stops.
Either(value, otherwise) == IF value # Absent THEN value ELSE otherwise

\* stringValue
StringValue(value, fallback) ==
  IF value \in Texts \cup {Blank} THEN value ELSE fallback

\* optionalString
OptionalString(value) == IF value \in Texts THEN value ELSE Absent

\* numberValue: a blank text is the number 0.
NumberValue(value, fallback) ==
  IF value \in Nat THEN value
  ELSE IF value = Blank THEN 0 ELSE fallback

\* optionalNumber
OptionalNumber(value) == NumberValue(value, Absent)

\* stringArray: the texts of a list, each once; a list of another type is
\* the empty one here.
StringArray(values) ==
  FoldLeft(LAMBDA seen, v : IF v \in Texts /\ ~Contains(seen, v)
                            THEN Append(seen, v) ELSE seen,
           <<>>, values)

\* A list of answers, each made normal, those without an id left out.
NormalList(values, Normal(_), HasId(_)) ==
  SelectSeq([i \in DOMAIN values |-> Normal(values[i])], HasId)

-----------------------------------------------------------------------------
(***************************************************************************)
(* Users, tracks, collections, shelves and reports.                        *)
(***************************************************************************)
\* normalizeAuthUser
NormalUser(value) ==
  [id   |-> OptionalString(value.id),
   name |-> StringValue(value.name, Labels.user)]

\* normalizeAuthSession: without a token the sign-in has failed.
SessionError == [error |-> "no token"]

NormalSession(value) ==
  IF StringValue(value.token, Blank) = Blank THEN SessionError
  ELSE [token |-> value.token,
        user  |-> IF value.user = Absent THEN Absent ELSE NormalUser(value.user)]

\* normalizeTrack.  Genres are one text or many, the duration is given in
\* seconds or in milliseconds (here: in the same unit).
NormalTrack(value) ==
  LET genres == StringArray(value.genres)
      genre  == OptionalString(value.genre)
  IN  [id     |-> StringValue(value.id, Blank),
       title  |-> StringValue(value.title, Labels.title),
       artist |-> OptionalString(value.artist),
       album  |-> OptionalString(value.album),
       album_artist |-> OptionalString(value.album_artist),
       genre  |-> IF genre # Absent THEN <<genre>> ELSE genres,
       genres |-> IF genres # <<>> THEN genres
                  ELSE IF genre # Absent THEN <<genre>> ELSE <<>>,
       year   |-> OptionalNumber(value.year),
       duration |-> Either(OptionalNumber(value.duration),
                           OptionalNumber(value.duration_ms))]

HasTrackId(track) == track.id # Blank

\* listTracks, and the shelves of normalizeDiscovery
ListTracks(values) == NormalList(values, NormalTrack, HasTrackId)

\* normalizePlaylist, normalizeCollectionsSnapshot
NormalPlaylists(values) ==
  LET Normal(v) == [id     |-> StringValue(v.id, Blank),
                    name   |-> OptionalString(v.name),
                    tracks |-> StringArray(v.tracks)]
      Usable(p) == p.id # Blank /\ p.name # Absent
  IN  NormalList(values, Normal, Usable)

\* normalizeRankedTrack, of hot_tracks and top_tracks
NormalRanking(values) ==
  LET Normal(v) == [track      |-> NormalTrack(v.track),
                    play_count |-> NumberValue(v.play_count, 0)]
      Usable(r) == HasTrackId(r.track)
  IN  NormalList(values, Normal, Usable)

\* normalizeHeatmapCell
NormalHeatmap(values) ==
  LET Normal(v) == [date       |-> StringValue(v.date, Blank),
                    play_count |-> NumberValue(v.play_count, 0)]
      Usable(c) == c.date # Blank
  IN  NormalList(values, Normal, Usable)

-----------------------------------------------------------------------------
(***************************************************************************)
(* Labels.                                                                 *)
(***************************************************************************)
\* displayArtist, displayAlbum
DisplayArtist(track) ==
  Either(track.artist, Either(track.album_artist, Labels.artist))
DisplayAlbum(track)  == Either(track.album, Labels.album)

-----------------------------------------------------------------------------
(***************************************************************************)
(* Candidates for the metadata of a track.  Metadata are a function of the *)
(* fields; a difference names a field, both values and whether they        *)
(* differ, the two shown as text: no value is the empty text.              *)
(***************************************************************************)
\* scrapeFields: those with a value of the track to compare, and lyrics.
TrackFields  == {"title", "artist", "album", "album_artist", "year"}
ScrapeFields == TrackFields \cup {"lyrics"}

\* normalizeMetadata
NormalMetadata(value) ==
  [f \in ScrapeFields |-> IF f = "year" THEN OptionalNumber(value[f])
                          ELSE OptionalString(value[f])]

Current(track, field) == IF field \in TrackFields THEN track[field] ELSE Absent

AsText(value) == IF value = Absent THEN Blank ELSE value

Difference(field, current, candidate) ==
  [field |-> field, current |-> current, candidate |-> candidate,
   changed |-> AsText(current) # AsText(candidate)]

\* deriveDifferences: a field the candidate says nothing of is no difference.
DeriveDifferences(track, metadata) ==
  {Difference(f, Current(track, f), metadata[f]) :
     f \in {g \in ScrapeFields : metadata[g] # Absent}}

\* normalizeDifference: the server may have decided whether it changes.
NormalDifferences(values) ==
  {[Difference(v.field, v.current, v.candidate) EXCEPT
      !.changed = IF v.changed \in BOOLEAN THEN v.changed ELSE @] :
     v \in {w \in values : w.field \in ScrapeFields}}

\* A confidence, in hundredths; one of more than 1 is taken for percents.
Confidence(hundredths) ==
  IF hundredths > 100 THEN Min({hundredths \div 100, 100}) ELSE hundredths

\* normalizeCandidate
NormalCandidate(value, track) ==
  LET metadata == NormalMetadata(value.metadata)
      supplied == NormalDifferences(value.differences)
  IN  [id          |-> StringValue(value.id, Blank),
       metadata    |-> metadata,
       confidence  |-> Confidence(NumberValue(value.confidence, 0)),
       differences |-> IF supplied # {} THEN supplied
                       ELSE DeriveDifferences(track, metadata)]

\* candidateFields: when nothing changes, every field there is.
CandidateFields(candidate) ==
  LET changed == {d.field : d \in {e \in candidate.differences : e.changed}}
  IN  IF changed # {} THEN changed ELSE DOMAIN candidate.metadata

\* searchRequest: the fields that are filled in.
SearchRequest(fields) == {f \in DOMAIN fields : fields[f] \in Texts}
=============================================================================
