------------------------------- MODULE WebLyrics -------------------------------
(***************************************************************************)
(* The lines of a lyrics file and the one that is sung                     *)
(* (apps/web/src/utils/lyrics.ts).                                         *)
(*                                                                         *)
(* A raw line of the file is its timestamps, in the order they stand, and  *)
(* its text.  A text is "" when the line holds nothing else, and "[tag:]"  *)
(* for the lines like [ti:...] that describe the file.  The unit of time   *)
(* is longer than the 0.08 s by which a line may be early.                 *)
(***************************************************************************)
EXTENDS Naturals, Sequences, SequencesExt

Plain == 0 - 1    \* the time of a line without one

Timed(raw) ==
  [i \in DOMAIN raw.times |->
     [time |-> raw.times[i], text |-> IF raw.text = "" THEN "note" ELSE raw.text]]

Untimed(raw) ==
  IF raw.text \in {"", "[tag:]"} THEN <<>>
  ELSE <<[time |-> Plain, text |-> raw.text]>>

\* The lines by their time, those without one last; sort is stable.
ByTime(lines) ==
  LET timed == SelectSeq(lines, LAMBDA l : l.time # Plain)
      plain == SelectSeq(lines, LAMBDA l : l.time = Plain)
      at == {timed[i].time : i \in DOMAIN timed}
      order == SetToSortSeq(at, LAMBDA a, b : a < b)
  IN  FlattenSeq([k \in DOMAIN order |->
                    SelectSeq(timed, LAMBDA l : l.time = order[k])]) \o plain

ParseLyrics(content) ==
  LET lines == FlattenSeq([i \in DOMAIN content |->
                 IF content[i].times = <<>> THEN Untimed(content[i])
                 ELSE Timed(content[i])])
  IN  IF \A i \in DOMAIN lines : lines[i].time = Plain THEN lines
      ELSE ByTime(lines)

\* The loop over the lines stops at the first one that is still to come.
ActiveLyricIndex(lines, now) ==
  LET toCome == {i \in DOMAIN lines : lines[i].time > now}
      looked == {i \in DOMAIN lines : lines[i].time # Plain
                                      /\ \A j \in toCome : i < j}
  IN  IF looked = {} THEN 0 ELSE CHOOSE i \in looked : \A j \in looked : j <= i
=============================================================================
