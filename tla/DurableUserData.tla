-------------------------- MODULE DurableUserData --------------------------
(***************************************************************************)
(* What the user data store promises, without files, locks or phases.      *)
(* The accounts are one value, `committed`, which only ever becomes the    *)
(* result of one whole request applied to an earlier committed value.      *)
(* `limbo` holds the results a failed or interrupted write may have left   *)
(* behind: any of them may turn out to be committed after all, none of     *)
(* them may be seen in part.                                               *)
(***************************************************************************)
CONSTANTS
  Initial,      \* the value before any request
  Results(_)    \* Results(d): the values that one request can make of d

VARIABLES
  committed,  \* what clients are served, or would be after a start
  limbo       \* values whose write was begun and not confirmed

vars == <<committed, limbo>>

Init == committed = Initial /\ limbo = {}

\* A request starts to be written: its outcome is open.
Attempt == \E result \in Results(committed) :
              /\ limbo' = limbo \cup {result}
              /\ UNCHANGED committed

\* A write is confirmed, or a restart finds one of the open results.
Resolve ==
  /\ committed' \in limbo \cup {committed}
  /\ limbo' \in SUBSET (limbo \cup {committed})

Next == Attempt \/ Resolve

Spec == Init /\ [][Next]_vars
=============================================================================
