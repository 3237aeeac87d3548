---------------------------- MODULE MCWebPlayer ----------------------------
(***************************************************************************)
(* Instances of WebPlayer for TLC.                                         *)
(***************************************************************************)
EXTENDS WebPlayer

CONSTANTS a, b, c

\* The library as a page shows it, sorted one way and the other.
MCOrders == {<<a, b, c>>, <<b, a>>}

\* No earlier visit, and one that ended with a queue.
MCSavedQueues == {[queue |-> <<>>, index |-> 0],
                  [queue |-> <<c, a>>, index |-> 1]}
=============================================================================
