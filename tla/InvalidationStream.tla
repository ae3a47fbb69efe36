------------------------- MODULE InvalidationStream -------------------------
(***************************************************************************)
(* What MemoryInvalidationLog promises the engines that derive code from   *)
(* guest memory: a stream of changes that grows in batches seen as a whole *)
(* and of which the last Capacity changes are retained.  A consumer that   *)
(* has seen a prefix is given every later change, in order, or is told     *)
(* that some of them are lost; it is never given a part of them.           *)
(***************************************************************************)
EXTENDS Naturals, Sequences

CONSTANTS
  Change,     \* what a change says: a mapping, an instruction cache, a page
  Batch,      \* the batches of changes one mutation publishes
  Capacity,   \* how many changes are retained
  Lost        \* the answer to a consumer that is too far behind

VARIABLES
  latest,   \* how many changes the stream holds, lost ones included
  window    \* the retained changes, oldest first

vars == <<latest, window>>

LastOf(s, n) == IF Len(s) <= n THEN s ELSE SubSeq(s, Len(s) - n + 1, Len(s))

Init ==
  /\ latest = 0
  /\ window = <<>>

Publish(batch) ==
  /\ latest' = latest + Len(batch)
  /\ window' = LastOf(window \o batch, Capacity)

Next == \E batch \in Batch : Publish(batch)

Spec == Init /\ [][Next]_vars

\* What a consumer that has seen the first "after" changes is owed.
Since(after) ==
  IF latest - after > Len(window) THEN Lost ELSE LastOf(window, latest - after)
=============================================================================
