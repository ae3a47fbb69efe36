-------------------------- MODULE InvalidationLog ---------------------------
(***************************************************************************)
(* MemoryInvalidationLog: a ring of the last Capacity changes behind a     *)
(* mutex, and the cursor of the newest one in an atomic that native code   *)
(* reads without the mutex.  A mutation of guest memory reserves its       *)
(* cursors first and holds the mutex until it commits or gives up, so that *)
(* records and cursor change together; the writes of one commit are one    *)
(* step, since only the cursor is visible before the mutex is released.    *)
(***************************************************************************)
EXTENDS Integers, Sequences

CONSTANTS
  Change, Batch, Capacity, Lost,   \* as in InvalidationStream; Capacity > 0
  Mutator,      \* threads that change guest memory
  MaxCursor,    \* the largest cursor, u64::MAX in the code
  None

\* A ring that holds something, and batches of changes.
LogConfiguration ==
  /\ Capacity \in Nat \ {0}
  /\ MaxCursor \in Nat
  /\ Batch \subseteq Seq(Change)

VARIABLES
  latest,    \* cursor of the newest published record
  records,   \* slot -> the record written there last
  count,     \* how many records are retained
  held       \* the reservation of the mutator that holds the ring

logVars == <<latest, records, count, held>>

Slots == 0 .. Capacity - 1
slot(cursor) == (cursor - 1) % Capacity
NoRecord == [cursor |-> 0, kind |-> None]

LogInit ==
  /\ latest = 0
  /\ records = [s \in Slots |-> NoRecord]
  /\ count = 0
  /\ held = None

(***************************************************************************)
(* reserve_many: the last cursor of the batch must not overflow; the first *)
(* is computed even for an empty batch.                                    *)
(***************************************************************************)
CursorsLeft(kinds) ==
  latest + 1 <= MaxCursor /\ latest + Len(kinds) <= MaxCursor

reserve(m, kinds) ==
  /\ held = None
  /\ CursorsLeft(kinds)
  /\ held' = [by |-> m, first |-> latest + 1, kinds |-> kinds]
  /\ UNCHANGED <<latest, records, count>>

\* The records a commit leaves: of two records for one slot the later one stays.
Written(first, kinds) ==
  [s \in Slots |->
     LET hits == {i \in 1 .. Len(kinds) : slot(first + i - 1) = s}
         last == CHOOSE i \in hits : \A j \in hits : j <= i
     IN IF hits = {} THEN records[s]
        ELSE [cursor |-> first + last - 1, kind |-> kinds[last]]]

\* Mutant: one record fewer than the ring holds is counted.
Saturated_short(n) == IF n >= Capacity THEN Capacity - 1 ELSE n

Saturated(n) == IF n > Capacity THEN Capacity ELSE n

commit(m) ==
  /\ held # None /\ held.by = m
  /\ records' = Written(held.first, held.kinds)
  /\ count' = Saturated(count + Len(held.kinds))
  /\ latest' = IF held.kinds = <<>> THEN latest
               ELSE held.first + Len(held.kinds) - 1
  /\ held' = None

\* The mutation failed after its reservation: nothing is published.
abandon(m) ==
  /\ held # None /\ held.by = m
  /\ held' = None
  /\ UNCHANGED <<latest, records, count>>

LogNext ==
  \E m \in Mutator :
    \/ \E kinds \in Batch : reserve(m, kinds)
    \/ commit(m)
    \/ abandon(m)

LogSpec == LogInit /\ [][LogNext]_logVars

(***************************************************************************)
(* read_since, under the mutex: the records after a cursor, or a loss.     *)
(***************************************************************************)
oldest == latest - (IF count = 0 THEN 0 ELSE count - 1)

\* Mutant: one change too many is believed to be retained.
read_since_late(after) ==
  IF after = latest THEN <<>>
  ELSE IF after + 2 < oldest THEN Lost
  ELSE [i \in 1 .. latest - after |-> records[slot(after + i)].kind]

read_since(after) ==
  IF after = latest THEN <<>>
  ELSE IF after + 1 < oldest THEN Lost
  ELSE [i \in 1 .. latest - after |-> records[slot(after + i)].kind]

-----------------------------------------------------------------------------
(***************************************************************************)
(* The stream this ring implements: the retained changes by their cursors. *)
(***************************************************************************)
Stream == INSTANCE InvalidationStream WITH
  window <- [i \in 1 .. count |-> records[slot(latest - count + i)].kind]

StreamSpec == Stream!Spec

LogTypeOK ==
  /\ latest \in 0 .. MaxCursor
  /\ records \in [Slots -> [cursor : 0 .. MaxCursor, kind : Change \cup {None}]]
  /\ count \in 0 .. Capacity
  /\ held \in {None} \cup [by : Mutator, first : Nat, kinds : Batch]

\* Whatever a consumer has seen, read_since gives it exactly the later changes
\* of the stream or reports a loss; it never hides one (the test
\* bounded_stream_reports_loss_instead_of_hiding_changes).
ReadIsExact ==
  \A after \in 0 .. latest : read_since(after) = Stream!Since(after)

\* Every cursor read_since visits has its own record in the ring: the expect
\* and the debug_assert of read_since cannot fail.
RetainedAreStamped ==
  /\ count <= latest
  /\ \A c \in latest - count + 1 .. latest : records[slot(c)].cursor = c

\* The ring answers every reader as the stream would.
LogConsistent == LogTypeOK /\ ReadIsExact /\ RetainedAreStamped

=============================================================================
