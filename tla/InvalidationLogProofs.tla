----------------------- MODULE InvalidationLogProofs ------------------------
(***************************************************************************)
(* The ring of MemoryInvalidationLog implements the stream its readers     *)
(* rely on, for every capacity, every width of the cursor and every set of *)
(* batches.                                                                *)
(***************************************************************************)
EXTENDS InvalidationLog, WellFoundedInduction, TLAPS

\* What no reader sees but every step needs: the ring is full once Capacity
\* changes were published, and a reservation starts at the next cursor and
\* ends at one that exists.
RingInv ==
  /\ LogTypeOK
  /\ RetainedAreStamped
  /\ count = Saturated(latest)
  /\ held # None => /\ held.first = latest + 1
                    /\ latest + Len(held.kinds) <= MaxCursor

-----------------------------------------------------------------------------
(* Cursors, slots and indices.                                             *)

\* Multiplication by a positive number is strictly monotonic.
LEMMA Multiples ==
  ASSUME NEW C \in Nat \ {0}, NEW p \in Int, NEW q \in Int, p < q
  PROVE  C * p + C <= C * q
  OBVIOUS

\* Numbers less than C apart have different remainders.
LEMMA Remainders ==
  ASSUME NEW C \in Nat \ {0}, NEW a \in Nat, NEW b \in Nat, a < b, b - a < C
  PROVE  a % C # b % C
<1> SUFFICES ASSUME a % C = b % C PROVE FALSE
  OBVIOUS
<1> DEFINE p == a \div C
           q == b \div C
           r == a % C
<1>1. a = C * p + r /\ b = C * q + r
  OBVIOUS
<1>2. p \in Int /\ q \in Int /\ r \in Int
  OBVIOUS
<1> HIDE DEF p, q, r
<1>3. CASE p < q
  BY <1>1, <1>2, <1>3, Multiples
<1>4. CASE q <= p
  <2>1. C * q <= C * p
    BY <1>2, <1>4, Multiples
  <2> QED  BY <1>1, <1>2, <2>1
<1> QED  BY <1>2, <1>3, <1>4

\* Two cursors less than Capacity apart have different slots.
LEMMA SlotsDiffer ==
  ASSUME LogConfiguration, NEW a \in Nat \ {0}, NEW b \in Nat \ {0},
         a < b, b - a < Capacity
  PROVE  slot(a) # slot(b)
<1>1. a - 1 \in Nat /\ b - 1 \in Nat /\ a - 1 < b - 1
      /\ (b - 1) - (a - 1) < Capacity
  BY DEF LogConfiguration
<1> QED  BY <1>1, Remainders DEF slot, LogConfiguration

\* A cursor has a slot of the ring.
LEMMA SlotType ==
  ASSUME LogConfiguration, NEW a \in Nat \ {0}
  PROVE  slot(a) \in Slots
  BY DEF LogConfiguration, slot, Slots

\* A set of natural numbers that is not empty has a least element.
LEMMA LeastNatural ==
  ASSUME NEW T \in SUBSET Nat, T # {}
  PROVE  \E x \in T : \A y \in T : x <= y
<1> DEFINE R == {ss \in Nat \X Nat : ss[1] < ss[2]}
<1>1. IsWellFoundedOn(R, Nat)
  <2>1. R = OpToRel(<, Nat)
    BY Zenon DEF OpToRel
  <2> QED  BY <2>1, NatLessThanWellFounded, Zenon
<1>2. \A y, z \in Nat : y < z => <<y, z>> \in R
  BY SMT
<1> HIDE DEF R
<1>3. PICK x \in T : \A y \in T : ~(<<y, x>> \in R)
  BY <1>1, WFMin, Zenon
<1>4. \A y \in T : ~(y < x)
  BY <1>2, <1>3
<1> QED  BY <1>4

\* A bounded set of indices that is not empty has a greatest element.
LEMMA GreatestIndex ==
  ASSUME NEW n \in Nat, NEW hits \in SUBSET (1 .. n), hits # {}
  PROVE  \E i \in hits : \A j \in hits : j <= i
<1> DEFINE T == {m \in Nat : n - m \in hits}
<1>1. \A j \in hits : n - j \in T
  OBVIOUS
<1>2. T \in SUBSET Nat /\ T # {}
  BY <1>1
<1>3. PICK x \in T : \A y \in T : x <= y
  BY <1>2, LeastNatural
<1>4. \A j \in hits : x <= n - j
  BY <1>1, <1>3
<1> QED  BY <1>3, <1>4

\* The last n elements of a longer sequence.
LEMMA LastOfSequence ==
  ASSUME NEW S, NEW s \in Seq(S), NEW n \in Nat, n < Len(s)
  PROVE  Stream!LastOf(s, n) = [i \in 1 .. n |-> s[i + (Len(s) - n)]]
<1>1. Stream!LastOf(s, n) = SubSeq(s, Len(s) - n + 1, Len(s))
  BY DEF Stream!LastOf
<1> QED  BY <1>1

\* The elements of a concatenation.
LEMMA ElementOfConcatenation ==
  ASSUME NEW S, NEW s \in Seq(S), NEW t \in Seq(S),
         NEW i \in 1 .. Len(s) + Len(t)
  PROVE  (s \o t)[i] = IF i > Len(s) THEN t[i - Len(s)] ELSE s[i]
  OBVIOUS

-----------------------------------------------------------------------------
(* What a commit writes.                                                   *)

\* Every slot holds a record after a commit, and none is stamped later than
\* the batch.
LEMMA WrittenType ==
  ASSUME LogConfiguration, LogTypeOK, NEW kinds \in Seq(Change),
         latest + Len(kinds) <= MaxCursor
  PROVE  Written(latest + 1, kinds)
           \in [Slots -> [cursor : 0 .. MaxCursor, kind : Change \cup {None}]]
<1> SUFFICES ASSUME NEW s \in Slots
             PROVE  Written(latest + 1, kinds)[s]
                      \in [cursor : 0 .. MaxCursor, kind : Change \cup {None}]
  BY DEF Written
<1> DEFINE hits == {i \in 1 .. Len(kinds) : slot(latest + 1 + i - 1) = s}
           last == CHOOSE i \in hits : \A j \in hits : j <= i
<1>1. Written(latest + 1, kinds)[s]
        = IF hits = {} THEN records[s]
          ELSE [cursor |-> latest + 1 + last - 1, kind |-> kinds[last]]
  BY DEF Written
<1>2. CASE hits = {}
  BY <1>1, <1>2 DEF LogTypeOK
<1>3. CASE hits # {}
  <2>1. last \in hits
    <3>1. hits \in SUBSET (1 .. Len(kinds)) /\ Len(kinds) \in Nat
      OBVIOUS
    <3>2. \E i \in hits : \A j \in hits : j <= i
      BY <1>3, <3>1, GreatestIndex
    <3> QED  BY <3>2
  <2>2. last \in 1 .. Len(kinds) /\ kinds[last] \in Change
    BY <2>1
  <2>3. latest \in Nat /\ MaxCursor \in Nat
    BY DEF LogTypeOK, LogConfiguration
  <2> HIDE DEF hits, last
  <2>4. latest + 1 + last - 1 \in 0 .. MaxCursor
    BY <2>2, <2>3
  <2> QED  BY <1>1, <1>3, <2>2, <2>4
<1> QED  BY <1>2, <1>3

\* A cursor retained after a commit finds its own change in its slot: the
\* change of the batch, or the one that was there and is not overwritten.
LEMMA WrittenRetains ==
  ASSUME LogConfiguration, LogTypeOK, count <= latest, NEW kinds \in Seq(Change),
         NEW c \in latest + Len(kinds) - Saturated(count + Len(kinds)) + 1
                     .. latest + Len(kinds)
  PROVE  /\ c \in Nat \ {0}
         /\ c >= latest - count + 1
         /\ Written(latest + 1, kinds)[slot(c)]
              = IF c > latest
                THEN [cursor |-> c, kind |-> kinds[c - latest]]
                ELSE records[slot(c)]
<1> DEFINE n == Len(kinds)
           hits == {i \in 1 .. n : slot(latest + 1 + i - 1) = slot(c)}
           last == CHOOSE i \in hits : \A j \in hits : j <= i
<1>1. /\ n \in Nat /\ latest \in Nat /\ count \in Nat /\ Capacity \in Nat \ {0}
      /\ Saturated(count + n) \in 0 .. Capacity
      /\ Saturated(count + n) <= count + n
  BY DEF LogTypeOK, LogConfiguration, Saturated
<1>2. c \in Nat \ {0} /\ c >= latest - count + 1 /\ c <= latest + n
      /\ latest + n - c < Capacity
  BY <1>1
<1>3. Written(latest + 1, kinds)[slot(c)]
        = IF hits = {} THEN records[slot(c)]
          ELSE [cursor |-> latest + 1 + last - 1, kind |-> kinds[last]]
  BY <1>2, SlotType DEF Written
<1>4. \A i \in 1 .. n : latest + i > c => i \notin hits
  <2> SUFFICES ASSUME NEW i \in 1 .. n, latest + i > c
               PROVE  slot(latest + 1 + i - 1) # slot(c)
    OBVIOUS
  <2>1. latest + i \in Nat \ {0} /\ latest + i - c < Capacity
        /\ latest + 1 + i - 1 = latest + i
    BY <1>1, <1>2
  <2>2. c \in Nat \ {0} /\ c < latest + i
    BY <1>1, <1>2
  <2>3. slot(c) # slot(latest + i)
    <3> DEFINE b == latest + i
    <3>1. b \in Nat \ {0} /\ c < b /\ b - c < Capacity
      BY <1>1, <1>2, <2>1, <2>2
    <3> HIDE DEF b
    <3>2. slot(c) # slot(b)
      BY <1>2, <3>1, SlotsDiffer
    <3> QED  BY <3>2 DEF b
  <2> QED  BY <2>1, <2>3
<1>5. CASE c > latest
  <2> DEFINE k == c - latest
  <2>1. k \in 1 .. n /\ latest + 1 + k - 1 = c
    BY <1>1, <1>2, <1>5
  <2>2. k \in hits
    BY <2>1
  <2>3. \A j \in hits : j <= k
    BY <1>1, <1>2, <1>4, <2>1
  <2>4. last = k
    <3> HIDE DEF k
    <3>1. \A j \in hits : j \in Int
      BY <1>1
    <3> HIDE DEF hits
    <3>2. last \in hits /\ \A j \in hits : j <= last
      BY <2>2, <2>3
    <3>3. last <= k /\ k <= last
      BY <2>2, <2>3, <3>2
    <3> QED  BY <2>2, <3>1, <3>2, <3>3
  <2> HIDE DEF last, hits
  <2> QED  BY <1>2, <1>3, <1>5, <2>1, <2>2, <2>4
<1>6. CASE c <= latest
  <2>1. hits = {}
    BY <1>1, <1>2, <1>4, <1>6
  <2> QED  BY <1>1, <1>2, <1>3, <1>6, <2>1
<1> QED  BY <1>1, <1>2, <1>5, <1>6

-----------------------------------------------------------------------------
(* The invariant.                                                          *)

\* The empty ring satisfies the invariant.
LEMMA RingInit == LogConfiguration /\ LogInit => RingInv
<1> SUFFICES ASSUME LogConfiguration, LogInit PROVE RingInv
  OBVIOUS
<1>1. LogTypeOK
  BY DEF LogConfiguration, LogInit, LogTypeOK, NoRecord
<1>2. RetainedAreStamped
  BY DEF LogInit, RetainedAreStamped
<1> QED  BY <1>1, <1>2 DEF LogConfiguration, LogInit, RingInv, Saturated

\* Every step keeps the invariant; only a commit touches the ring.
LEMMA RingStep == LogConfiguration /\ RingInv /\ [LogNext]_logVars => RingInv'
<1> SUFFICES ASSUME LogConfiguration, RingInv, [LogNext]_logVars PROVE RingInv'
  OBVIOUS
<1>1. CASE UNCHANGED logVars
  BY <1>1 DEF RingInv, LogTypeOK, RetainedAreStamped, logVars
<1>2. ASSUME NEW m \in Mutator, NEW kinds \in Batch, reserve(m, kinds)
      PROVE  RingInv'
  <2>1. held' = [by |-> m, first |-> latest + 1, kinds |-> kinds]
        /\ UNCHANGED <<latest, records, count>>
    BY <1>2 DEF reserve
  <2>2. LogTypeOK' /\ RetainedAreStamped'
    BY <2>1 DEF RingInv, LogTypeOK, RetainedAreStamped
  <2>3. held'.first = latest' + 1 /\ latest' + Len(held'.kinds) <= MaxCursor
    BY <1>2, <2>1 DEF reserve, CursorsLeft
  <2> QED  BY <2>1, <2>2, <2>3 DEF RingInv
<1>3. ASSUME NEW m \in Mutator, commit(m)
      PROVE  RingInv'
  <2> DEFINE kinds == held.kinds
             n == Len(kinds)
  <2>1. held # None /\ held.first = latest + 1 /\ latest + n <= MaxCursor
        /\ kinds \in Batch /\ kinds \in Seq(Change) /\ n \in Nat
    BY <1>3 DEF commit, RingInv, LogTypeOK, LogConfiguration
  <2>2. records' = Written(latest + 1, kinds) /\ held' = None
        /\ count' = Saturated(count + n)
    BY <1>3, <2>1 DEF commit
  <2>3. latest' = latest + n
    <3>1. latest \in Nat
      BY DEF RingInv, LogTypeOK
    <3>2. CASE kinds = <<>>
      BY <1>3, <3>1, <3>2 DEF commit
    <3>3. CASE kinds # <<>>
      <4>1. latest' = held.first + n - 1
        BY <1>3, <3>3, Zenon DEF commit
      <4> HIDE DEF kinds
      <4> QED  BY <2>1, <3>1, <4>1
    <3> QED  BY <3>2, <3>3
  <2> HIDE DEF kinds
  <2>4. latest \in Nat /\ MaxCursor \in Nat /\ Capacity \in Nat \ {0}
        /\ count \in 0 .. Capacity /\ count <= latest
        /\ count = Saturated(latest)
    BY DEF RingInv, LogTypeOK, LogConfiguration, RetainedAreStamped
  <2>5. LogTypeOK'
    BY <2>1, <2>2, <2>3, <2>4, WrittenType DEF RingInv, LogTypeOK, Saturated
  <2>6. count' = Saturated(latest')
    BY <2>1, <2>2, <2>3, <2>4 DEF Saturated
  <2>7. RetainedAreStamped'
    <3>1. count' <= latest'
      BY <2>1, <2>3, <2>4, <2>6 DEF Saturated
    <3>2. ASSUME NEW c \in latest' - count' + 1 .. latest'
          PROVE  records'[slot(c)].cursor = c
      <4>1. c \in latest + n - Saturated(count + n) + 1 .. latest + n
        BY <2>1, <2>2, <2>3, <2>4 DEF Saturated
      <4>2. /\ c \in Nat \ {0}
            /\ c >= latest - count + 1
            /\ records'[slot(c)]
                 = IF c > latest
                   THEN [cursor |-> c, kind |-> kinds[c - latest]]
                   ELSE records[slot(c)]
        BY <2>1, <2>2, <2>4, <4>1, WrittenRetains DEF RingInv
      <4>3. c <= latest => records[slot(c)].cursor = c
        BY <2>4, <4>2 DEF RingInv, RetainedAreStamped
      <4> QED  BY <2>4, <4>2, <4>3
    <3> QED  BY <3>1, <3>2 DEF RetainedAreStamped
  <2> QED  BY <2>2, <2>5, <2>6, <2>7 DEF RingInv
<1>4. ASSUME NEW m \in Mutator, abandon(m)
      PROVE  RingInv'
  BY <1>4 DEF abandon, RingInv, LogTypeOK, RetainedAreStamped
<1> QED  BY <1>1, <1>2, <1>3, <1>4 DEF LogNext

\* What read_since answers is what the stream owes.
LEMMA ReadsAreExact == LogConfiguration /\ RingInv => ReadIsExact
<1> SUFFICES ASSUME LogConfiguration, RingInv, NEW after \in 0 .. latest
             PROVE  read_since(after) = Stream!Since(after)
  BY DEF ReadIsExact
<1> DEFINE W == [i \in 1 .. count |-> records[slot(latest - count + i)].kind]
           d == latest - after
<1>1. latest \in Nat /\ Capacity \in Nat \ {0} /\ count \in Nat
      /\ count = Saturated(latest) /\ after \in Nat /\ d \in Nat
  BY DEF RingInv, LogTypeOK, LogConfiguration
<1>2. Len(W) = count /\ W \in Seq({W[i] : i \in 1 .. count})
  BY <1>1
<1>3. Stream!Since(after)
        = IF d > Len(W) THEN Lost
          ELSE IF Len(W) <= d THEN W ELSE SubSeq(W, Len(W) - d + 1, Len(W))
  BY DEF Stream!Since, Stream!LastOf
<1>4. CASE after = latest
  <2>1. d = 0 /\ read_since(after) = <<>>
    BY <1>1, <1>4 DEF read_since
  <2>2. CASE count = 0
    BY <1>1, <1>2, <1>3, <2>1, <2>2
  <2>3. CASE count # 0
    BY <1>1, <1>2, <1>3, <2>1, <2>3
  <2> QED  BY <2>2, <2>3
<1>5. CASE after # latest
  <2>1. count # 0 /\ oldest = latest - count + 1
    BY <1>1, <1>5 DEF Saturated, oldest
  <2>2. CASE d > count
    BY <1>1, <1>2, <1>3, <1>5, <2>1, <2>2 DEF read_since
  <2>3. CASE d <= count
    <3>1. read_since(after)
            = [i \in 1 .. d |-> records[slot(after + i)].kind]
      BY <1>1, <1>5, <2>1, <2>3 DEF read_since
    <3>2. CASE d = count
      <4>1. Stream!Since(after) = W
        <5> HIDE DEF W, d
        <5> QED  BY <1>1, <1>2, <1>3, <3>2
      <4>2. latest - count = after
        BY <1>1, <3>2
      <4> QED  BY <1>1, <3>1, <3>2, <4>1, <4>2
    <3>3. CASE d < count
      <4>1. Stream!Since(after) = Stream!LastOf(W, d)
        BY <1>1, <1>2, <3>3 DEF Stream!Since
      <4>2. Stream!LastOf(W, d) = [i \in 1 .. d |-> W[i + (Len(W) - d)]]
        <5>1. d < Len(W)
          BY <1>1, <1>2, <3>3
        <5>2. d \in Nat
          BY <1>1
        <5> DEFINE K == {W[i] : i \in 1 .. count}
        <5>3. W \in Seq(K)
          BY <1>2
        <5> HIDE DEF W, d, K
        <5> QED  BY <5>1, <5>2, <5>3, LastOfSequence, Zenon
      <4>3. \A i \in 1 .. d : /\ i + (Len(W) - d) \in 1 .. count
                             /\ latest - count + (i + (Len(W) - d)) = after + i
        <5> HIDE DEF W
        <5> QED  BY <1>1, <1>2, <3>3
      <4>4. \A i \in 1 .. d : W[i + (Len(W) - d)] = records[slot(after + i)].kind
        BY <4>3
      <4> HIDE DEF W
      <4> QED  BY <3>1, <4>1, <4>2, <4>4
    <3> QED  BY <1>1, <2>3, <3>2, <3>3
  <2> QED  BY <1>1, <2>2, <2>3
<1> QED  BY <1>4, <1>5

-----------------------------------------------------------------------------
(* The theorems.                                                           *)

\* The ring answers every reader as the stream would: read_since gives exactly
\* the changes after a cursor or reports a loss, and never meets a record of
\* another cursor.
THEOREM LogSafety ==
  ASSUME LogConfiguration
  PROVE  LogSpec => []LogConsistent
<1>1. LogInit => RingInv
  BY RingInit
<1>2. RingInv /\ [LogNext]_logVars => RingInv'
  BY RingStep
<1>3. RingInv => LogConsistent
  BY ReadsAreExact DEF RingInv, LogConsistent
<1> QED  BY <1>1, <1>2, <1>3, PTL DEF LogSpec

\* A commit shifts the window of the stream by the batch.
LEMMA CommitPublishes ==
  ASSUME LogConfiguration, RingInv, RingInv', NEW m \in Mutator, commit(m)
  PROVE  Stream!Publish(held.kinds)
<1> DEFINE kinds == held.kinds
           n == Len(kinds)
           W == [i \in 1 .. count |-> records[slot(latest - count + i)].kind]
           U == [i \in 1 .. count' |->
                   records'[slot(latest' - count' + i)].kind]
           k == count + n - count'
<1>1. held # None /\ held.first = latest + 1 /\ latest + n <= MaxCursor
      /\ kinds \in Batch /\ kinds \in Seq(Change) /\ n \in Nat
  BY DEF commit, RingInv, LogTypeOK, LogConfiguration
<1>2. records' = Written(latest + 1, kinds) /\ count' = Saturated(count + n)
  BY <1>1 DEF commit
<1>3. latest \in Nat /\ Capacity \in Nat \ {0} /\ count \in 0 .. Capacity
      /\ count <= latest
  BY DEF RingInv, LogTypeOK, LogConfiguration, RetainedAreStamped
<1>4. latest' = latest + n
  <2>1. CASE kinds = <<>>
    BY <1>3, <2>1 DEF commit
  <2>2. CASE kinds # <<>>
    <3>1. latest' = held.first + n - 1
      BY <2>2, Zenon DEF commit
    <3> HIDE DEF kinds
    <3> QED  BY <1>1, <1>3, <3>1
  <2> QED  BY <2>1, <2>2
<1> HIDE DEF kinds
<1>5. count' \in 0 .. Capacity /\ count' = IF count + n <= Capacity THEN count + n
                                         ELSE Capacity
  BY <1>1, <1>2, <1>3 DEF Saturated
<1>6. W \in Seq(Change \cup {None}) /\ Len(W) = count
  <2>1. \A i \in 1 .. count : slot(latest - count + i) \in Slots
    <3> SUFFICES ASSUME NEW i \in 1 .. count
                 PROVE  slot(latest - count + i) \in Slots
      OBVIOUS
    <3>1. latest - count + i \in Nat \ {0}
      BY <1>3
    <3> QED  BY <3>1, SlotType
  <2>2. \A i \in 1 .. count : W[i] \in Change \cup {None}
    BY <2>1 DEF RingInv, LogTypeOK
  <2> QED  BY <1>3, <2>2
<1>7. \A i \in 1 .. count' : U[i] = (W \o kinds)[i + k]
  <2> SUFFICES ASSUME NEW i \in 1 .. count', NEW j, j = i + k
               PROVE  U[i] = (W \o kinds)[j]
    OBVIOUS
  <2> DEFINE c == latest' - count' + i
             S == Change \cup {None}
  <2>1. c \in latest + n - Saturated(count + n) + 1 .. latest + n
    <3>1. c \in latest' - count' + 1 .. latest'
      BY <1>1, <1>3, <1>4, <1>5
    <3> QED  BY <1>1, <1>2, <1>3, <1>4, <3>1 DEF Saturated
  <2>2. c = latest - count + j /\ j \in 1 .. count + n
    BY <1>1, <1>3, <1>4, <1>5
  <2>3. records'[slot(c)] = IF c > latest
                            THEN [cursor |-> c, kind |-> kinds[c - latest]]
                            ELSE records[slot(c)]
    <3> HIDE DEF c
    <3> QED  BY <1>1, <1>2, <1>3, <2>1, WrittenRetains DEF RingInv
  <2>4. U[i] = records'[slot(c)].kind
    OBVIOUS
  <2>5. (W \o kinds)[j] = IF j > Len(W) THEN kinds[j - Len(W)] ELSE W[j]
    <3>1. kinds \in Seq(S)
      BY <1>1
    <3>2. j \in 1 .. Len(W) + Len(kinds)
      BY <1>6, <2>2
    <3>3. W \in Seq(S)
      BY <1>6
    <3> HIDE DEF W, S
    <3> QED  BY <3>1, <3>2, <3>3, ElementOfConcatenation, Zenon
  <2>6. CASE c > latest
    <3> HIDE DEF W, U, c
    <3>1. j > Len(W) /\ c - latest = j - Len(W)
      BY <1>1, <1>3, <1>6, <2>2, <2>6
    <3> QED  BY <2>3, <2>4, <2>5, <2>6, <3>1
  <2>7. CASE ~(c > latest)
    <3>1. j \in 1 .. count /\ ~(j > Len(W))
      <4> HIDE DEF W, c
      <4> QED  BY <1>1, <1>3, <1>6, <2>2, <2>7
    <3>2. W[j] = records[slot(c)].kind
      BY <2>2, <3>1
    <3> HIDE DEF W, U, c
    <3> QED  BY <2>3, <2>4, <2>5, <2>7, <3>1, <3>2
  <2> QED  BY <2>6, <2>7
<1>8. U = Stream!LastOf(W \o kinds, Capacity)
  <2>1. W \o kinds \in Seq(Change \cup {None}) /\ Len(W \o kinds) = count + n
    <3> HIDE DEF W
    <3>1. kinds \in Seq(Change \cup {None})
      BY <1>1
    <3> QED  BY <1>6, <3>1
  <2> DEFINE V == W \o kinds
  <2> HIDE DEF V
  <2>2. U = [i \in 1 .. count' |-> V[i + k]]
    BY <1>7 DEF V
  <2>3. V \in Seq(Change \cup {None}) /\ Len(V) = count + n
    BY <2>1 DEF V
  <2> HIDE DEF W, U
  <2>4. CASE count + n <= Capacity
    <3>1. k = 0 /\ count' = Len(V)
      BY <1>1, <1>3, <1>5, <2>3, <2>4
    <3>2. U = V
      BY <2>2, <2>3, <3>1
    <3> QED  BY <1>3, <2>3, <2>4, <3>2 DEF V, Stream!LastOf
  <2>5. CASE ~(count + n <= Capacity)
    <3>1. count' = Capacity /\ k = Len(V) - Capacity
      BY <1>1, <1>3, <1>5, <2>3, <2>5
    <3>2. Stream!LastOf(V, Capacity)
            = [i \in 1 .. Capacity |-> V[i + (Len(V) - Capacity)]]
      <4>1. Capacity \in Nat /\ Capacity < Len(V)
        BY <1>1, <1>3, <2>3, <2>5
      <4> QED  BY <2>3, <4>1, LastOfSequence, Zenon
    <3> QED  BY <2>2, <3>1, <3>2 DEF V
  <2> QED  BY <2>4, <2>5
<1> QED  BY <1>4, <1>8 DEF Stream!Publish, kinds

\* The ring implements the stream: a commit publishes its batch as a whole,
\* and a reservation, committed or given up, shows nothing.
THEOREM LogRefinesStream ==
  ASSUME LogConfiguration
  PROVE  LogSpec => StreamSpec
<1>1. LogInit => RingInv /\ Stream!Init
  BY RingInit DEF LogConfiguration, LogInit, Stream!Init
<1>2. RingInv /\ [LogNext]_logVars => RingInv'
  BY RingStep
<1>3. RingInv /\ RingInv' /\ [LogNext]_logVars => [Stream!Next]_(Stream!vars)
  <2> SUFFICES ASSUME RingInv, RingInv', [LogNext]_logVars
               PROVE  [Stream!Next]_(Stream!vars)
    OBVIOUS
  <2>1. CASE UNCHANGED <<latest, records, count>>
    BY <2>1 DEF Stream!vars
  <2>2. ASSUME NEW m \in Mutator, commit(m)
        PROVE  Stream!Next
    BY <2>2, CommitPublishes DEF Stream!Next, commit, RingInv, LogTypeOK
  <2> QED  BY <2>1, <2>2 DEF LogNext, reserve, abandon, logVars
<1> QED  BY <1>1, <1>2, <1>3, PTL DEF LogSpec, StreamSpec, Stream!Spec
=============================================================================
