--------------------------- MODULE JitCacheProofs ---------------------------
(***************************************************************************)
(* Proofs about JitCache: native code under its lease is current, and the  *)
(* cache stays consistent, for any keys, pages, spans, vCPUs, workers and  *)
(* bounds.                                                                 *)
(*                                                                         *)
(* The argument counts changes.  The version of a dependency is the number *)
(* of its records in the stream, plus one while a rewritten page has not   *)
(* been announced (MemoryInv).  A published region has versions between    *)
(* what the process has consumed and what memory holds (CellOK): a reader  *)
(* starts from a cursor and reads no less than the stream had then, and it *)
(* publishes only if nothing it read has been announced since (VcpuOK,     *)
(* WorkerOK).  While a vCPU is in native code its process has consumed the *)
(* whole stream and no rewritten page is unannounced, so the two bounds    *)
(* meet, for the region it was dispatched to and for every region a cell   *)
(* may chain it to.                                                        *)
(***************************************************************************)
EXTENDS JitCache, FiniteSetTheorems, TLAPS

Plain == {"idle", "dispatch", "ready", "aborting", "leased", "broken", "reconcile", "gone"}
Reading == {"discover", "compiled"}
Native == {"entering", "running", "pushing"}
Sleeping == {"asleep", "drowsy"}
Places == Plain \cup Reading \cup Native \cup Sleeping
States == {"Empty", "CompilingLcq", "Lcq", "HcqQueued", "Hcq"}

Node == [entry : Region \cup {None}, gen : Nat, state : States, hot : BOOLEAN]
JitActor == [pc : Places, key : Key \cup {None}, region : Region \cup {None}, seen : Nat,
             gen : Nat, read : Versions]
Request == [key : Key, gen : Nat, seen : Nat]

-----------------------------------------------------------------------------
(* The inductive invariant.                                                *)

\* A page that was rewritten and not announced yet.
Unannounced(d) == hold # None /\ hold.done /\ hold.page = d

MemoryTypes ==
  /\ mem \in [Dep -> Nat] /\ history \in Seq(Dep) /\ hold \in Reservation \cup {None}

MemoryInv ==
  /\ MemoryTypes
  /\ \A d \in Dep : mem[d] = ChangesOf(d, latest) + (IF Unannounced(d) THEN 1 ELSE 0)
  /\ latest <= MaxChanges /\ (hold # None => latest < MaxChanges)

\* A region between what has been consumed and what memory holds.
Fresh(r, after) ==
  \A d \in DOMAIN r.vers : ChangesOf(d, after) <= r.vers[d] /\ r.vers[d] <= mem[d]

\* A key whose cell holds r when the process has consumed the stream up to after.
CellOK(k, n, r, ix, after) ==
  /\ n.entry = r
  /\ (n.state \in {"Empty", "CompilingLcq"}) = (r = None)
  /\ r # None => /\ \A p \in DOMAIN r.vers \cap CodePage : k \in ix[p]
                 /\ Fresh(r, after)

TablesInv ==
  /\ node \in [Key -> Node] /\ regions \in [Key -> Region \cup {None}]
  /\ index \in [CodePage -> SUBSET Key] /\ cursor \in 0 .. latest /\ bytes \in Nat
  /\ \A k \in Key : CellOK(k, node[k], regions[k], index, cursor)

\* Who reads code has read no less than the stream had when it started.
ReaderOK(a) ==
  /\ a.pc \notin {"idle", "gone"} => a.key \in Key
  /\ a.seen <= latest
  /\ a.pc \in Reading =>
       \A d \in DOMAIN a.read : ChangesOf(d, a.seen) <= a.read[d] /\ a.read[d] <= mem[d]

\* Who runs native code has consumed everything that was announced, and
\* nothing that was rewritten is unannounced.
NativeOK(a) ==
  a.pc \in Native => /\ a.region \in Region /\ cursor = latest
                     /\ hold # None => ~hold.done
                     /\ \A d \in DOMAIN a.region.vers : a.region.vers[d] = mem[d]

VcpuOK(v) ==
  /\ ReaderOK(vcpu[v])
  /\ NativeOK(vcpu[v])
  /\ vcpu[v].pc \in Sleeping => regions[vcpu[v].key] = None

WorkerOK(w) == ReaderOK(worker[w]) /\ worker[w].pc \in {"idle", "gone"} \cup Reading

StackInv ==
  /\ stack \in Seq(Request) /\ Len(stack) <= StackCapacity
  /\ \A i \in DOMAIN stack : stack[i].seen <= latest

ActorsInv ==
  /\ vcpu \in [Vcpu -> JitActor] /\ \A v \in Vcpu : VcpuOK(v)
  /\ worker \in [Worker -> JitActor] /\ \A w \in Worker : WorkerOK(w)
  /\ StackInv

\* A request for the generation of a node that waits for the high tier.
Requested(k) == \E i \in DOMAIN stack : stack[i].key = k /\ stack[i].gen = node[k].gen
Compiling(k) ==
  \E w \in Worker : worker[w].pc \in Reading /\ worker[w].key = k /\ worker[w].gen = node[k].gen
Pushing(k) ==
  \E v \in Vcpu : vcpu[v].pc = "pushing" /\ vcpu[v].key = k /\ vcpu[v].gen = node[k].gen

QueueInv ==
  ~stopping => \A k \in Key :
    node[k].state = "HcqQueued" => Requested(k) \/ Compiling(k) \/ Pushing(k)

JitInv == MemoryInv /\ TablesInv /\ ActorsInv /\ QueueInv

-----------------------------------------------------------------------------
(* Counting changes.                                                       *)

\* A count of changes is a number, at most that of the records looked at.
LEMMA ChangesType ==
  ASSUME NEW d, NEW n \in Nat
  PROVE  ChangesOf(d, n) \in Nat /\ ChangesOf(d, n) <= n
<1> DEFINE S == {i \in 1 .. n : history[i] = d}
<1>1. IsFiniteSet(1 .. n) /\ Cardinality(1 .. n) = n
  BY FS_Interval
<1>2. S \in SUBSET (1 .. n)
  OBVIOUS
<1>3. IsFiniteSet(S) /\ Cardinality(S) <= Cardinality(1 .. n)
  BY <1>1, <1>2, FS_Subset
<1>4. Cardinality(S) \in Nat
  BY <1>3, FS_CardinalityType
<1> QED  BY <1>1, <1>3, <1>4 DEF ChangesOf

\* Later cursors have seen no fewer changes.
LEMMA ChangesMonotone ==
  ASSUME NEW d, NEW m \in Nat, NEW n \in Nat, m <= n
  PROVE  ChangesOf(d, m) <= ChangesOf(d, n)
<1> DEFINE S == {i \in 1 .. m : history[i] = d}
           T == {i \in 1 .. n : history[i] = d}
<1>1. IsFiniteSet(1 .. n)
  BY FS_Interval
<1>2. S \in SUBSET T /\ T \in SUBSET (1 .. n)
  OBVIOUS
<1>3. IsFiniteSet(T)
  BY <1>1, <1>2, FS_Subset
<1>4. Cardinality(S) <= Cardinality(T)
  BY <1>2, <1>3, FS_Subset
<1> QED  BY <1>4 DEF ChangesOf

\* A dependency that is in no record since then has as many changes as then.
LEMMA ChangesSame ==
  ASSUME NEW d, NEW m \in Nat, m <= latest, latest \in Nat, d \notin Since(m)
  PROVE  ChangesOf(d, m) = ChangesOf(d, latest)
<1>1. {i \in 1 .. m : history[i] = d} = {i \in 1 .. latest : history[i] = d}
  <2> SUFFICES ASSUME NEW i \in 1 .. latest, history[i] = d PROVE i \in 1 .. m
    OBVIOUS
  <2>1. i \notin (m + 1) .. latest
    BY DEF Since
  <2> QED  BY <2>1
<1> QED  BY <1>1, Zenon DEF ChangesOf

\* A record is one change of its dependency and leaves earlier counts alone.
LEMMA ChangesAppend ==
  ASSUME history \in Seq(Dep), NEW x \in Dep, history' = Append(history, x), NEW d
  PROVE  /\ \A n \in 0 .. latest : ChangesOf(d, n)' = ChangesOf(d, n)
         /\ latest' = latest + 1 /\ latest \in Nat
         /\ ChangesOf(d, latest)' = ChangesOf(d, latest) + (IF x = d THEN 1 ELSE 0)
<1>1. /\ latest' = latest + 1 /\ latest \in Nat
      /\ \A i \in 1 .. latest : history'[i] = history[i]
      /\ history'[latest + 1] = x
  BY DEF latest
<1>2. ASSUME NEW n \in 0 .. latest PROVE ChangesOf(d, n)' = ChangesOf(d, n)
  <2>1. \A i \in 1 .. n : i \in 1 .. latest
    BY <1>1
  <2>2. \A i \in 1 .. n : history'[i] = history[i]
    BY <1>1, <2>1, Zenon
  <2>3. {i \in 1 .. n : history'[i] = d} = {i \in 1 .. n : history[i] = d}
    BY <2>2, Zenon
  <2> QED  BY <2>3, Zenon DEF ChangesOf
<1> DEFINE S == {i \in 1 .. latest : history[i] = d}
           T == {i \in 1 .. (latest + 1) : history'[i] = d}
<1>3. IsFiniteSet(S) /\ Cardinality(S) \in Nat
  <2>1. IsFiniteSet(1 .. latest)
    BY <1>1, FS_Interval
  <2>2. IsFiniteSet(S)
    BY <2>1, FS_Subset
  <2> QED  BY <2>2, FS_CardinalityType
<1>6. /\ \A i : i \in 1 .. (latest + 1) <=> i \in 1 .. latest \/ i = latest + 1
      /\ latest + 1 \notin 1 .. latest
  BY <1>1
<1>4. CASE x = d
  <2>1. T = S \cup {latest + 1} /\ latest + 1 \notin S
    BY <1>1, <1>4, <1>6, Zenon
  <2> HIDE DEF S, T
  <2>2. Cardinality(T) = Cardinality(S) + 1
    BY <2>1, <1>3, FS_AddElement
  <2> QED  BY <1>1, <1>2, <1>4, <2>2 DEF ChangesOf, S, T
<1>5. CASE x # d
  <2>1. T = S
    BY <1>1, <1>5, <1>6, Zenon
  <2>2. ChangesOf(d, latest)' = ChangesOf(d, latest)
    BY <1>1, <2>1 DEF ChangesOf
  <2>3. ChangesOf(d, latest) \in Nat
    BY <1>1, ChangesType
  <2> QED  BY <1>1, <1>2, <1>5, <2>2, <2>3
<1> QED  BY <1>4, <1>5

-----------------------------------------------------------------------------
(* Records.                                                                *)

\* No version read is a version of nothing.
LEMMA NothingRead == <<>> \in Versions /\ DOMAIN <<>> = {}
<1>1. DOMAIN <<>> = {} /\ <<>> \in [{} -> Nat]
  OBVIOUS
<1>2. {} \in SUBSET Dep
  OBVIOUS
<1> QED  BY <1>1, <1>2 DEF Versions

\* What is read are numbers, of dependencies.
LEMMA VersionsType ==
  ASSUME NEW r \in Versions
  PROVE  DOMAIN r \subseteq Dep /\ r \in [DOMAIN r -> Nat]
<1>1. PICK deps \in SUBSET Dep : r \in [deps -> Nat]
  BY Zenon DEF Versions
<1> QED  BY <1>1

\* A fresh actor record.
LEMMA AtType ==
  ASSUME NEW pc \in Places
  PROVE  /\ At(pc) \in JitActor /\ At(pc).pc = pc /\ At(pc).seen = 0 /\ At(pc).gen = 0
         /\ At(pc).read = <<>> /\ At(pc).key = None /\ At(pc).region = None
<1>1. <<>> \in Versions
  BY NothingRead
<1> QED  BY <1>1 DEF At, JitActor

\* An actor that moves on changes its place only.
LEMMA MovedType ==
  ASSUME NEW a \in JitActor, NEW pc \in Places
  PROVE  LET b == [a EXCEPT !.pc = pc]
         IN  /\ b \in JitActor /\ b.pc = pc /\ b.key = a.key /\ b.region = a.region
             /\ b.seen = a.seen /\ b.gen = a.gen /\ b.read = a.read
BY DEF JitActor

-----------------------------------------------------------------------------
(* What steps leave alone.                                                 *)

\* A step that changes no memory keeps what is said of memory.
LEMMA MemoryKept ==
  ASSUME MemoryInv, UNCHANGED <<mem, history, hold>>
  PROVE  MemoryInv'
BY Zenon DEF MemoryInv, MemoryTypes, Unannounced, ChangesOf, latest

\* Nor does a step that leaves the tables alone harm them.
LEMMA TablesKept ==
  ASSUME TablesInv, UNCHANGED <<mem, history, node, state>>
  PROVE  TablesInv'
BY Zenon DEF TablesInv, CellOK, Fresh, ChangesOf, latest, state

\* Nor one that leaves the requests alone.
LEMMA QueueKept ==
  ASSUME QueueInv, UNCHANGED <<node, stopping, stack, vcpu, worker>>
  PROVE  QueueInv'
<1>1. \A k \in Key : /\ Requested(k) => Requested(k)'
                     /\ Compiling(k) => Compiling(k)'
                     /\ Pushing(k) => Pushing(k)'
  BY Zenon DEF Requested, Compiling, Pushing
<1> QED  BY <1>1, Zenon DEF QueueInv

\* The types of the state, for use in arithmetic.
LEMMA JitTypes ==
  ASSUME JitInv
  PROVE  /\ mem \in [Dep -> Nat] /\ history \in Seq(Dep) /\ hold \in Reservation \cup {None}
         /\ latest \in Nat /\ cursor \in Nat /\ cursor <= latest
         /\ node \in [Key -> Node] /\ regions \in [Key -> Region \cup {None}]
         /\ vcpu \in [Vcpu -> JitActor] /\ worker \in [Worker -> JitActor]
         /\ stack \in Seq(Request)
<1>1. /\ mem \in [Dep -> Nat] /\ history \in Seq(Dep) /\ hold \in Reservation \cup {None}
      /\ cursor \in 0 .. latest
      /\ node \in [Key -> Node] /\ regions \in [Key -> Region \cup {None}]
      /\ vcpu \in [Vcpu -> JitActor] /\ worker \in [Worker -> JitActor]
      /\ stack \in Seq(Request)
  BY Zenon DEF JitInv, MemoryInv, MemoryTypes, TablesInv, ActorsInv, StackInv
<1>2. latest \in Nat
  BY <1>1 DEF latest
<1> QED  BY <1>1, <1>2

\* A vCPU that is not reading, running or asleep is in order wherever it goes.
LEMMA PlainVcpu ==
  ASSUME NEW v \in Vcpu, vcpu'[v].pc \in Plain, vcpu'[v].seen <= latest',
         vcpu'[v].pc # "idle" => vcpu'[v].key \in Key
  PROVE  VcpuOK(v)'
<1>1. vcpu'[v].pc \notin Reading /\ vcpu'[v].pc \notin Native /\ vcpu'[v].pc \notin Sleeping
  BY DEF Plain, Reading, Native, Sleeping
<1> QED  BY <1>1, Zenon DEF VcpuOK, ReaderOK, NativeOK

\* A vCPU that stays where it is, while memory does not change and what it
\* sleeps on is not published.
LEMMA KeptVcpu ==
  ASSUME JitInv, UNCHANGED <<mem, history, hold>>, cursor' \in {cursor, latest},
         NEW v \in Vcpu, vcpu'[v] = vcpu[v],
         vcpu[v].pc \in Sleeping => regions'[vcpu[v].key] = None
  PROVE  VcpuOK(v)'
<1>1. VcpuOK(v)
  BY Zenon DEF JitInv, ActorsInv
<1>2. latest' = latest
  BY DEF latest
<1>3. ReaderOK(vcpu[v])'
  BY <1>1, <1>2, Zenon DEF VcpuOK, ReaderOK, ChangesOf
<1>4. NativeOK(vcpu[v])'
  BY <1>1, <1>2, Zenon DEF VcpuOK, NativeOK
<1> QED  BY <1>3, <1>4, Zenon DEF VcpuOK

\* Workers that stay where they are.
LEMMA KeptWorker ==
  ASSUME JitInv, UNCHANGED <<mem, history>>, NEW w \in Worker, worker'[w] = worker[w]
  PROVE  WorkerOK(w)'
<1>1. WorkerOK(w)
  BY Zenon DEF JitInv, ActorsInv
<1> QED  BY <1>1, Zenon DEF WorkerOK, ReaderOK, ChangesOf, latest

\* One vCPU moves; nothing that was not published is.
LEMMA OneVcpu ==
  ASSUME JitInv, UNCHANGED <<mem, history, hold, stack, worker>>,
         cursor' \in {cursor, latest},
         \A k \in Key : regions[k] = None => regions'[k] = None,
         NEW v \in Vcpu, NEW b \in JitActor, vcpu' = [vcpu EXCEPT ![v] = b], VcpuOK(v)'
  PROVE  ActorsInv'
<1>1. /\ vcpu \in [Vcpu -> JitActor]
      /\ \A u \in Vcpu : VcpuOK(u)
      /\ worker \in [Worker -> JitActor] /\ StackInv
  BY Zenon DEF JitInv, ActorsInv
<1>2. vcpu' \in [Vcpu -> JitActor]
  BY <1>1, Zenon
<1>3. ASSUME NEW u \in Vcpu PROVE VcpuOK(u)'
  <2>1. CASE u = v
    BY <2>1, Zenon
  <2>2. CASE u # v
    <3>1. vcpu'[u] = vcpu[u]
      BY <1>1, <2>2, Zenon
    <3>2. vcpu[u].pc \in Sleeping => regions[vcpu[u].key] = None /\ vcpu[u].key \in Key
      <4>1. vcpu[u].pc \in Sleeping => vcpu[u].pc \notin {"idle", "gone"}
        BY DEF Sleeping
      <4> QED  BY <1>1, <4>1, Zenon DEF VcpuOK, ReaderOK
    <3> QED  BY <3>1, <3>2, KeptVcpu, Zenon
  <2> QED  BY <2>1, <2>2, Zenon
<1>4. \A w \in Worker : WorkerOK(w)'
  BY KeptWorker, Zenon
<1>5. StackInv'
  BY <1>1, Zenon DEF StackInv, latest
<1> QED  BY <1>1, <1>2, <1>3, <1>4, <1>5, Zenon DEF ActorsInv

-----------------------------------------------------------------------------
(* Reconciling, and publishing a region.                                   *)

\* The tables after a step, cell by cell.
LEMMA TablesStep ==
  ASSUME UNCHANGED <<mem, history>>, node' \in [Key -> Node],
         regions' \in [Key -> Region \cup {None}], index' \in [CodePage -> SUBSET Key],
         cursor' \in 0 .. latest, bytes' \in Nat,
         \A k \in Key : CellOK(k, node'[k], regions'[k], index', cursor')
  PROVE  TablesInv'
BY Zenon DEF TablesInv, CellOK, Fresh, ChangesOf, latest

\* A region that no record since the cursor touches stays fresh.
LEMMA FreshLater ==
  ASSUME NEW r \in Region, NEW m \in Nat, latest \in Nat, m <= latest, Fresh(r, m),
         DOMAIN r.vers \cap Since(m) = {}
  PROVE  Fresh(r, latest)
<1> SUFFICES ASSUME NEW d \in DOMAIN r.vers
             PROVE  ChangesOf(d, latest) <= r.vers[d] /\ r.vers[d] <= mem[d]
  BY Zenon DEF Fresh
<1>1. d \notin Since(m)
  BY Zenon
<1>2. ChangesOf(d, m) = ChangesOf(d, latest)
  BY <1>1, ChangesSame, Zenon
<1> QED  BY <1>2, Zenon DEF Fresh

\* reconcile_invalidations drops every region that an announced change
\* touches, lost history included; what it leaves is fresh up to the end.
LEMMA Reconciled ==
  ASSUME JitInv
  PROVE  /\ NodesAfter \in [Key -> Node] /\ RegionsAfter \in [Key -> Region \cup {None}]
         /\ \A k \in Key : /\ CellOK(k, NodesAfter[k], RegionsAfter[k], index, latest)
                           /\ \/ NodesAfter[k] = node[k] /\ RegionsAfter[k] = regions[k]
                              \/ NodesAfter[k].state = "Empty" /\ RegionsAfter[k] = None
<1>1. /\ latest \in Nat /\ cursor \in Nat /\ cursor <= latest
      /\ node \in [Key -> Node] /\ regions \in [Key -> Region \cup {None}]
  BY JitTypes, Zenon
<1>2. \A k \in Key : CellOK(k, node[k], regions[k], index, cursor)
  BY Zenon DEF JitInv, TablesInv
<1>3. ASSUME NEW k \in Key
      PROVE  LET n == invalidated(node[k])
             IN  n \in Node /\ n.entry = None /\ n.state = "Empty"
  BY <1>1 DEF invalidated, Node, States
<1>4. NodesAfter \in [Key -> Node] /\ RegionsAfter \in [Key -> Region \cup {None}]
  BY <1>1, <1>3, Zenon DEF NodesAfter, RegionsAfter
<1>5. ASSUME NEW k \in Key, k \in Dropped
      PROVE  /\ CellOK(k, NodesAfter[k], RegionsAfter[k], index, latest)
             /\ NodesAfter[k].state = "Empty" /\ RegionsAfter[k] = None
  <2>1. NodesAfter[k] = invalidated(node[k]) /\ RegionsAfter[k] = None
    BY <1>5, Zenon DEF NodesAfter, RegionsAfter
  <2> QED  BY <2>1, <1>3, Zenon DEF CellOK
<1>6. ASSUME NEW k \in Key, k \notin Dropped
      PROVE  /\ CellOK(k, NodesAfter[k], RegionsAfter[k], index, latest)
             /\ NodesAfter[k] = node[k] /\ RegionsAfter[k] = regions[k]
  <2>1. NodesAfter[k] = node[k] /\ RegionsAfter[k] = regions[k]
    BY <1>6, Zenon DEF NodesAfter, RegionsAfter
  <2>2. CASE regions[k] = None
    BY <2>1, <2>2, <1>2, Zenon DEF CellOK
  <2>3. CASE regions[k] # None
    <3> DEFINE r == regions[k]
    <3>1. r \in Region /\ r.vers \in Versions
      <4>1. r \in Region
        BY <1>1, <2>3, Zenon
      <4> HIDE DEF r
      <4> QED  BY <4>1 DEF Region
    <3>2. DOMAIN r.vers \subseteq Dep
      BY <3>1, VersionsType, Zenon
    <3>3. k \notin Touched
      BY <1>6, <2>3, Zenon DEF Dropped
    <3>4. ~Lost(cursor)
      BY <3>3, Zenon DEF Touched
    <3>5. /\ k \notin UNION {index[p] : p \in Since(cursor) \cap CodePage}
          /\ SpansOf(k) \cap Since(cursor) = {}
      <4> DEFINE byPage == UNION {index[p] : p \in Since(cursor) \cap CodePage}
                 bySpan == {q \in Key : SpansOf(q) \cap Since(cursor) # {}}
      <4>1. Touched = byPage \cup bySpan
        BY <3>4 DEF Touched
      <4> HIDE DEF byPage, bySpan
      <4>2. k \notin byPage /\ k \notin bySpan
        BY <3>3, <4>1, Zenon
      <4> USE DEF byPage, bySpan
      <4>3. ~(SpansOf(k) \cap Since(cursor) # {})
        BY <4>2, Zenon
      <4> QED  BY <4>2, <4>3, Zenon
    <3>6. DOMAIN r.vers \cap Span \subseteq SpansOf(k)
      BY <2>3, Zenon DEF SpansOf
    <3>7. ASSUME NEW d \in DOMAIN r.vers PROVE d \notin Since(cursor)
      <4>1. CASE d \in CodePage
        <5>1. k \in index[d]
          BY <1>2, <2>3, <4>1, Zenon DEF CellOK
        <5> QED  BY <5>1, <4>1, <3>5, Zenon
      <4>2. CASE d \in Span
        BY <4>2, <3>5, <3>6, Zenon
      <4> QED  BY <3>2, <4>1, <4>2, Zenon DEF Dep
    <3>8. DOMAIN r.vers \cap Since(cursor) = {}
      BY <3>7, Zenon
    <3>9. Fresh(r, cursor)
      BY <1>2, <2>3, Zenon DEF CellOK
    <3>10. Fresh(r, latest)
      BY <1>1, <3>1, <3>8, <3>9, FreshLater, Zenon
    <3> QED  BY <1>2, <2>1, <2>3, <3>10, Zenon DEF CellOK
  <2> QED  BY <2>1, <2>2, <2>3, Zenon
<1> QED  BY <1>4, <1>5, <1>6, Zenon

\* The region a reader compiled is fresh up to the end of the stream when no
\* record since its cursor touches what it read, and the index finds it.
LEMMA CompiledFresh ==
  ASSUME JitConfiguration, JitInv, NEW a \in JitActor, ReaderOK(a), a.pc = "compiled",
         NEW tier \in {"Lcq", "Hcq"}, ~affects(a.seen, DOMAIN a.read)
  PROVE  LET r == Compiled(a, tier)
         IN  /\ r \in Region /\ r # None /\ Fresh(r, latest)
             /\ IndexWith(a) \in [CodePage -> SUBSET Key]
             /\ \A p \in DOMAIN r.vers \cap CodePage : a.key \in IndexWith(a)[p]
             /\ \A p \in CodePage : index[p] \subseteq IndexWith(a)[p]
<1> DEFINE r == Compiled(a, tier)
<1>1. a.key \in Key /\ a.seen <= latest
  BY DEF ReaderOK
<1>2. a.seen \in Nat /\ a.read \in Versions
  BY DEF JitActor
<1>3. latest \in Nat
  BY JitTypes, Zenon
<1>4. r \in Region /\ r.vers = a.read
  BY <1>1, <1>2 DEF Compiled, Region
<1>5. r # None
  BY <1>4, Zenon DEF JitConfiguration
<1>6. Fresh(r, a.seen)
  <2>1. a.pc \in Reading
    BY DEF Reading
  <2> QED  BY <2>1, <1>4, Zenon DEF ReaderOK, Fresh
<1>7. DOMAIN r.vers \cap Since(a.seen) = {}
  BY <1>4, Zenon DEF affects
<1>8. Fresh(r, latest)
  BY <1>1, <1>2, <1>3, <1>4, <1>6, <1>7, FreshLater, Zenon
<1>9. index \in [CodePage -> SUBSET Key]
  BY Zenon DEF JitInv, TablesInv
<1>10. /\ IndexWith(a) \in [CodePage -> SUBSET Key]
       /\ \A p \in CodePage : index[p] \subseteq IndexWith(a)[p]
  BY <1>1, <1>9, Zenon DEF IndexWith
<1>11. \A p \in DOMAIN a.read \cap CodePage : a.key \in IndexWith(a)[p]
  BY <1>1, <1>9, Zenon DEF IndexWith
<1> QED  BY <1>4, <1>5, <1>8, <1>10, <1>11, Zenon

\* Entries of the index are only added: the other cells stay in order.
LEMMA CellIndexed ==
  ASSUME NEW k \in Key, NEW n, NEW r, NEW after, NEW ix, CellOK(k, n, r, index, after),
         \A p \in CodePage : index[p] \subseteq ix[p]
  PROVE  CellOK(k, n, r, ix, after)
BY Zenon DEF CellOK

-----------------------------------------------------------------------------
(* Steps that change guest code.                                           *)

\* Changes that are made and announced while no native code runs harm
\* nothing that was published or read before.
LEMMA ChangeStep ==
  ASSUME JitInv, \A v \in Vcpu : vcpu[v].pc \notin Native,
         mem' \in [Dep -> Nat], \A d \in Dep : mem[d] <= mem'[d],
         latest' \in Nat, latest <= latest',
         \A d : \A n \in 0 .. latest : ChangesOf(d, n)' = ChangesOf(d, n),
         UNCHANGED <<node, state, stopping, stack, vcpu, worker>>
  PROVE  TablesInv' /\ ActorsInv' /\ QueueInv'
<1>1. /\ mem \in [Dep -> Nat] /\ latest \in Nat
      /\ node \in [Key -> Node] /\ regions \in [Key -> Region \cup {None}]
      /\ index \in [CodePage -> SUBSET Key] /\ cursor \in 0 .. latest /\ bytes \in Nat
      /\ \A k \in Key : CellOK(k, node[k], regions[k], index, cursor)
      /\ vcpu \in [Vcpu -> JitActor] /\ worker \in [Worker -> JitActor]
      /\ \A v \in Vcpu : VcpuOK(v)
      /\ \A w \in Worker : WorkerOK(w)
      /\ StackInv /\ QueueInv
  BY JitTypes, Zenon DEF JitInv, TablesInv, ActorsInv
<1>2. UNCHANGED <<regions, index, cursor, bytes>>
  BY Zenon DEF state
<1>3. ASSUME NEW r \in Versions, NEW n \in 0 .. latest, NEW d \in DOMAIN r,
             ChangesOf(d, n) <= r[d] /\ r[d] <= mem[d]
      PROVE  ChangesOf(d, n)' <= r[d] /\ r[d] <= mem'[d]
  <2>1. d \in Dep /\ r[d] \in Nat
    BY VersionsType
  <2>2. r[d] <= mem'[d]
    BY <1>1, <1>3, <2>1
  <2>3. ChangesOf(d, n)' <= r[d]
    BY <1>3, Zenon
  <2> QED  BY <2>2, <2>3, Zenon
<1>4. TablesInv'
  <2>1. cursor' \in 0 .. latest'
    BY <1>1, <1>2
  <2>2. ASSUME NEW k \in Key PROVE CellOK(k, node[k], regions[k], index, cursor)'
    <3>1. CellOK(k, node[k], regions[k], index, cursor)
      BY <1>1, Zenon
    <3>2. ASSUME regions[k] # None, NEW d \in DOMAIN regions[k].vers
          PROVE  ChangesOf(d, cursor)' <= regions[k].vers[d] /\ regions[k].vers[d] <= mem'[d]
      <4>1. regions[k] \in Region
        BY <1>1, <3>2, Zenon
      <4>2. regions[k].vers \in Versions
        BY <4>1 DEF Region
      <4>3. ChangesOf(d, cursor) <= regions[k].vers[d] /\ regions[k].vers[d] <= mem[d]
        BY <3>1, <3>2, Zenon DEF CellOK, Fresh
      <4>4. PICK n \in 0 .. latest : n = cursor
        BY <1>1, Zenon
      <4>5. ChangesOf(d, n)' <= regions[k].vers[d] /\ regions[k].vers[d] <= mem'[d]
        BY <1>3, <4>2, <4>3, <4>4, Zenon
      <4> QED  BY <1>2, <4>4, <4>5, Zenon DEF ChangesOf
    <3> QED  BY <1>2, <3>1, <3>2, Zenon DEF CellOK, Fresh
  <2> QED  BY <1>1, <1>2, <2>1, <2>2, Zenon DEF TablesInv
<1>5. ASSUME NEW a \in JitActor, ReaderOK(a) PROVE ReaderOK(a)'
  <2>1. a.seen \in Nat /\ a.read \in Versions /\ a.seen <= latest
    BY <1>5 DEF JitActor, ReaderOK
  <2>2. a.seen <= latest' /\ a.seen \in 0 .. latest
    BY <1>1, <2>1
  <2>3. ASSUME a.pc \in Reading, NEW d \in DOMAIN a.read
        PROVE  ChangesOf(d, a.seen)' <= a.read[d] /\ a.read[d] <= mem'[d]
    BY <1>3, <1>5, <2>1, <2>2, <2>3, Zenon DEF ReaderOK
  <2> QED  BY <1>5, <2>2, <2>3, Zenon DEF ReaderOK
<1>6. ASSUME NEW v \in Vcpu PROVE VcpuOK(v)'
  <2>1. PICK a \in JitActor : a = vcpu[v]
    BY <1>1, Zenon
  <2>2. ReaderOK(a)
    BY <1>1, <2>1, Zenon DEF VcpuOK
  <2>3. ReaderOK(a)'
    BY <1>5, <2>2, Zenon
  <2>4. ReaderOK(vcpu[v])'
    BY <2>1, <2>3, Zenon DEF ReaderOK, ChangesOf
  <2> QED  BY <1>1, <1>2, <2>4, Zenon DEF VcpuOK, NativeOK
<1>7. ASSUME NEW w \in Worker PROVE WorkerOK(w)'
  <2>1. PICK a \in JitActor : a = worker[w]
    BY <1>1, Zenon
  <2>2. ReaderOK(a)
    BY <1>1, <2>1, Zenon DEF WorkerOK
  <2>3. ReaderOK(a)'
    BY <1>5, <2>2, Zenon
  <2>4. ReaderOK(worker[w])'
    BY <2>1, <2>3, Zenon DEF ReaderOK, ChangesOf
  <2> QED  BY <1>1, <2>4, Zenon DEF WorkerOK
<1>8. StackInv'
  <2>1. \A i \in DOMAIN stack : stack[i].seen <= latest'
    <3> SUFFICES ASSUME NEW i \in DOMAIN stack PROVE stack[i].seen <= latest'
      OBVIOUS
    <3>1. stack[i] \in Request /\ stack[i].seen <= latest
      BY <1>1 DEF StackInv
    <3> QED  BY <1>1, <3>1 DEF Request
  <2> QED  BY <1>1, <2>1, Zenon DEF StackInv
<1>9. QueueInv'
  BY <1>1, QueueKept, Zenon
<1> QED  BY <1>1, <1>4, <1>6, <1>7, <1>8, <1>9, Zenon DEF ActorsInv

\* A reservation is announced to nobody.
LEMMA ReservePageStep ==
  ASSUME JitConfiguration, JitInv, NEW p \in CodePage, ReservePage(p) PROVE JitInv'
<1>1. /\ hold = None /\ latest < MaxChanges /\ hold' = [page |-> p, done |-> FALSE]
      /\ UNCHANGED <<mem, history, node, state, stopping, stack, vcpu, worker>>
  BY Zenon DEF ReservePage
<1>2. hold' \in Reservation /\ hold'.done = FALSE
  BY <1>1 DEF Reservation
<1>3. MemoryInv'
  <2>1. \A d \in Dep : ~Unannounced(d) /\ ~Unannounced(d)'
    BY <1>1, <1>2, Zenon DEF Unannounced
  <2>2. MemoryTypes' /\ latest' = latest
    BY <1>1, <1>2, Zenon DEF JitInv, MemoryInv, MemoryTypes, latest
  <2>3. \A d \in Dep : mem'[d] = ChangesOf(d, latest)' + 0
    BY <1>1, <2>1, <2>2, Zenon DEF JitInv, MemoryInv, ChangesOf
  <2> QED  BY <1>1, <2>1, <2>2, <2>3, Zenon DEF JitInv, MemoryInv
<1>4. TablesInv'
  BY <1>1, TablesKept, Zenon DEF JitInv
<1>5. ActorsInv'
  <2>1. ASSUME NEW v \in Vcpu PROVE VcpuOK(v)'
    <3>1. VcpuOK(v)
      BY Zenon DEF JitInv, ActorsInv
    <3> QED  BY <1>1, <1>2, <3>1, Zenon
             DEF VcpuOK, ReaderOK, NativeOK, ChangesOf, latest, state
  <2>2. \A w \in Worker : WorkerOK(w)'
    BY <1>1, KeptWorker, Zenon
  <2>3. StackInv'
    BY <1>1, Zenon DEF JitInv, ActorsInv, StackInv, latest
  <2> QED  BY <1>1, <2>1, <2>2, <2>3, Zenon DEF JitInv, ActorsInv
<1>6. QueueInv'
  BY <1>1, QueueKept, Zenon DEF JitInv
<1> QED  BY <1>3, <1>4, <1>5, <1>6, Zenon DEF JitInv

\* Nobody is in native code while the gate is closed.
LEMMA NoNative ==
  ASSUME JitInv, leases = {} \/ (hold # None /\ hold.done), NEW v \in Vcpu
  PROVE  vcpu[v].pc \notin Native
<1>1. CASE leases = {}
  <2>1. v \notin leases
    BY <1>1, Zenon
  <2> QED  BY <2>1, Zenon DEF leases, Native
<1>2. CASE hold # None /\ hold.done
  BY <1>2, Zenon DEF JitInv, ActorsInv, VcpuOK, NativeOK
<1> QED  BY <1>1, <1>2, Zenon

\* The bytes of a page change while no vCPU has a lease.
LEMMA WritePageStep ==
  ASSUME JitConfiguration, JitInv, WritePage PROVE JitInv'
<1>1. /\ hold # None /\ ~hold.done /\ leases = {}
      /\ mem' = [mem EXCEPT ![hold.page] = @ + 1] /\ hold' = [hold EXCEPT !.done = TRUE]
      /\ UNCHANGED <<history, node, state, stopping, stack, vcpu, worker>>
  BY Zenon DEF WritePage
<1>2. mem \in [Dep -> Nat] /\ hold \in Reservation /\ latest \in Nat
  BY <1>1, JitTypes, Zenon
<1>3. /\ hold.page \in Dep /\ hold' \in Reservation /\ hold'.done = TRUE
      /\ hold'.page = hold.page
  BY <1>1, <1>2 DEF Reservation, Dep
<1>4. hold' # None
  BY <1>3, Zenon DEF JitConfiguration
<1>5. mem' \in [Dep -> Nat] /\ \A d \in Dep : mem[d] <= mem'[d]
  BY <1>1, <1>2, <1>3
<1>6. latest' = latest
  BY <1>1, Zenon DEF latest
<1>7. MemoryInv'
  <2>1. ASSUME NEW d \in Dep
        PROVE  mem'[d] = ChangesOf(d, latest)' + (IF Unannounced(d)' THEN 1 ELSE 0)
    <3>1. ~Unannounced(d) /\ (Unannounced(d)' <=> hold.page = d)
      BY <1>1, <1>3, <1>4, Zenon DEF Unannounced
    <3>2. mem[d] = ChangesOf(d, latest) + 0
      BY <3>1, Zenon DEF JitInv, MemoryInv
    <3>3. ChangesOf(d, latest)' = ChangesOf(d, latest)
      BY <1>1, <1>6, Zenon DEF ChangesOf
    <3>4. ChangesOf(d, latest) \in Nat
      BY <1>2, ChangesType
    <3> QED  BY <1>1, <1>2, <1>3, <3>1, <3>2, <3>3, <3>4
  <2>2. MemoryTypes'
    BY <1>1, <1>3, <1>5, Zenon DEF JitInv, MemoryInv, MemoryTypes
  <2> QED  BY <1>1, <1>6, <2>1, <2>2, Zenon DEF JitInv, MemoryInv
<1>8. \A d : \A n \in 0 .. latest : ChangesOf(d, n)' = ChangesOf(d, n)
  BY <1>1, Zenon DEF ChangesOf
<1>9. \A v \in Vcpu : vcpu[v].pc \notin Native
  BY <1>1, NoNative, Zenon
<1>10. latest' \in Nat /\ latest <= latest'
  BY <1>2, <1>6
<1>11. TablesInv' /\ ActorsInv' /\ QueueInv'
  BY <1>1, <1>5, <1>8, <1>9, <1>10, ChangeStep, Zenon
<1> QED  BY <1>7, <1>11, Zenon DEF JitInv

\* The record of a rewritten page is committed.
LEMMA CommitPageStep ==
  ASSUME JitConfiguration, JitInv, CommitPage PROVE JitInv'
<1>1. /\ hold # None /\ hold.done /\ history' = Append(history, hold.page) /\ hold' = None
      /\ UNCHANGED <<mem, node, state, stopping, stack, vcpu, worker>>
  BY Zenon DEF CommitPage
<1>2. /\ mem \in [Dep -> Nat] /\ hold \in Reservation /\ latest \in Nat
      /\ history \in Seq(Dep)
  BY <1>1, JitTypes, Zenon
<1>3. hold.page \in Dep
  BY <1>2 DEF Reservation, Dep
<1>4. \A d : /\ \A n \in 0 .. latest : ChangesOf(d, n)' = ChangesOf(d, n)
             /\ latest' = latest + 1
             /\ ChangesOf(d, latest)' = ChangesOf(d, latest) + (IF hold.page = d THEN 1 ELSE 0)
  BY <1>1, <1>2, <1>3, ChangesAppend, Zenon
<1>5. MemoryInv'
  <2>1. ASSUME NEW d \in Dep
        PROVE  mem'[d] = ChangesOf(d, latest)' + (IF Unannounced(d)' THEN 1 ELSE 0)
    <3>1. ~Unannounced(d)' /\ (Unannounced(d) <=> hold.page = d)
      BY <1>1, Zenon DEF Unannounced
    <3>2. mem[d] = ChangesOf(d, latest) + (IF hold.page = d THEN 1 ELSE 0)
      BY <3>1, Zenon DEF JitInv, MemoryInv
    <3>3. ChangesOf(d, latest) \in Nat
      BY <1>2, ChangesType
    <3>4. mem'[d] = ChangesOf(d, latest)' /\ ChangesOf(d, latest)' \in Nat
      BY <1>1, <1>2, <1>4, <3>2, <3>3
    <3> QED  BY <3>1, <3>4
  <2>2. MemoryTypes'
    BY <1>1, <1>2, <1>3 DEF MemoryTypes
  <2>3. latest < MaxChanges
    BY <1>1, Zenon DEF JitInv, MemoryInv
  <2>4. latest' <= MaxChanges
    BY <1>2, <1>4, <2>3 DEF JitConfiguration
  <2> QED  BY <1>1, <2>1, <2>2, <2>4, Zenon DEF MemoryInv
<1>6. \A v \in Vcpu : vcpu[v].pc \notin Native
  BY <1>1, NoNative, Zenon
<1>7. latest' \in Nat /\ latest <= latest'
  BY <1>2, <1>4
<1>8. mem' \in [Dep -> Nat] /\ \A d \in Dep : mem[d] <= mem'[d]
  BY <1>1, <1>2
<1>9. TablesInv' /\ ActorsInv' /\ QueueInv'
  BY <1>1, <1>4, <1>6, <1>7, <1>8, ChangeStep, Zenon
<1> QED  BY <1>5, <1>9, Zenon DEF JitInv

\* A mapping changes and its record is committed under the closed gate.
LEMMA RemapStep ==
  ASSUME JitConfiguration, JitInv, NEW s \in Span, Remap(s) PROVE JitInv'
<1>1. /\ leases = {} /\ hold = None /\ latest < MaxChanges
      /\ mem' = [mem EXCEPT ![s] = @ + 1] /\ history' = Append(history, s)
      /\ UNCHANGED <<hold, node, state, stopping, stack, vcpu, worker>>
  BY Zenon DEF Remap
<1>2. /\ mem \in [Dep -> Nat] /\ latest \in Nat /\ history \in Seq(Dep) /\ s \in Dep
  BY JitTypes, Zenon DEF Dep
<1>3. \A d : /\ \A n \in 0 .. latest : ChangesOf(d, n)' = ChangesOf(d, n)
             /\ latest' = latest + 1
             /\ ChangesOf(d, latest)' = ChangesOf(d, latest) + (IF s = d THEN 1 ELSE 0)
  BY <1>1, <1>2, ChangesAppend, Zenon
<1>4. mem' \in [Dep -> Nat] /\ \A d \in Dep : mem[d] <= mem'[d]
  BY <1>1, <1>2
<1>5. MemoryInv'
  <2>1. ASSUME NEW d \in Dep
        PROVE  mem'[d] = ChangesOf(d, latest)' + (IF Unannounced(d)' THEN 1 ELSE 0)
    <3>1. ~Unannounced(d)' /\ ~Unannounced(d)
      BY <1>1, Zenon DEF Unannounced
    <3>2. mem[d] = ChangesOf(d, latest) + 0
      BY <3>1, Zenon DEF JitInv, MemoryInv
    <3>3. ChangesOf(d, latest) \in Nat
      BY <1>2, ChangesType
    <3>4. mem'[d] = ChangesOf(d, latest)' /\ ChangesOf(d, latest)' \in Nat
      BY <1>1, <1>2, <1>3, <3>2, <3>3
    <3> QED  BY <3>1, <3>4
  <2>2. MemoryTypes'
    BY <1>1, <1>2, <1>4 DEF MemoryTypes, JitInv, MemoryInv
  <2>3. latest' <= MaxChanges
    BY <1>1, <1>2, <1>3 DEF JitConfiguration
  <2> QED  BY <1>1, <2>1, <2>2, <2>3, Zenon DEF MemoryInv
<1>6. \A v \in Vcpu : vcpu[v].pc \notin Native
  BY <1>1, NoNative, Zenon
<1>7. latest' \in Nat /\ latest <= latest'
  BY <1>2, <1>3
<1>8. TablesInv' /\ ActorsInv' /\ QueueInv'
  BY <1>1, <1>3, <1>4, <1>6, <1>7, ChangeStep, Zenon
<1> QED  BY <1>5, <1>8, Zenon DEF JitInv

-----------------------------------------------------------------------------
(* Steps of a vCPU that leave the tables alone.                            *)

\* Nodes leave the queue, and requests stay where they are.
LEMMA QueueStep ==
  ASSUME QueueInv, ~stopping' => ~stopping,
         \A k \in Key : node'[k].state = "HcqQueued" =>
           node[k].state = "HcqQueued" /\ node'[k].gen = node[k].gen,
         UNCHANGED <<stack, worker>>,
         \A v \in Vcpu : vcpu[v].pc = "pushing" => vcpu'[v] = vcpu[v]
  PROVE  QueueInv'
<1>1. ASSUME NEW k \in Key, node'[k].gen = node[k].gen
      PROVE  /\ Requested(k) => Requested(k)'
             /\ Compiling(k) => Compiling(k)'
             /\ Pushing(k) => Pushing(k)'
  BY <1>1, Zenon DEF Requested, Compiling, Pushing
<1> QED  BY <1>1, Zenon DEF QueueInv

\* A vCPU that is not queueing a node moves, and nothing else changes.
LEMMA LocalStep ==
  ASSUME JitInv, UNCHANGED <<mem, history, hold, node, state, stopping, stack, worker>>,
         NEW v \in Vcpu, NEW b \in JitActor, vcpu' = [vcpu EXCEPT ![v] = b],
         vcpu[v].pc # "pushing", VcpuOK(v)'
  PROVE  JitInv'
<1>1. MemoryInv'
  BY MemoryKept, Zenon DEF JitInv
<1>2. TablesInv'
  BY TablesKept, Zenon DEF JitInv
<1>3. UNCHANGED <<regions, cursor>>
  BY Zenon DEF state
<1>4. ActorsInv'
  BY <1>3, OneVcpu, Zenon
<1>5. vcpu \in [Vcpu -> JitActor]
  BY JitTypes, Zenon
<1>6. \A u \in Vcpu : vcpu[u].pc = "pushing" => vcpu'[u] = vcpu[u]
  BY <1>5, Zenon
<1>7. QueueInv'
  BY <1>6, QueueStep, Zenon DEF JitInv
<1> QED  BY <1>1, <1>2, <1>4, <1>7, Zenon DEF JitInv

\* What is known of a vCPU before its step.
LEMMA VcpuBefore ==
  ASSUME JitInv, NEW v \in Vcpu
  PROVE  /\ vcpu[v] \in JitActor /\ VcpuOK(v) /\ vcpu[v].seen <= latest
         /\ vcpu[v].pc \notin {"idle", "gone"} => vcpu[v].key \in Key
         /\ vcpu[v].seen \in Nat /\ vcpu[v].gen \in Nat /\ vcpu[v].read \in Versions
         /\ latest \in Nat /\ vcpu \in [Vcpu -> JitActor]
<1>1. vcpu \in [Vcpu -> JitActor] /\ VcpuOK(v) /\ latest \in Nat
  BY JitTypes, Zenon DEF JitInv, ActorsInv
<1>2. vcpu[v] \in JitActor
  BY <1>1, Zenon
<1>3. vcpu[v].seen \in Nat /\ vcpu[v].gen \in Nat /\ vcpu[v].read \in Versions
  BY <1>2 DEF JitActor
<1> QED  BY <1>1, <1>2, <1>3, Zenon DEF VcpuOK, ReaderOK

\* A vCPU goes to a place where nothing is asked of it.
LEMMA ToPlain ==
  ASSUME JitInv, NEW v \in Vcpu, NEW pc \in Plain, vcpu[v].pc \notin {"idle", "gone"},
         To(v, pc), history' = history
  PROVE  /\ [vcpu[v] EXCEPT !.pc = pc] \in JitActor
         /\ vcpu' = [vcpu EXCEPT ![v] = [vcpu[v] EXCEPT !.pc = pc]]
         /\ VcpuOK(v)'
<1> DEFINE b == [vcpu[v] EXCEPT !.pc = pc]
<1>1. pc \in Places
  BY Zenon DEF Places
<1>2. /\ vcpu[v] \in JitActor /\ vcpu \in [Vcpu -> JitActor] /\ vcpu[v].seen <= latest
      /\ vcpu[v].key \in Key
  BY VcpuBefore, Zenon
<1>3. b \in JitActor /\ b.pc = pc /\ b.seen = vcpu[v].seen /\ b.key = vcpu[v].key
  BY <1>1, <1>2, MovedType, Zenon
<1>4. vcpu' = [vcpu EXCEPT ![v] = b]
  BY <1>2, Zenon DEF To
<1>5. vcpu'[v] = b
  BY <1>2, <1>4, Zenon
<1>6. latest' = latest
  BY Zenon DEF latest
<1>7. VcpuOK(v)'
  BY <1>2, <1>3, <1>5, <1>6, PlainVcpu, Zenon
<1> QED  BY <1>3, <1>4, <1>7, Zenon

\* A vCPU gives up or is done.
LEMMA Stopped ==
  ASSUME JitInv, NEW v \in Vcpu, Stop(v), history' = history
  PROVE  /\ At("idle") \in JitActor /\ vcpu' = [vcpu EXCEPT ![v] = At("idle")]
         /\ VcpuOK(v)'
<1>1. "idle" \in Places /\ "idle" \in Plain
  BY Zenon DEF Places, Plain
<1>2. At("idle") \in JitActor /\ At("idle").pc = "idle" /\ At("idle").seen = 0
  BY <1>1, AtType, Zenon
<1>3. vcpu \in [Vcpu -> JitActor] /\ latest \in Nat
  BY VcpuBefore, Zenon
<1>4. vcpu' = [vcpu EXCEPT ![v] = At("idle")] /\ vcpu'[v] = At("idle")
  BY <1>3, Zenon DEF Stop
<1>5. At("idle").seen <= latest'
  BY <1>2, <1>3 DEF latest
<1>6. VcpuOK(v)'
  BY <1>1, <1>2, <1>4, <1>5, PlainVcpu, Zenon
<1> QED  BY <1>2, <1>4, <1>6, Zenon

\* A vCPU is sent to a key.
LEMMA SentTo ==
  ASSUME JitInv, NEW v \in Vcpu, NEW k \in Key, history' = history,
         vcpu' = [vcpu EXCEPT ![v] = [At("dispatch") EXCEPT !.key = k]]
  PROVE  [At("dispatch") EXCEPT !.key = k] \in JitActor /\ VcpuOK(v)'
<1> DEFINE b == [At("dispatch") EXCEPT !.key = k]
<1>1. "dispatch" \in Places /\ "dispatch" \in Plain
  BY Zenon DEF Places, Plain
<1>2. b \in JitActor /\ b.pc = "dispatch" /\ b.key = k /\ b.seen = 0
  BY <1>1, NothingRead DEF At, JitActor
<1>3. vcpu \in [Vcpu -> JitActor] /\ latest \in Nat
  BY VcpuBefore, Zenon
<1>4. vcpu'[v] = b
  BY <1>3, Zenon
<1>5. b.seen <= latest'
  BY <1>2, <1>3 DEF latest
<1>6. VcpuOK(v)'
  BY <1>1, <1>2, <1>4, <1>5, PlainVcpu, Zenon
<1> QED  BY <1>2, <1>6, Zenon

\* A fresh region is current once everything rewritten has been announced.
LEMMA CurrentRegion ==
  ASSUME JitInv, NEW r \in Region, Fresh(r, latest), hold # None => ~hold.done
  PROVE  \A d \in DOMAIN r.vers : r.vers[d] = mem[d]
<1> SUFFICES ASSUME NEW d \in DOMAIN r.vers PROVE r.vers[d] = mem[d]
  OBVIOUS
<1>1. r.vers \in Versions
  BY DEF Region
<1>2. d \in Dep /\ r.vers[d] \in Nat
  BY <1>1, VersionsType
<1>3. ~Unannounced(d)
  BY Zenon DEF Unannounced
<1>4. mem[d] = ChangesOf(d, latest) + 0
  BY <1>2, <1>3, Zenon DEF JitInv, MemoryInv
<1>5. ChangesOf(d, latest) <= r.vers[d] /\ r.vers[d] <= mem[d]
  BY Zenon DEF Fresh
<1>6. latest \in Nat
  BY JitTypes, Zenon
<1>7. ChangesOf(d, latest) \in Nat
  BY <1>6, ChangesType
<1> QED  BY <1>2, <1>4, <1>5, <1>7

\* A vCPU that enters a fresh region with nothing unannounced is in order.
LEMMA EnteringVcpu ==
  ASSUME JitInv, UNCHANGED <<mem, history, hold>>, cursor' = latest,
         hold # None => ~hold.done, NEW v \in Vcpu, NEW b \in JitActor, vcpu'[v] = b,
         b.pc = "entering", b.key \in Key, b.seen <= latest,
         b.region \in Region, Fresh(b.region, latest)
  PROVE  VcpuOK(v)'
<1>1. latest' = latest
  BY Zenon DEF latest
<1>2. b.pc \notin Reading /\ b.pc \notin Sleeping
  BY Zenon DEF Reading, Sleeping
<1>3. \A d \in DOMAIN b.region.vers : b.region.vers[d] = mem[d]
  BY CurrentRegion, Zenon
<1>4. ReaderOK(vcpu[v])'
  BY <1>1, <1>2, Zenon DEF ReaderOK
<1>5. NativeOK(vcpu[v])'
  BY <1>1, <1>3, Zenon DEF NativeOK
<1> QED  BY <1>2, <1>4, <1>5, Zenon DEF VcpuOK

\* A reader that reads one more piece has read what memory holds, which is no
\* less than what the stream had when it started.
LEMMA ReadMore ==
  ASSUME JitInv, NEW a \in JitActor, ReaderOK(a), a.pc = "discover", NEW d \in Dep,
         NEW deps, UNCHANGED <<mem, history>>, NEW b, b = AfterRead(a, d, deps)
  PROVE  /\ b \in JitActor /\ b.pc \in Reading /\ b.key = a.key /\ b.gen = a.gen
         /\ ReaderOK(b) /\ ReaderOK(b)'
<1> DEFINE read == [x \in DOMAIN a.read \cup {d} |-> IF x = d THEN mem[d] ELSE a.read[x]]
           pc == IF DOMAIN read = deps THEN "compiled" ELSE a.pc
<1>1. mem \in [Dep -> Nat] /\ latest \in Nat
  BY JitTypes, Zenon
<1>2. a.read \in Versions /\ a.seen \in Nat /\ a.key \in Key /\ a.seen <= latest
  BY DEF JitActor, ReaderOK
<1>3. DOMAIN a.read \subseteq Dep /\ a.read \in [DOMAIN a.read -> Nat]
  BY <1>2, VersionsType, Zenon
<1>4. read \in Versions
  <2>1. DOMAIN a.read \cup {d} \in SUBSET Dep
    BY <1>3, Zenon
  <2>2. read \in [DOMAIN a.read \cup {d} -> Nat]
    BY <1>1, <1>3
  <2> HIDE DEF read
  <2> QED  BY <2>1, <2>2, Zenon DEF Versions
<1>5. ASSUME NEW x \in DOMAIN read
      PROVE  ChangesOf(x, a.seen) <= read[x] /\ read[x] <= mem[x]
  <2>1. CASE x = d
    <3>1. read[x] = mem[d]
      BY <2>1, Zenon
    <3>2. mem[d] = ChangesOf(d, latest) + (IF Unannounced(d) THEN 1 ELSE 0)
      BY Zenon DEF JitInv, MemoryInv
    <3>3. ChangesOf(d, a.seen) <= ChangesOf(d, latest)
      BY <1>1, <1>2, ChangesMonotone
    <3>4. ChangesOf(d, a.seen) \in Nat /\ ChangesOf(d, latest) \in Nat
      BY <1>1, <1>2, ChangesType
    <3>5. mem[d] \in Nat /\ ChangesOf(d, a.seen) <= mem[d]
      BY <1>1, <3>2, <3>3, <3>4
    <3>6. mem[d] <= mem[d]
      BY <3>5
    <3> QED  BY <2>1, <3>1, <3>5, <3>6, Zenon
  <2>2. CASE x # d
    <3>1. x \in DOMAIN a.read /\ read[x] = a.read[x]
      BY <2>2, Zenon
    <3>2. a.pc \in Reading
      BY Zenon DEF Reading
    <3> QED  BY <3>1, <3>2, Zenon DEF ReaderOK
  <2> QED  BY <2>1, <2>2, Zenon
<1>6. pc \in Reading /\ pc \in Places
  BY DEF Reading, Places
<1>7. b = [a EXCEPT !.read = read, !.pc = pc]
  BY DEF AfterRead, JitActor
<1> HIDE DEF read, pc
<1>8. /\ b \in JitActor /\ b.pc = pc /\ b.key = a.key /\ b.gen = a.gen
      /\ b.seen = a.seen /\ b.read = read
  BY <1>4, <1>6, <1>7 DEF JitActor
<1>9. ReaderOK(b)
  BY <1>2, <1>5, <1>8, Zenon DEF ReaderOK
<1>10. ReaderOK(b)'
  BY <1>9, Zenon DEF ReaderOK, ChangesOf, latest
<1> QED  BY <1>6, <1>8, <1>9, <1>10, Zenon

\* A dispatch begins.
LEMMA BeginStep ==
  ASSUME JitInv, NEW v \in Vcpu, Begin(v) PROVE JitInv'
<1>1. PICK k \in Key : vcpu' = [vcpu EXCEPT ![v] = [At("dispatch") EXCEPT !.key = k]]
  BY Zenon DEF Begin
<1>2. /\ vcpu[v].pc = "idle"
      /\ UNCHANGED <<mem, history, hold, node, state, stopping, stack, worker>>
  BY Zenon DEF Begin
<1>3. [At("dispatch") EXCEPT !.key = k] \in JitActor /\ VcpuOK(v)'
  BY <1>1, <1>2, SentTo, Zenon
<1> QED  BY <1>1, <1>2, <1>3, LocalStep, Zenon

\* The lease is taken.
LEMMA LeaseStep ==
  ASSUME JitInv, NEW v \in Vcpu, Lease(v) PROVE JitInv'
<1>1. /\ vcpu[v].pc = "ready" /\ To(v, "leased")
      /\ UNCHANGED <<mem, history, hold, node, state, stopping, stack, worker>>
  BY Zenon DEF Lease
<1>2. "leased" \in Plain
  BY Zenon DEF Plain
<1> QED  BY <1>1, <1>2, ToPlain, LocalStep, Zenon

\* The slice ends.
LEMMA LeaveStep ==
  ASSUME JitInv, NEW v \in Vcpu, Leave(v) PROVE JitInv'
<1>1. /\ vcpu[v].pc = "running" /\ Stop(v)
      /\ UNCHANGED <<mem, history, hold, node, state, stopping, stack, worker>>
  BY Zenon DEF Leave
<1> QED  BY <1>1, Stopped, LocalStep, Zenon

\* The wait for a compilation begins: what it waits for is not published.
LEMMA SleepStep ==
  ASSUME JitInv, NEW v \in Vcpu, Sleep(v) PROVE JitInv'
<1> DEFINE b == [vcpu[v] EXCEPT !.pc = "asleep"]
<1>1. /\ vcpu[v].pc = "drowsy" /\ To(v, "asleep")
      /\ UNCHANGED <<mem, history, hold, node, state, stopping, stack, worker>>
  BY Zenon DEF Sleep
<1>2. /\ vcpu[v] \in JitActor /\ VcpuOK(v) /\ vcpu \in [Vcpu -> JitActor]
      /\ vcpu[v].key \in Key /\ vcpu[v].seen <= latest
  BY <1>1, VcpuBefore, Zenon
<1>3. "asleep" \in Places /\ "asleep" \notin Reading \cup Native
  BY Zenon DEF Places, Sleeping, Reading, Native
<1>4. b \in JitActor /\ b.pc = "asleep" /\ b.key = vcpu[v].key /\ b.seen = vcpu[v].seen
  BY <1>2, <1>3, MovedType, Zenon
<1>5. vcpu' = [vcpu EXCEPT ![v] = b] /\ vcpu'[v] = b
  BY <1>1, <1>2, Zenon DEF To
<1>6. regions[vcpu[v].key] = None
  BY <1>1, <1>2, Zenon DEF VcpuOK, Sleeping
<1> HIDE DEF b
<1>7. VcpuOK(v)'
  BY <1>1, <1>2, <1>3, <1>4, <1>5, <1>6, Zenon
     DEF VcpuOK, ReaderOK, NativeOK, latest, state
<1> QED  BY <1>1, <1>4, <1>5, <1>7, LocalStep, Zenon

\* The guard at a region's entry.
LEMMA GuardStep ==
  ASSUME JitInv, NEW v \in Vcpu, Guard(v) PROVE JitInv'
<1>1. /\ vcpu[v].pc = "entering" /\ (To(v, "reconcile") \/ To(v, "running"))
      /\ UNCHANGED <<mem, history, hold, node, state, stopping, stack, worker>>
  BY Zenon DEF Guard
<1>2. CASE To(v, "reconcile")
  <2>1. "reconcile" \in Plain
    BY Zenon DEF Plain
  <2> QED  BY <1>1, <1>2, <2>1, ToPlain, LocalStep, Zenon
<1>3. CASE To(v, "running")
  <2> DEFINE b == [vcpu[v] EXCEPT !.pc = "running"]
  <2>1. /\ vcpu[v] \in JitActor /\ VcpuOK(v) /\ vcpu \in [Vcpu -> JitActor]
        /\ vcpu[v].key \in Key /\ vcpu[v].seen <= latest
    BY <1>1, VcpuBefore, Zenon
  <2>2. "running" \in Places /\ "running" \notin Reading \cup Sleeping /\ "entering" \in Native
    BY Zenon DEF Places, Sleeping, Reading, Native
  <2>3. /\ b \in JitActor /\ b.pc = "running" /\ b.key = vcpu[v].key
        /\ b.seen = vcpu[v].seen /\ b.region = vcpu[v].region
    BY <2>1, <2>2, MovedType, Zenon
  <2>4. vcpu' = [vcpu EXCEPT ![v] = b] /\ vcpu'[v] = b
    BY <1>3, <2>1, Zenon DEF To
  <2> HIDE DEF b
  <2>5. ReaderOK(vcpu[v])'
    BY <1>1, <2>1, <2>2, <2>3, <2>4, Zenon DEF ReaderOK, latest
  <2>6. NativeOK(vcpu[v])'
    BY <1>1, <2>1, <2>2, <2>3, <2>4, Zenon DEF VcpuOK, NativeOK, latest, state
  <2>7. VcpuOK(v)'
    BY <2>2, <2>3, <2>4, <2>5, <2>6, Zenon DEF VcpuOK
  <2> QED  BY <1>1, <2>3, <2>4, <2>7, LocalStep, Zenon
<1> QED  BY <1>1, <1>2, <1>3, Zenon

\* Native code jumps through a cell: whatever region it finds there is
\* current, since its process has consumed everything that was announced.
LEMMA ChainStep ==
  ASSUME JitInv, NEW v \in Vcpu, Chain(v) PROVE JitInv'
<1>1. PICK k \in Key :
        vcpu' = [vcpu EXCEPT ![v] =
                  IF node[k].entry = None THEN [At("dispatch") EXCEPT !.key = k]
                  ELSE [@ EXCEPT !.pc = "entering", !.key = k, !.region = node[k].entry]]
  BY Zenon DEF Chain
<1>2. /\ vcpu[v].pc = "running"
      /\ UNCHANGED <<mem, history, hold, node, state, stopping, stack, worker>>
  BY Zenon DEF Chain
<1>3. CASE node[k].entry = None
  <2>1. vcpu' = [vcpu EXCEPT ![v] = [At("dispatch") EXCEPT !.key = k]]
    BY <1>1, <1>3, Zenon
  <2>2. [At("dispatch") EXCEPT !.key = k] \in JitActor /\ VcpuOK(v)'
    BY <1>2, <2>1, SentTo, Zenon
  <2> QED  BY <1>2, <2>1, <2>2, LocalStep, Zenon
<1>4. CASE node[k].entry # None
  <2> DEFINE r == node[k].entry
             b == [vcpu[v] EXCEPT !.pc = "entering", !.key = k, !.region = r]
  <2>1. /\ vcpu[v] \in JitActor /\ VcpuOK(v) /\ vcpu \in [Vcpu -> JitActor]
        /\ vcpu[v].seen <= latest
    BY VcpuBefore, Zenon
  <2>2. CellOK(k, node[k], regions[k], index, cursor) /\ regions[k] \in Region \cup {None}
    BY Zenon DEF JitInv, TablesInv
  <2>3. r \in Region /\ Fresh(r, cursor)
    BY <1>4, <2>2, Zenon DEF CellOK
  <2>4. cursor = latest /\ (hold # None => ~hold.done)
    <3>1. "running" \in Native
      BY Zenon DEF Native
    <3> QED  BY <1>2, <2>1, <3>1, Zenon DEF VcpuOK, NativeOK
  <2>5. "entering" \in Places
    BY Zenon DEF Places, Native
  <2>6. vcpu' = [vcpu EXCEPT ![v] = b] /\ vcpu'[v] = b
    BY <1>1, <1>4, <2>1, Zenon
  <2> HIDE DEF r
  <2>7. /\ b \in JitActor /\ b.pc = "entering" /\ b.key = k /\ b.region = r
        /\ b.seen = vcpu[v].seen
    BY <2>1, <2>3, <2>5 DEF JitActor
  <2> HIDE DEF b
  <2>8. cursor' = latest
    BY <1>2, <2>4, Zenon DEF state
  <2>9. VcpuOK(v)'
    BY <1>2, <2>1, <2>3, <2>4, <2>6, <2>7, <2>8, EnteringVcpu, Zenon
  <2> QED  BY <1>2, <2>6, <2>7, <2>9, LocalStep, Zenon
<1> QED  BY <1>3, <1>4, Zenon

\* One more piece of the code is read, or the code cannot be read.
LEMMA DiscoverStep ==
  ASSUME JitConfiguration, JitInv, NEW v \in Vcpu, Discover(v) PROVE JitInv'
<1>1. /\ vcpu[v].pc = "discover"
      /\ UNCHANGED <<mem, history, hold, node, state, stopping, stack, worker>>
      /\ \/ \E d \in LcqDeps[vcpu[v].key] \ DOMAIN vcpu[v].read :
              vcpu' = [vcpu EXCEPT ![v] = AfterRead(vcpu[v], d, LcqDeps[vcpu[v].key])]
         \/ To(v, "aborting")
  BY Zenon DEF Discover
<1>2. CASE To(v, "aborting")
  <2>1. "aborting" \in Plain
    BY Zenon DEF Plain
  <2> QED  BY <1>1, <1>2, <2>1, ToPlain, LocalStep, Zenon
<1>3. CASE \E d \in LcqDeps[vcpu[v].key] \ DOMAIN vcpu[v].read :
             vcpu' = [vcpu EXCEPT ![v] = AfterRead(vcpu[v], d, LcqDeps[vcpu[v].key])]
  <2>1. /\ vcpu[v] \in JitActor /\ VcpuOK(v) /\ vcpu \in [Vcpu -> JitActor]
        /\ vcpu[v].key \in Key
    BY <1>1, VcpuBefore, Zenon
  <2>2. PICK d \in LcqDeps[vcpu[v].key] \ DOMAIN vcpu[v].read :
          vcpu' = [vcpu EXCEPT ![v] = AfterRead(vcpu[v], d, LcqDeps[vcpu[v].key])]
    BY <1>3, Zenon
  <2>3. d \in Dep
    BY <2>1, Zenon DEF JitConfiguration
  <2>4. PICK a \in JitActor : a = vcpu[v]
    BY <2>1, Zenon
  <2>5. PICK deps : deps = LcqDeps[a.key]
    OBVIOUS
  <2>6. PICK b : b = AfterRead(a, d, deps)
    OBVIOUS
  <2>7. ReaderOK(a) /\ a.pc = "discover"
    BY <1>1, <2>1, <2>4, Zenon DEF VcpuOK
  <2>8. b \in JitActor /\ b.pc \in Reading /\ ReaderOK(b)'
    BY <1>1, <2>3, <2>6, <2>7, ReadMore, Zenon
  <2>9. vcpu' = [vcpu EXCEPT ![v] = b] /\ vcpu'[v] = b
    BY <2>1, <2>2, <2>4, <2>5, <2>6, Zenon
  <2>10. ReaderOK(vcpu[v])'
    BY <2>8, <2>9, Zenon DEF ReaderOK, ChangesOf
  <2>11. b.pc \notin Native /\ b.pc \notin Sleeping
    BY <2>8 DEF Reading, Native, Sleeping
  <2>12. VcpuOK(v)'
    BY <2>9, <2>10, <2>11, Zenon DEF VcpuOK, NativeOK
  <2> QED  BY <1>1, <2>8, <2>9, <2>12, LocalStep, Zenon
<1> QED  BY <1>1, <1>2, <1>3, Zenon

-----------------------------------------------------------------------------
(* Steps of a vCPU that change the tables.                                 *)

\* A vCPU that is not queueing a node moves, and nothing is published.
LEMMA VcpuStep ==
  ASSUME JitInv, UNCHANGED <<mem, history, hold, stopping, stack, worker>>, TablesInv',
         cursor' \in {cursor, latest},
         \A k \in Key : regions[k] = None => regions'[k] = None,
         \A k \in Key : node'[k].state = "HcqQueued" =>
           node[k].state = "HcqQueued" /\ node'[k].gen = node[k].gen,
         NEW v \in Vcpu, NEW b \in JitActor, vcpu' = [vcpu EXCEPT ![v] = b],
         vcpu[v].pc # "pushing", VcpuOK(v)'
  PROVE  JitInv'
<1>1. MemoryInv'
  BY MemoryKept, Zenon DEF JitInv
<1>2. ActorsInv'
  BY OneVcpu, Zenon
<1>3. vcpu \in [Vcpu -> JitActor]
  BY JitTypes, Zenon
<1>4. \A u \in Vcpu : vcpu[u].pc = "pushing" => vcpu'[u] = vcpu[u]
  BY <1>3, Zenon
<1>5. QueueInv'
  BY <1>4, QueueStep, Zenon DEF JitInv
<1> QED  BY <1>1, <1>2, <1>5, Zenon DEF JitInv

\* What reconciling leaves of the regions and of the queue.
LEMMA ReconciledShrinks ==
  ASSUME JitInv
  PROVE  /\ \A k \in Key : regions[k] = None => RegionsAfter[k] = None
         /\ \A k \in Key : NodesAfter[k].state = "HcqQueued" => NodesAfter[k] = node[k]
<1>1. \A k \in Key : \/ NodesAfter[k] = node[k] /\ RegionsAfter[k] = regions[k]
                     \/ NodesAfter[k].state = "Empty" /\ RegionsAfter[k] = None
  BY Reconciled, Zenon
<1>2. "Empty" # "HcqQueued"
  OBVIOUS
<1> QED  BY <1>1, <1>2, Zenon

\* The tables after reconciling.
LEMMA ReconciledTables ==
  ASSUME JitInv, node' = NodesAfter, regions' = RegionsAfter, cursor' = latest,
         UNCHANGED <<mem, history, index>>, bytes' \in Nat
  PROVE  TablesInv'
<1>1. latest \in 0 .. latest
  <2>1. latest \in Nat
    BY JitTypes, Zenon
  <2> QED  BY <2>1
<1>2. index \in [CodePage -> SUBSET Key]
  BY Zenon DEF JitInv, TablesInv
<1> QED  BY <1>1, <1>2, Reconciled, TablesStep, Zenon

\* The cell of a key whose node changes between states of the same kind.
LEMMA CellRestated ==
  ASSUME NEW k, NEW n, NEW m, NEW r, NEW ix, NEW after, CellOK(k, n, r, ix, after),
         m.entry = n.entry,
         (m.state \in {"Empty", "CompilingLcq"}) = (n.state \in {"Empty", "CompilingLcq"})
  PROVE  CellOK(k, m, r, ix, after)
BY Zenon DEF CellOK

\* One turn of entry_for.
LEMMA DispatchStep ==
  ASSUME JitInv, NEW v \in Vcpu, Dispatch(v) PROVE JitInv'
<1> DEFINE k == vcpu[v].key
           n == NodesAfter[k]
<1>1. /\ vcpu[v].pc = "dispatch" /\ cursor' = latest /\ regions' = RegionsAfter
      /\ UNCHANGED <<mem, history, hold, index, bytes, stopping, stack, worker>>
  BY Zenon DEF Dispatch
<1>2. /\ vcpu[v] \in JitActor /\ vcpu \in [Vcpu -> JitActor] /\ latest \in Nat
      /\ vcpu[v].key \in Key /\ vcpu[v].seen <= latest
  BY <1>1, VcpuBefore, Zenon
<1>3. /\ NodesAfter \in [Key -> Node] /\ RegionsAfter \in [Key -> Region \cup {None}]
      /\ \A q \in Key : CellOK(q, NodesAfter[q], RegionsAfter[q], index, latest)
  BY Reconciled, Zenon
<1>4. /\ \A q \in Key : regions[q] = None => RegionsAfter[q] = None
      /\ \A q \in Key : NodesAfter[q].state = "HcqQueued" => NodesAfter[q] = node[q]
  BY ReconciledShrinks, Zenon
<1>5. bytes' \in Nat /\ index' \in [CodePage -> SUBSET Key]
  BY <1>1, Zenon DEF JitInv, TablesInv
<1>6. \/ Stop(v) /\ node' = NodesAfter
      \/ To(v, "ready") /\ node' = NodesAfter
      \/ /\ n.entry = None /\ n.state = "Empty"
         /\ node' = [NodesAfter EXCEPT ![k].state = "CompilingLcq"]
         /\ vcpu' = [vcpu EXCEPT ![v] = [@ EXCEPT !.pc = "discover", !.gen = n.gen,
                                                  !.seen = latest, !.read = <<>>]]
      \/ n.entry = None /\ To(v, "drowsy") /\ node' = NodesAfter
      \/ To(v, "broken") /\ node' = NodesAfter
  BY Zenon DEF Dispatch
<1>7. ASSUME node' = NodesAfter, NEW b \in JitActor, vcpu' = [vcpu EXCEPT ![v] = b], VcpuOK(v)'
      PROVE  JitInv'
  <2>1. TablesInv'
    BY <1>1, <1>5, <1>7, ReconciledTables, Zenon
  <2> QED  BY <1>1, <1>4, <1>7, <2>1, VcpuStep, Zenon
<1>8. "ready" \in Plain /\ "broken" \in Plain
  BY Zenon DEF Plain
<1>9. CASE Stop(v) /\ node' = NodesAfter
  BY <1>1, <1>7, <1>9, Stopped, Zenon
<1>10. CASE To(v, "ready") /\ node' = NodesAfter
  BY <1>1, <1>7, <1>8, <1>10, ToPlain, Zenon
<1>11. CASE To(v, "broken") /\ node' = NodesAfter
  BY <1>1, <1>7, <1>8, <1>11, ToPlain, Zenon
<1>12. CASE n.entry = None /\ To(v, "drowsy") /\ node' = NodesAfter
  <2> DEFINE b == [vcpu[v] EXCEPT !.pc = "drowsy"]
  <2>1. "drowsy" \in Places /\ "drowsy" \notin Reading \cup Native
    BY Zenon DEF Places, Sleeping, Reading, Native
  <2>2. b \in JitActor /\ b.pc = "drowsy" /\ b.key = vcpu[v].key /\ b.seen = vcpu[v].seen
    BY <1>2, <2>1, MovedType, Zenon
  <2>3. vcpu' = [vcpu EXCEPT ![v] = b] /\ vcpu'[v] = b
    BY <1>2, <1>12, Zenon DEF To
  <2>4. RegionsAfter[vcpu[v].key] = None
    BY <1>2, <1>3, <1>12, Zenon DEF CellOK
  <2> HIDE DEF b
  <2>5. VcpuOK(v)'
    BY <1>1, <1>2, <2>1, <2>2, <2>3, <2>4, Zenon DEF VcpuOK, ReaderOK, NativeOK, latest
  <2> QED  BY <1>7, <1>12, <2>2, <2>3, <2>5, Zenon
<1>13. CASE /\ n.entry = None /\ n.state = "Empty"
            /\ node' = [NodesAfter EXCEPT ![k].state = "CompilingLcq"]
            /\ vcpu' = [vcpu EXCEPT ![v] = [@ EXCEPT !.pc = "discover", !.gen = n.gen,
                                                     !.seen = latest, !.read = <<>>]]
  <2> DEFINE b == [vcpu[v] EXCEPT !.pc = "discover", !.gen = n.gen, !.seen = latest,
                                  !.read = <<>>]
             m == [n EXCEPT !.state = "CompilingLcq"]
  <2>1. n \in Node /\ k \in Key
    BY <1>2, <1>3, Zenon
  <2>2. n.gen \in Nat /\ m \in Node /\ m.entry = n.entry /\ m.state = "CompilingLcq"
    BY <2>1 DEF Node, States
  <2>3. /\ b \in JitActor /\ b.pc = "discover" /\ b.key = vcpu[v].key
        /\ b.seen = latest /\ b.read = <<>>
    <3>1. PICK a \in JitActor : a = vcpu[v]
      BY <1>2, Zenon
    <3>2. PICK g \in Nat : g = n.gen
      BY <2>2, Zenon
    <3>3. PICK t \in Nat : t = latest
      BY <1>2, Zenon
    <3>4. PICK c : c = b
      OBVIOUS
    <3>5. c = [a EXCEPT !.pc = "discover", !.gen = g, !.seen = t, !.read = <<>>]
      BY <3>1, <3>2, <3>3, <3>4, Zenon
    <3>6. /\ c \in JitActor /\ c.pc = "discover" /\ c.key = a.key /\ c.seen = t
          /\ c.read = <<>>
      BY <3>5, NothingRead DEF JitActor, Places, Reading
    <3> HIDE DEF b
    <3> QED  BY <3>1, <3>3, <3>4, <3>6, Zenon
  <2>4. vcpu' = [vcpu EXCEPT ![v] = b] /\ vcpu'[v] = b
    BY <1>2, <1>13, Zenon
  <2>5. node' = [NodesAfter EXCEPT ![k] = m]
    BY <1>3, <1>13, <2>1, Zenon
  <2> HIDE DEF b, m, n, k
  <2>6. /\ node' \in [Key -> Node] /\ node'[k] = m
        /\ \A q \in Key : q # k => node'[q] = NodesAfter[q]
    BY <1>3, <2>1, <2>2, <2>5, Zenon
  <2>7. CellOK(k, m, RegionsAfter[k], index, latest)
    <3>1. CellOK(k, n, RegionsAfter[k], index, latest)
      BY <1>3, <2>1, Zenon DEF n
    <3>2. (m.state \in {"Empty", "CompilingLcq"}) = (n.state \in {"Empty", "CompilingLcq"})
      BY <1>13, <2>2
    <3> QED  BY <2>2, <3>1, <3>2, CellRestated, Zenon
  <2>8. TablesInv'
    <3>1. \A q \in Key : CellOK(q, node'[q], regions'[q], index', cursor')
      BY <1>1, <1>3, <2>6, <2>7, Zenon
    <3>2. latest \in 0 .. latest
      BY <1>2
    <3> QED  BY <1>1, <1>3, <1>5, <2>6, <3>1, <3>2, TablesStep, Zenon
  <2>9. \A q \in Key : node'[q].state = "HcqQueued" =>
          node[q].state = "HcqQueued" /\ node'[q].gen = node[q].gen
    BY <1>4, <2>2, <2>6, Zenon
  <2>10. "discover" \in Reading /\ "discover" \notin Native \cup Sleeping
    BY Zenon DEF Reading, Native, Sleeping
  <2>11. DOMAIN b.read = {} /\ latest <= latest /\ latest' = latest
    BY <1>1, <1>2, <2>3, NothingRead DEF latest
  <2>12. VcpuOK(v)'
    BY <1>2, <2>3, <2>4, <2>10, <2>11, Zenon DEF VcpuOK, ReaderOK, NativeOK
  <2> QED  BY <1>1, <1>4, <2>3, <2>4, <2>8, <2>9, <2>12, VcpuStep, Zenon
<1> QED  BY <1>6, <1>9, <1>10, <1>11, <1>12, <1>13, Zenon

\* notify_all: who sleeps dispatches again, so what is published meanwhile does
\* not concern it.  Nobody is between its check and its sleep, or nothing is
\* published.
LEMMA WokenVcpus ==
  ASSUME JitInv, UNCHANGED <<mem, history, hold>>, cursor' \in {cursor, latest},
         NEW vs \in [Vcpu -> JitActor], vcpu' = Woken(vs),
         \A u \in Vcpu : vcpu[u].pc = "drowsy" => regions'[vcpu[u].key] = None,
         \A u \in Vcpu : \/ vs[u] = vcpu[u]
                         \/ /\ vs[u].pc \in Plain /\ vs[u].seen <= latest
                            /\ vs[u].pc # "idle" => vs[u].key \in Key
  PROVE  /\ vcpu' \in [Vcpu -> JitActor]
         /\ \A u \in Vcpu : VcpuOK(u)'
         /\ \A u \in Vcpu : vs[u].pc # "asleep" => vcpu'[u] = vs[u]
<1>1. "dispatch" \in Places /\ "dispatch" \in Plain /\ "asleep" \notin Plain
  BY DEF Places, Plain
<1>2. ASSUME NEW u \in Vcpu
      PROVE  LET b == [vs[u] EXCEPT !.pc = "dispatch"]
             IN  /\ b \in JitActor /\ b.pc = "dispatch" /\ b.key = vs[u].key
                 /\ b.seen = vs[u].seen
  BY <1>1, MovedType, Zenon
<1>3. vcpu' \in [Vcpu -> JitActor]
  BY <1>2, Zenon DEF Woken
<1>4. \A u \in Vcpu : vs[u].pc # "asleep" => vcpu'[u] = vs[u]
  BY Zenon DEF Woken
<1>5. latest' = latest
  BY Zenon DEF latest
<1>6. ASSUME NEW u \in Vcpu PROVE VcpuOK(u)'
  <2>1. CASE vs[u].pc = "asleep"
    <3>1. vs[u] = vcpu[u]
      BY <1>1, <2>1, Zenon
    <3>2. vcpu[u].key \in Key /\ vcpu[u].seen <= latest
      BY <2>1, <3>1, VcpuBefore, Zenon
    <3>3. vcpu'[u] = [vs[u] EXCEPT !.pc = "dispatch"]
      BY <2>1, Zenon DEF Woken
    <3>4. /\ vcpu'[u].pc = "dispatch" /\ vcpu'[u].key = vs[u].key
          /\ vcpu'[u].seen = vs[u].seen
      BY <1>2, <3>3, Zenon
    <3> QED  BY <1>1, <1>5, <3>1, <3>2, <3>4, PlainVcpu, Zenon
  <2>2. CASE vs[u].pc # "asleep" /\ vs[u] = vcpu[u]
    <3>1. vcpu'[u] = vcpu[u]
      BY <1>4, <2>2, Zenon
    <3>2. vcpu[u].pc \in Sleeping => vcpu[u].pc = "drowsy"
      BY <2>2, Zenon DEF Sleeping
    <3> QED  BY <3>1, <3>2, KeptVcpu, Zenon
  <2>3. CASE /\ vs[u].pc # "asleep" /\ vs[u].pc \in Plain /\ vs[u].seen <= latest
             /\ vs[u].pc # "idle" => vs[u].key \in Key
    <3>1. vcpu'[u] = vs[u]
      BY <1>4, <2>3, Zenon
    <3> QED  BY <1>5, <2>3, <3>1, PlainVcpu, Zenon
  <2> QED  BY <2>1, <2>2, <2>3, Zenon
<1> QED  BY <1>3, <1>4, <1>6, Zenon

\* A vCPU that is not queueing a node moves and wakes the others.
LEMMA WakeStep ==
  ASSUME JitInv, UNCHANGED <<mem, history, hold, stopping, stack, worker>>, TablesInv',
         cursor' \in {cursor, latest},
         \A u \in Vcpu : vcpu[u].pc = "drowsy" => regions'[vcpu[u].key] = None,
         \A k \in Key : node'[k].state = "HcqQueued" =>
           node[k].state = "HcqQueued" /\ node'[k].gen = node[k].gen,
         NEW v \in Vcpu, NEW b \in JitActor, vcpu' = Woken([vcpu EXCEPT ![v] = b]),
         vcpu[v].pc # "pushing",
         b.pc \in Plain, b.seen <= latest, b.pc # "idle" => b.key \in Key
  PROVE  JitInv'
<1> DEFINE vs == [vcpu EXCEPT ![v] = b]
<1>1. vcpu \in [Vcpu -> JitActor] /\ worker \in [Worker -> JitActor] /\ StackInv
  BY Zenon DEF JitInv, ActorsInv
<1>2. vs \in [Vcpu -> JitActor] /\ vs[v] = b /\ \A u \in Vcpu : u # v => vs[u] = vcpu[u]
  BY <1>1, Zenon
<1> HIDE DEF vs
<1>3. /\ vcpu' \in [Vcpu -> JitActor]
      /\ \A u \in Vcpu : VcpuOK(u)'
      /\ \A u \in Vcpu : vs[u].pc # "asleep" => vcpu'[u] = vs[u]
  <2>1. vcpu' = Woken(vs)
    BY Zenon DEF vs
  <2>2. \A u \in Vcpu : \/ vs[u] = vcpu[u]
                        \/ /\ vs[u].pc \in Plain /\ vs[u].seen <= latest
                           /\ vs[u].pc # "idle" => vs[u].key \in Key
    BY <1>2, Zenon
  <2> QED  BY <1>2, <2>1, <2>2, WokenVcpus, Zenon
<1>4. \A w \in Worker : WorkerOK(w)'
  BY KeptWorker, Zenon
<1>5. StackInv'
  BY <1>1, Zenon DEF StackInv, latest
<1>6. ActorsInv'
  BY <1>1, <1>3, <1>4, <1>5, Zenon DEF ActorsInv
<1>7. MemoryInv'
  BY MemoryKept, Zenon DEF JitInv
<1>8. \A u \in Vcpu : vcpu[u].pc = "pushing" => vcpu'[u] = vcpu[u]
  <2> SUFFICES ASSUME NEW u \in Vcpu, vcpu[u].pc = "pushing" PROVE vcpu'[u] = vcpu[u]
    BY Zenon
  <2>1. vs[u] = vcpu[u] /\ "pushing" # "asleep"
    BY <1>2
  <2> QED  BY <1>3, <2>1, Zenon
<1>9. QueueInv'
  BY <1>8, QueueStep, Zenon DEF JitInv
<1> QED  BY <1>6, <1>7, <1>9, Zenon DEF JitInv

\* The tables after a publication that no announced change overtook.
LEMMA Published ==
  ASSUME JitConfiguration, JitInv, NEW a \in JitActor, ReaderOK(a), a.pc = "compiled",
         NEW tier \in {"Lcq", "Hcq"}, ~affects(a.seen, DOMAIN a.read),
         NEW m \in Node, m.entry = Compiled(a, tier), m.state = tier,
         node' = [NodesAfter EXCEPT ![a.key] = m],
         regions' = [RegionsAfter EXCEPT ![a.key] = Compiled(a, tier)],
         index' = IndexWith(a), cursor' = latest, bytes' \in Nat, UNCHANGED <<mem, history>>
  PROVE  /\ TablesInv'
         /\ \A q \in Key : node'[q] = IF q = a.key THEN m ELSE NodesAfter[q]
<1> DEFINE r == Compiled(a, tier)
           ix == IndexWith(a)
<1>1. /\ r \in Region /\ r # None /\ Fresh(r, latest)
      /\ ix \in [CodePage -> SUBSET Key]
      /\ \A p \in DOMAIN r.vers \cap CodePage : a.key \in ix[p]
      /\ \A p \in CodePage : index[p] \subseteq ix[p]
  BY CompiledFresh, Zenon
<1>2. /\ NodesAfter \in [Key -> Node] /\ RegionsAfter \in [Key -> Region \cup {None}]
      /\ \A q \in Key : CellOK(q, NodesAfter[q], RegionsAfter[q], index, latest)
  BY Reconciled, Zenon
<1>3. a.key \in Key
  <2>1. a.pc \notin {"idle", "gone"}
    OBVIOUS
  <2> QED  BY <2>1, Zenon DEF ReaderOK
<1>4. latest \in 0 .. latest
  <2>1. latest \in Nat
    BY JitTypes, Zenon
  <2> QED  BY <2>1
<1> HIDE DEF r, ix
<1>5. regions' = [RegionsAfter EXCEPT ![a.key] = r] /\ index' = ix /\ m.entry = r
  BY Zenon DEF r, ix
<1>6. /\ node' \in [Key -> Node] /\ regions' \in [Key -> Region \cup {None}]
      /\ node'[a.key] = m /\ regions'[a.key] = r
      /\ \A q \in Key : q # a.key => node'[q] = NodesAfter[q] /\ regions'[q] = RegionsAfter[q]
  BY <1>1, <1>2, <1>3, <1>5, Zenon
<1>7. CellOK(a.key, m, r, ix, latest)
  <2>1. (m.state \in {"Empty", "CompilingLcq"}) = (r = None)
    BY <1>1
  <2> QED  BY <1>1, <1>5, <2>1, Zenon DEF CellOK
<1>8. \A q \in Key : CellOK(q, node'[q], regions'[q], index', cursor')
  <2>1. \A q \in Key : CellOK(q, NodesAfter[q], RegionsAfter[q], ix, latest)
    BY <1>1, <1>2, CellIndexed, Zenon
  <2> SUFFICES ASSUME NEW q \in Key PROVE CellOK(q, node'[q], regions'[q], index', cursor')
    BY Zenon
  <2>2. CASE q = a.key
    BY <1>5, <1>6, <1>7, <2>2, Zenon
  <2>3. CASE q # a.key
    BY <1>5, <1>6, <2>1, <2>3, Zenon
  <2> QED  BY <2>2, <2>3, Zenon
<1>9. TablesInv'
  BY <1>1, <1>4, <1>5, <1>6, <1>8, TablesStep, Zenon
<1> QED  BY <1>6, <1>9, Zenon

\* The locked tail of compile_lcq.
LEMMA PublishLcqStep ==
  ASSUME JitConfiguration, JitInv, NEW v \in Vcpu, PublishLcq(v) PROVE JitInv'
<1>1. PICK a \in JitActor : a = vcpu[v]
  BY VcpuBefore, Zenon
<1> DEFINE k == a.key
           owned == NodesAfter[k].gen = a.gen /\ NodesAfter[k].state = "CompilingLcq"
           stale == affects(a.seen, DOMAIN a.read)
<1>2. /\ a.pc = "compiled" /\ ~Locked /\ bytes' = bytes + 1
      /\ UNCHANGED <<mem, history, hold, stopping, stack, worker>>
      /\ \/ To(v, "aborting") /\ UNCHANGED <<node, regions, index, cursor>>
         \/ /\ cursor' = latest
            /\ \/ /\ To(v, "aborting") /\ node' = NodesAfter
                  /\ regions' = RegionsAfter /\ UNCHANGED index
               \/ /\ vcpu' = IF owned
                             THEN [vcpu EXCEPT ![v] = [@ EXCEPT !.pc = "discover", !.seen = latest,
                                                                !.read = <<>>]]
                             ELSE Woken([vcpu EXCEPT ![v].pc = "dispatch"])
                  /\ node' = NodesAfter /\ regions' = RegionsAfter /\ UNCHANGED index
               \/ /\ ~stale
                  /\ regions' = [RegionsAfter EXCEPT ![k] = Compiled(a, "Lcq")]
                  /\ node' = [NodesAfter EXCEPT ![k].entry = Compiled(a, "Lcq"),
                                                ![k].state = "Lcq", ![k].hot = TRUE]
                  /\ index' = IndexWith(a)
                  /\ vcpu' = Woken([vcpu EXCEPT ![v].pc = "ready"])
  BY <1>1, Zenon DEF PublishLcq, CanReconcile
<1>3. /\ ReaderOK(a) /\ a.key \in Key /\ a.seen <= latest /\ latest \in Nat
      /\ vcpu \in [Vcpu -> JitActor]
  BY <1>1, <1>2, VcpuBefore, Zenon DEF VcpuOK
<1>4. bytes' \in Nat
  <2>1. bytes \in Nat
    BY Zenon DEF JitInv, TablesInv
  <2> QED  BY <1>2, <2>1
<1>5. vcpu[v].pc = "compiled" /\ "compiled" # "pushing"
  BY <1>1, <1>2
<1>6. /\ \A q \in Key : regions[q] = None => RegionsAfter[q] = None
      /\ \A q \in Key : NodesAfter[q].state = "HcqQueued" => NodesAfter[q] = node[q]
  BY ReconciledShrinks, Zenon
<1>7. \A u \in Vcpu : vcpu[u].pc = "drowsy" => regions'[vcpu[u].key] = None
  BY <1>2, Zenon DEF Locked
<1>8. "aborting" \in Plain /\ "dispatch" \in Plain /\ "ready" \in Plain
  BY Zenon DEF Plain
<1>9. CASE To(v, "aborting") /\ UNCHANGED <<node, regions, index, cursor>>
  <2>1. TablesInv'
    <3>1. /\ node \in [Key -> Node] /\ regions \in [Key -> Region \cup {None}]
          /\ index \in [CodePage -> SUBSET Key] /\ cursor \in 0 .. latest
          /\ \A q \in Key : CellOK(q, node[q], regions[q], index, cursor)
      BY Zenon DEF JitInv, TablesInv
    <3> QED  BY <1>2, <1>4, <1>9, <3>1, TablesStep, Zenon
  <2> QED  BY <1>2, <1>5, <1>8, <1>9, <2>1, ToPlain, VcpuStep, Zenon
<1>10. ASSUME cursor' = latest, node' = NodesAfter, regions' = RegionsAfter, index' = index
       PROVE  TablesInv'
  BY <1>2, <1>4, <1>10, ReconciledTables, Zenon
<1>11. CASE /\ cursor' = latest /\ To(v, "aborting") /\ node' = NodesAfter
            /\ regions' = RegionsAfter /\ UNCHANGED index
  BY <1>2, <1>5, <1>6, <1>8, <1>10, <1>11, ToPlain, VcpuStep, Zenon
<1>12. CASE /\ cursor' = latest /\ node' = NodesAfter
            /\ regions' = RegionsAfter /\ UNCHANGED index
            /\ vcpu' = [vcpu EXCEPT ![v] = [@ EXCEPT !.pc = "discover", !.seen = latest,
                                                     !.read = <<>>]]
  <2>1. PICK t \in Nat : t = latest
    BY <1>3, Zenon
  <2>2. PICK b : b = [a EXCEPT !.pc = "discover", !.seen = t, !.read = <<>>]
    OBVIOUS
  <2>3. b \in JitActor /\ b.pc = "discover" /\ b.key = a.key /\ b.seen = t /\ b.read = <<>>
    BY <2>2, NothingRead DEF JitActor, Places, Reading
  <2>4. vcpu' = [vcpu EXCEPT ![v] = b] /\ vcpu'[v] = b
    BY <1>1, <1>3, <1>12, <2>1, <2>2, Zenon
  <2>5. "discover" \in Reading /\ "discover" \notin Native \cup Sleeping
    BY Zenon DEF Reading, Native, Sleeping
  <2>6. DOMAIN b.read = {} /\ t <= latest'
    BY <1>2, <1>3, <2>1, <2>3, NothingRead DEF latest
  <2>7. VcpuOK(v)'
    BY <1>3, <2>3, <2>4, <2>5, <2>6, Zenon DEF VcpuOK, ReaderOK, NativeOK
  <2> QED  BY <1>2, <1>5, <1>6, <1>10, <1>12, <2>3, <2>4, <2>7, VcpuStep, Zenon
<1>13. ASSUME NEW pc \in Plain, pc # "idle"
       PROVE  LET b == [a EXCEPT !.pc = pc]
              IN  /\ b \in JitActor /\ b.pc = pc /\ b.seen <= latest /\ b.key \in Key
                  /\ [vcpu EXCEPT ![v].pc = pc] = [vcpu EXCEPT ![v] = b]
  <2>1. pc \in Places
    BY Zenon DEF Places
  <2> DEFINE b == [a EXCEPT !.pc = pc]
  <2>2. b \in JitActor /\ b.pc = pc /\ b.seen = a.seen /\ b.key = a.key
    BY <2>1, MovedType, Zenon
  <2>3. [vcpu EXCEPT ![v].pc = pc] = [vcpu EXCEPT ![v] = b]
    BY <1>1, Zenon
  <2> HIDE DEF b
  <2>4. b \in JitActor /\ b.pc = pc /\ b.seen <= latest /\ b.key \in Key
    BY <1>3, <2>2, Zenon
  <2> QED  BY <2>3, <2>4, Zenon DEF b
<1>14. CASE /\ cursor' = latest /\ node' = NodesAfter
            /\ regions' = RegionsAfter /\ UNCHANGED index
            /\ vcpu' = Woken([vcpu EXCEPT ![v].pc = "dispatch"])
  <2>1. PICK b \in JitActor : /\ b.pc = "dispatch" /\ b.seen <= latest /\ b.key \in Key
                              /\ [vcpu EXCEPT ![v].pc = "dispatch"] = [vcpu EXCEPT ![v] = b]
    BY <1>8, <1>13, Zenon
  <2> QED  BY <1>2, <1>5, <1>6, <1>7, <1>8, <1>10, <1>14, <2>1, WakeStep, Zenon
<1>15. CASE /\ cursor' = latest /\ ~stale
            /\ regions' = [RegionsAfter EXCEPT ![k] = Compiled(a, "Lcq")]
            /\ node' = [NodesAfter EXCEPT ![k].entry = Compiled(a, "Lcq"),
                                          ![k].state = "Lcq", ![k].hot = TRUE]
            /\ index' = IndexWith(a)
            /\ vcpu' = Woken([vcpu EXCEPT ![v].pc = "ready"])
  <2>1. PICK b \in JitActor : /\ b.pc = "ready" /\ b.seen <= latest /\ b.key \in Key
                              /\ [vcpu EXCEPT ![v].pc = "ready"] = [vcpu EXCEPT ![v] = b]
    BY <1>8, <1>13, Zenon
  <2>2. NodesAfter \in [Key -> Node]
    BY Reconciled, Zenon
  <2>3. PICK n \in Node : n = NodesAfter[a.key]
    BY <1>3, <2>2, Zenon
  <2>4. PICK r : r = Compiled(a, "Lcq")
    OBVIOUS
  <2>5. PICK m : m = [n EXCEPT !.entry = r, !.state = "Lcq", !.hot = TRUE]
    OBVIOUS
  <2>6. r \in Region
    BY <1>2, <1>3, <1>15, <2>4, CompiledFresh, Zenon
  <2>7. m \in Node /\ m.entry = r /\ m.state = "Lcq"
    BY <2>5, <2>6 DEF Node, States
  <2>8. node' = [NodesAfter EXCEPT ![a.key] = m]
    BY <1>3, <1>15, <2>2, <2>3, <2>4, <2>5, Zenon
  <2>9. /\ TablesInv'
        /\ \A q \in Key : node'[q] = IF q = a.key THEN m ELSE NodesAfter[q]
    <3>1. /\ "Lcq" \in {"Lcq", "Hcq"} /\ a.pc = "compiled" /\ UNCHANGED <<mem, history>>
          /\ ~affects(a.seen, DOMAIN a.read) /\ index' = IndexWith(a) /\ cursor' = latest
          /\ regions' = [RegionsAfter EXCEPT ![a.key] = Compiled(a, "Lcq")]
          /\ m.entry = Compiled(a, "Lcq")
      BY <1>2, <1>15, <2>4, <2>7, Zenon
    <3> QED  BY <1>3, <1>4, <2>7, <2>8, <3>1, Published, Zenon
  <2>10. \A q \in Key : node'[q].state = "HcqQueued" =>
           node[q].state = "HcqQueued" /\ node'[q].gen = node[q].gen
    BY <1>6, <2>7, <2>9, Zenon
  <2> QED  BY <1>2, <1>5, <1>7, <1>8, <1>15, <2>1, <2>9, <2>10, WakeStep, Zenon
<1> QED  BY <1>2, <1>9, <1>11, <1>12, <1>14, <1>15, Zenon

\* The tables after a node changed between states of the same kind.
LEMMA NodeRestated ==
  ASSUME JitInv, UNCHANGED <<mem, history, state>>, NEW k \in Key, NEW m \in Node,
         m.entry = node[k].entry,
         (m.state \in {"Empty", "CompilingLcq"}) = (node[k].state \in {"Empty", "CompilingLcq"}),
         node' = [node EXCEPT ![k] = m]
  PROVE  /\ TablesInv' /\ node'[k] = m /\ \A q \in Key : q # k => node'[q] = node[q]
         /\ UNCHANGED <<regions, index, cursor, bytes>>
<1>1. /\ node \in [Key -> Node] /\ regions \in [Key -> Region \cup {None}]
      /\ index \in [CodePage -> SUBSET Key] /\ cursor \in 0 .. latest /\ bytes \in Nat
      /\ \A q \in Key : CellOK(q, node[q], regions[q], index, cursor)
  BY Zenon DEF JitInv, TablesInv
<1>2. /\ node' \in [Key -> Node] /\ node'[k] = m
      /\ \A q \in Key : q # k => node'[q] = node[q]
  BY <1>1, Zenon
<1>3. UNCHANGED <<regions, index, cursor, bytes>>
  BY Zenon DEF state
<1>4. CellOK(k, m, regions[k], index, cursor)
  BY <1>1, CellRestated, Zenon
<1>5. \A q \in Key : CellOK(q, node'[q], regions'[q], index', cursor')
  BY <1>1, <1>2, <1>3, <1>4, Zenon
<1>6. TablesInv'
  BY <1>1, <1>2, <1>3, <1>5, TablesStep, Zenon
<1> QED  BY <1>2, <1>3, <1>6, Zenon

\* A failed compile gives the node back and wakes who waits for it.
LEMMA AbortStep ==
  ASSUME JitInv, NEW v \in Vcpu, Abort(v) PROVE JitInv'
<1>1. PICK a \in JitActor : a = vcpu[v]
  BY VcpuBefore, Zenon
<1>2. /\ a.pc = "aborting" /\ UNCHANGED <<mem, history, hold, state, stopping, stack, worker>>
      /\ node' = [node EXCEPT ![a.key].state = IF node[a.key].gen = a.gen /\ @ = "CompilingLcq"
                                               THEN "Empty" ELSE @]
      /\ vcpu' = Woken([vcpu EXCEPT ![v] = At("idle")])
  BY <1>1, Zenon DEF Abort
<1>3. a.key \in Key /\ latest \in Nat /\ vcpu \in [Vcpu -> JitActor]
  BY <1>1, <1>2, VcpuBefore, Zenon
<1>4. node \in [Key -> Node]
  BY JitTypes, Zenon
<1>5. PICK n \in Node : n = node[a.key]
  BY <1>3, <1>4, Zenon
<1>6. PICK m : m = [n EXCEPT !.state = IF n.gen = a.gen /\ n.state = "CompilingLcq"
                                       THEN "Empty" ELSE n.state]
  OBVIOUS
<1>7. /\ m \in Node /\ m.entry = n.entry /\ m.gen = n.gen
      /\ (m.state \in {"Empty", "CompilingLcq"}) = (n.state \in {"Empty", "CompilingLcq"})
      /\ m.state = "HcqQueued" => n.state = "HcqQueued"
  BY <1>6 DEF Node, States
<1>8. node' = [node EXCEPT ![a.key] = m]
  BY <1>2, <1>3, <1>4, <1>5, <1>6, Zenon
<1>9. /\ TablesInv' /\ node'[a.key] = m /\ \A q \in Key : q # a.key => node'[q] = node[q]
      /\ UNCHANGED <<regions, index, cursor, bytes>>
  BY <1>2, <1>3, <1>5, <1>7, <1>8, NodeRestated, Zenon
<1>10. \A q \in Key : node'[q].state = "HcqQueued" =>
         node[q].state = "HcqQueued" /\ node'[q].gen = node[q].gen
  BY <1>5, <1>7, <1>9, Zenon
<1>11. /\ At("idle") \in JitActor /\ At("idle").pc = "idle" /\ "idle" \in Plain
       /\ At("idle").seen <= latest
  <2>1. "idle" \in Places /\ "idle" \in Plain
    BY Zenon DEF Places, Plain
  <2>2. At("idle") \in JitActor /\ At("idle").pc = "idle" /\ At("idle").seen = 0
    BY <2>1, AtType, Zenon
  <2> QED  BY <1>3, <2>1, <2>2
<1>12. \A u \in Vcpu : vcpu[u].pc = "drowsy" => regions'[vcpu[u].key] = None
  BY <1>9, Zenon DEF JitInv, ActorsInv, VcpuOK, Sleeping
<1>13. vcpu[v].pc # "pushing"
  BY <1>1, <1>2
<1> QED  BY <1>2, <1>9, <1>10, <1>11, <1>12, <1>13, WakeStep, Zenon

\* published_entry_for, under the lease: the region entered is current.
LEMMA EnterNativeStep ==
  ASSUME JitInv, NEW v \in Vcpu, EnterNative(v) PROVE JitInv'
<1>1. PICK a \in JitActor : a = vcpu[v]
  BY VcpuBefore, Zenon
<1>2. /\ a.pc = "leased" /\ hold = None /\ cursor' = latest /\ node' = NodesAfter
      /\ regions' = RegionsAfter
      /\ UNCHANGED <<mem, history, hold, index, bytes, stopping, stack, worker>>
      /\ \/ Stop(v)
         \/ To(v, "dispatch")
         \/ /\ NodesAfter[a.key].entry # None
            /\ vcpu' = [vcpu EXCEPT ![v] = [@ EXCEPT !.pc = "entering", !.seen = latest,
                                                     !.region = NodesAfter[a.key].entry]]
  BY <1>1, Zenon DEF EnterNative, Reconcile, CanReconcile
<1>3. vcpu[v].pc = "leased" /\ a.key \in Key /\ latest \in Nat /\ vcpu \in [Vcpu -> JitActor]
  BY <1>1, <1>2, VcpuBefore, Zenon
<1>4. /\ \A q \in Key : regions[q] = None => RegionsAfter[q] = None
      /\ \A q \in Key : NodesAfter[q].state = "HcqQueued" => NodesAfter[q] = node[q]
  BY ReconciledShrinks, Zenon
<1>5. TablesInv'
  <2>1. bytes' \in Nat
    BY <1>2, Zenon DEF JitInv, TablesInv
  <2> QED  BY <1>2, <2>1, ReconciledTables, Zenon
<1>6. "dispatch" \in Plain
  BY Zenon DEF Plain
<1>7. ASSUME NEW b \in JitActor, vcpu' = [vcpu EXCEPT ![v] = b], VcpuOK(v)' PROVE JitInv'
  BY <1>2, <1>3, <1>4, <1>5, <1>7, VcpuStep, Zenon
<1>8. CASE Stop(v)
  BY <1>2, <1>7, <1>8, Stopped, Zenon
<1>9. CASE To(v, "dispatch")
  BY <1>2, <1>3, <1>6, <1>7, <1>9, ToPlain, Zenon
<1>10. CASE /\ NodesAfter[a.key].entry # None
            /\ vcpu' = [vcpu EXCEPT ![v] = [@ EXCEPT !.pc = "entering", !.seen = latest,
                                                     !.region = NodesAfter[a.key].entry]]
  <2>1. PICK r : r = NodesAfter[a.key].entry
    OBVIOUS
  <2>2. /\ CellOK(a.key, NodesAfter[a.key], RegionsAfter[a.key], index, latest)
        /\ RegionsAfter[a.key] \in Region \cup {None}
    BY <1>3, Reconciled, Zenon
  <2>3. r \in Region /\ Fresh(r, latest)
    BY <1>10, <2>1, <2>2, Zenon DEF CellOK
  <2>4. PICK t \in Nat : t = latest
    BY <1>3, Zenon
  <2>5. PICK b : b = [a EXCEPT !.pc = "entering", !.seen = t, !.region = r]
    OBVIOUS
  <2>6. /\ b \in JitActor /\ b.pc = "entering" /\ b.key = a.key /\ b.seen = t
        /\ b.region = r
    BY <2>3, <2>5 DEF JitActor, Places, Native
  <2>7. vcpu' = [vcpu EXCEPT ![v] = b] /\ vcpu'[v] = b
    BY <1>1, <1>3, <1>10, <2>1, <2>4, <2>5, Zenon
  <2>8. b.seen <= latest
    BY <2>4, <2>6
  <2>9. VcpuOK(v)'
    BY <1>2, <1>3, <2>3, <2>6, <2>7, <2>8, EnteringVcpu, Zenon
  <2> QED  BY <1>7, <2>6, <2>7, <2>9, Zenon
<1> QED  BY <1>2, <1>8, <1>9, <1>10, Zenon

\* The dispatcher consumes the stream for a vCPU whose guard failed.
LEMMA ReconcileExitStep ==
  ASSUME JitInv, NEW v \in Vcpu, ReconcileExit(v) PROVE JitInv'
<1>1. /\ vcpu[v].pc = "reconcile" /\ cursor' = latest /\ node' = NodesAfter
      /\ regions' = RegionsAfter /\ To(v, "dispatch")
      /\ UNCHANGED <<mem, history, hold, index, bytes, stopping, stack, worker>>
  BY Zenon DEF ReconcileExit, Reconcile
<1>2. /\ \A q \in Key : regions[q] = None => RegionsAfter[q] = None
      /\ \A q \in Key : NodesAfter[q].state = "HcqQueued" => NodesAfter[q] = node[q]
  BY ReconciledShrinks, Zenon
<1>3. TablesInv'
  <2>1. bytes' \in Nat
    BY <1>1, Zenon DEF JitInv, TablesInv
  <2> QED  BY <1>1, <2>1, ReconciledTables, Zenon
<1>4. "dispatch" \in Plain
  BY Zenon DEF Plain
<1> QED  BY <1>1, <1>2, <1>3, <1>4, ToPlain, VcpuStep, Zenon

\* A vCPU in native code goes on there, with the same region.
LEMMA StaysNative ==
  ASSUME JitInv, NEW v \in Vcpu, NEW b \in JitActor, vcpu' = [vcpu EXCEPT ![v] = b],
         vcpu[v].pc \in Native, b.pc \in Native, b.key = vcpu[v].key,
         b.seen = vcpu[v].seen, b.region = vcpu[v].region,
         UNCHANGED <<mem, history, hold, cursor>>
  PROVE  vcpu'[v] = b /\ VcpuOK(v)'
<1>1. vcpu \in [Vcpu -> JitActor] /\ VcpuOK(v) /\ vcpu[v].pc \notin {"idle", "gone"}
  BY VcpuBefore, Zenon DEF Native
<1>2. vcpu'[v] = b
  BY <1>1, Zenon
<1>3. b.pc \notin Reading /\ b.pc \notin Sleeping /\ b.pc \notin {"idle", "gone"}
  BY Zenon DEF Native, Reading, Sleeping
<1>4. ReaderOK(vcpu[v])'
  BY <1>1, <1>2, <1>3, Zenon DEF VcpuOK, ReaderOK, latest
<1>5. NativeOK(vcpu[v])'
  BY <1>1, <1>2, Zenon DEF VcpuOK, NativeOK, latest
<1> QED  BY <1>2, <1>3, <1>4, <1>5, Zenon DEF VcpuOK

\* request_hcq: the node is queued, and its vCPU is about to push the request.
LEMMA PromoteStep ==
  ASSUME JitInv, NEW v \in Vcpu, Promote(v) PROVE JitInv'
<1>1. PICK a \in JitActor : a = vcpu[v]
  BY VcpuBefore, Zenon
<1>2. /\ a.pc = "running" /\ UNCHANGED <<mem, history, hold, state, stopping, stack, worker>>
      /\ \/ node' = [node EXCEPT ![a.key].hot = FALSE] /\ UNCHANGED vcpu
         \/ /\ node[a.key].state = "Lcq"
            /\ node' = [node EXCEPT ![a.key].state = "HcqQueued"]
            /\ vcpu' = [vcpu EXCEPT ![v].pc = "pushing", ![v].gen = node[a.key].gen]
  BY <1>1, Zenon DEF Promote
<1>3. vcpu[v].pc = "running" /\ a.key \in Key /\ vcpu \in [Vcpu -> JitActor]
  BY <1>1, <1>2, VcpuBefore, Zenon
<1>4. node \in [Key -> Node]
  BY JitTypes, Zenon
<1>5. PICK n \in Node : n = node[a.key]
  BY <1>3, <1>4, Zenon
<1>6. "running" \in Native /\ "pushing" \in Native /\ "pushing" \in Places
  BY Zenon DEF Native, Places
<1>7. MemoryInv'
  BY <1>2, MemoryKept, Zenon DEF JitInv
<1>8. /\ UNCHANGED <<mem, history, hold>> /\ UNCHANGED <<stopping, stack, worker>>
       /\ vcpu[v].pc \in Native
  BY <1>2, <1>3, <1>6, Zenon
<1>9. CASE node' = [node EXCEPT ![a.key].hot = FALSE] /\ UNCHANGED vcpu
  <2>1. PICK m : m = [n EXCEPT !.hot = FALSE]
    OBVIOUS
  <2>2. m \in Node /\ m.entry = n.entry /\ m.gen = n.gen /\ m.state = n.state
    BY <2>1 DEF Node
  <2>3. node' = [node EXCEPT ![a.key] = m]
    BY <1>3, <1>4, <1>5, <1>9, <2>1, Zenon
  <2>4. /\ TablesInv' /\ node'[a.key] = m /\ \A q \in Key : q # a.key => node'[q] = node[q]
        /\ UNCHANGED <<regions, index, cursor, bytes>>
    BY <1>2, <1>3, <1>5, <2>2, <2>3, NodeRestated, Zenon
  <2>5. \A q \in Key : node'[q].state = node[q].state /\ node'[q].gen = node[q].gen
    BY <1>5, <2>2, <2>4, Zenon
  <2>6. vcpu' = [vcpu EXCEPT ![v] = a]
    BY <1>1, <1>3, <1>9, Zenon
  <2>7. VcpuOK(v)'
    <3>1. /\ a.pc \in Native /\ a.key = vcpu[v].key /\ a.seen = vcpu[v].seen
          /\ a.region = vcpu[v].region
      BY <1>1, <1>8, Zenon
    <3> QED  BY <1>8, <2>4, <2>6, <3>1, StaysNative, Zenon
  <2> QED  BY <1>2, <1>3, <2>4, <2>5, <2>6, <2>7, VcpuStep, Zenon
<1>10. CASE /\ node[a.key].state = "Lcq"
           /\ node' = [node EXCEPT ![a.key].state = "HcqQueued"]
           /\ vcpu' = [vcpu EXCEPT ![v].pc = "pushing", ![v].gen = node[a.key].gen]
  <2>1. PICK m : m = [n EXCEPT !.state = "HcqQueued"]
    OBVIOUS
  <2>2. /\ m \in Node /\ m.entry = n.entry /\ m.gen = n.gen /\ n.gen \in Nat
        /\ (m.state \in {"Empty", "CompilingLcq"}) = (n.state \in {"Empty", "CompilingLcq"})
    BY <1>5, <1>10, <2>1 DEF Node, States
  <2>3. node' = [node EXCEPT ![a.key] = m]
    BY <1>3, <1>4, <1>5, <1>10, <2>1, Zenon
  <2>4. /\ TablesInv' /\ node'[a.key] = m /\ \A q \in Key : q # a.key => node'[q] = node[q]
        /\ UNCHANGED <<regions, index, cursor, bytes>>
    BY <1>2, <1>3, <1>5, <2>2, <2>3, NodeRestated, Zenon
  <2>5. PICK g \in Nat : g = n.gen
    BY <2>2, Zenon
  <2>6. PICK b : b = [a EXCEPT !.pc = "pushing", !.gen = g]
    OBVIOUS
  <2>7. /\ b \in JitActor /\ b.pc = "pushing" /\ b.key = a.key /\ b.gen = g
        /\ b.seen = a.seen /\ b.region = a.region
    BY <1>6, <2>6 DEF JitActor
  <2>8. vcpu' = [vcpu EXCEPT ![v] = b]
    BY <1>1, <1>3, <1>5, <1>10, <2>5, <2>6, Zenon
  <2>9. vcpu'[v] = b /\ VcpuOK(v)'
    <3>1. /\ b.pc \in Native /\ b.key = vcpu[v].key /\ b.seen = vcpu[v].seen
          /\ b.region = vcpu[v].region
      BY <1>1, <1>6, <2>7, Zenon
    <3> QED  BY <1>8, <2>4, <2>7, <2>8, <3>1, StaysNative, Zenon
  <2>10. ActorsInv'
    BY <1>2, <2>4, <2>7, <2>8, <2>9, OneVcpu, Zenon
  <2>11. QueueInv'
    <3> SUFFICES ASSUME ~stopping', NEW q \in Key, node'[q].state = "HcqQueued"
                 PROVE  Requested(q)' \/ Compiling(q)' \/ Pushing(q)'
      BY Zenon DEF QueueInv
    <3>1. CASE q = a.key
      BY <2>2, <2>4, <2>5, <2>7, <2>9, <3>1, Zenon DEF Pushing
    <3>2. CASE q # a.key
      <4>1. Requested(q) \/ Compiling(q) \/ Pushing(q)
        BY <1>2, <2>4, <3>2, Zenon DEF JitInv, QueueInv
      <4>2. \A u \in Vcpu : vcpu[u].pc = "pushing" => vcpu'[u] = vcpu[u]
        BY <1>3, <2>8, Zenon
      <4>3. node'[q].gen = node[q].gen
        BY <2>4, <3>2, Zenon
      <4> QED  BY <1>8, <4>1, <4>2, <4>3, Zenon DEF Requested, Compiling, Pushing
    <3> QED  BY <3>1, <3>2, Zenon
  <2> QED  BY <1>7, <2>4, <2>10, <2>11, Zenon DEF JitInv
<1> QED  BY <1>2, <1>9, <1>10, Zenon

\* A node that leaves the queue without the high tier.
Back(n, hot) ==
  [n EXCEPT !.hot = hot, !.state = IF n.state = "HcqQueued" THEN "Lcq" ELSE n.state]

\* It keeps its region, and is in the queue no more.
LEMMA GivenBack ==
  ASSUME NEW n \in Node, NEW hot \in BOOLEAN, NEW m, m = Back(n, hot)
  PROVE  /\ m \in Node /\ m.entry = n.entry /\ m.gen = n.gen /\ m.state # "HcqQueued"
         /\ (m.state \in {"Empty", "CompilingLcq"}) = (n.state \in {"Empty", "CompilingLcq"})
<1>1. PICK st \in States : st = IF n.state = "HcqQueued" THEN "Lcq" ELSE n.state
  BY DEF Node, States
<1>2. m = [n EXCEPT !.hot = hot, !.state = st]
  BY <1>1, Zenon DEF Back
<1>3. m \in Node /\ m.entry = n.entry /\ m.gen = n.gen /\ m.state = st
  BY <1>2 DEF Node
<1>4. st # "HcqQueued" /\ (st \in {"Empty", "CompilingLcq"}) = (n.state \in {"Empty", "CompilingLcq"})
  BY <1>1
<1> QED  BY <1>3, <1>4, Zenon

\* The request is pushed, or refused and the node given back.
LEMMA PushStep ==
  ASSUME JitConfiguration, JitInv, NEW v \in Vcpu, Push(v) PROVE JitInv'
<1>1. PICK a \in JitActor : a = vcpu[v]
  BY VcpuBefore, Zenon
<1> DEFINE refused == closed \/ shutdown \/ Len(stack) = StackCapacity
<1>2. /\ a.pc = "pushing" /\ To(v, "running")
      /\ UNCHANGED <<mem, history, hold, state, stopping, worker>>
  BY <1>1, Zenon DEF Push
<1>3. PICK g \in {a.gen, node[a.key].gen} :
        /\ stack' = IF refused THEN stack
                    ELSE Append(stack, [key |-> a.key, gen |-> g, seen |-> a.seen])
        /\ node' = IF refused /\ node[a.key].gen = g
                   THEN [node EXCEPT ![a.key].hot = TRUE,
                                     ![a.key].state = IF @ = "HcqQueued" THEN "Lcq" ELSE @]
                   ELSE node
  BY <1>1, Zenon DEF Push
<1>4. /\ a.key \in Key /\ a.gen \in Nat /\ a.seen \in Nat /\ a.seen <= latest
      /\ vcpu \in [Vcpu -> JitActor] /\ latest \in Nat
  BY <1>1, <1>2, VcpuBefore, Zenon
<1>5. node \in [Key -> Node] /\ worker \in [Worker -> JitActor]
  BY JitTypes, Zenon
<1>6. PICK n \in Node : n = node[a.key]
  BY <1>4, <1>5, Zenon
<1>7. n.gen \in Nat /\ g \in Nat
  <2>1. n.gen \in Nat
    BY DEF Node
  <2> QED  BY <1>3, <1>4, <1>6, <2>1, Zenon
<1>8. MemoryInv'
  BY <1>2, MemoryKept, Zenon DEF JitInv
<1>9. UNCHANGED <<regions, index, cursor, bytes>>
  BY <1>2, Zenon DEF state
<1>10. /\ TablesInv'
       /\ \A q \in Key : node'[q].gen = node[q].gen
       /\ \A q \in Key : node'[q].state = "HcqQueued" => node[q].state = "HcqQueued"
       /\ refused /\ n.gen = g => node'[a.key].state # "HcqQueued"
  <2>1. CASE refused /\ node[a.key].gen = g
    <3>1. PICK m : m = Back(n, TRUE)
      OBVIOUS
    <3>2. /\ m \in Node /\ m.entry = n.entry /\ m.gen = n.gen /\ m.state # "HcqQueued"
          /\ (m.state \in {"Empty", "CompilingLcq"}) = (n.state \in {"Empty", "CompilingLcq"})
      BY <3>1, GivenBack
    <3>3. node' = [node EXCEPT ![a.key] = m]
      BY <1>3, <1>4, <1>5, <1>6, <2>1, <3>1, Zenon DEF Back
    <3>4. TablesInv' /\ node'[a.key] = m /\ \A q \in Key : q # a.key => node'[q] = node[q]
      BY <1>2, <1>4, <1>6, <3>2, <3>3, NodeRestated, Zenon
    <3> QED  BY <1>6, <3>2, <3>4, Zenon
  <2>2. CASE ~(refused /\ node[a.key].gen = g)
    <3>1. node' = node
      BY <1>3, <2>2, Zenon
    <3>2. TablesInv'
      BY <1>2, <3>1, TablesKept, Zenon DEF JitInv
    <3> QED  BY <1>6, <2>2, <3>1, <3>2, Zenon
  <2> QED  BY <2>1, <2>2, Zenon
<1>11. PICK b : b = [a EXCEPT !.pc = "running"]
  OBVIOUS
<1>12. /\ b \in JitActor /\ b.pc = "running" /\ b.key = a.key /\ b.seen = a.seen
       /\ b.region = a.region
  BY <1>11 DEF JitActor, Places, Native
<1>13. vcpu' = [vcpu EXCEPT ![v] = b]
  BY <1>1, <1>2, <1>4, <1>11, Zenon DEF To
<1>14. vcpu'[v] = b /\ VcpuOK(v)'
  <2>1. /\ vcpu[v].pc \in Native /\ b.pc \in Native /\ b.key = vcpu[v].key
        /\ b.seen = vcpu[v].seen /\ b.region = vcpu[v].region
    BY <1>1, <1>2, <1>12, Zenon DEF Native
  <2>2. UNCHANGED <<mem, history, hold, cursor>>
    BY <1>2, <1>9, Zenon
  <2> QED  BY <1>12, <1>13, <2>1, <2>2, StaysNative, Zenon
<1>15. StackInv'
  <2>1. StackInv /\ latest' = latest
    BY <1>2, Zenon DEF JitInv, ActorsInv, latest
  <2>2. CASE refused
    BY <1>3, <2>1, <2>2, Zenon DEF StackInv
  <2>3. CASE ~refused
    <3>1. PICK r : r = [key |-> a.key, gen |-> g, seen |-> a.seen]
      OBVIOUS
    <3>2. r \in Request /\ r.seen = a.seen
      BY <1>4, <1>7, <3>1 DEF Request
    <3>3. stack' = Append(stack, r) /\ Len(stack) # StackCapacity
      BY <1>3, <2>3, <3>1, Zenon
    <3>4. StackCapacity \in Nat
      BY Zenon DEF JitConfiguration
    <3>5. stack' \in Seq(Request) /\ Len(stack') <= StackCapacity
      BY <2>1, <3>2, <3>3, <3>4 DEF StackInv
    <3>6. \A i \in DOMAIN stack' : stack'[i].seen <= latest
      BY <1>4, <2>1, <3>2, <3>3 DEF StackInv
    <3> QED  BY <2>1, <3>5, <3>6, Zenon DEF StackInv
  <2> QED  BY <2>2, <2>3, Zenon
<1>16. ActorsInv'
  <2>1. vcpu' \in [Vcpu -> JitActor]
    BY <1>4, <1>12, <1>13, Zenon
  <2>2. ASSUME NEW u \in Vcpu PROVE VcpuOK(u)'
    <3>1. CASE u = v
      BY <1>14, <3>1, Zenon
    <3>2. CASE u # v
      <4>1. vcpu'[u] = vcpu[u]
        BY <1>4, <1>13, <3>2, Zenon
      <4>2. vcpu[u].pc \in Sleeping => regions'[vcpu[u].key] = None
        BY <1>9, Zenon DEF JitInv, ActorsInv, VcpuOK
      <4> QED  BY <1>2, <1>9, <4>1, <4>2, KeptVcpu, Zenon
    <3> QED  BY <3>1, <3>2, Zenon
  <2>3. \A w \in Worker : WorkerOK(w)'
    BY <1>2, KeptWorker, Zenon
  <2> QED  BY <1>2, <1>5, <1>15, <2>1, <2>2, <2>3, Zenon DEF ActorsInv
<1>17. QueueInv'
  <2> SUFFICES ASSUME ~stopping', NEW q \in Key, node'[q].state = "HcqQueued"
               PROVE  Requested(q)' \/ Compiling(q)' \/ Pushing(q)'
    BY Zenon DEF QueueInv
  <2>1. Requested(q) \/ Compiling(q) \/ Pushing(q)
    BY <1>2, <1>10, Zenon DEF JitInv, QueueInv
  <2>2. node'[q].gen = node[q].gen
    BY <1>10, Zenon
  <2>3. \A i \in DOMAIN stack : i \in DOMAIN stack' /\ stack'[i] = stack[i]
    <3>1. stack \in Seq(Request)
      BY JitTypes, Zenon
    <3>2. stack' = stack \/ \E r : stack' = Append(stack, r)
      BY <1>3, Zenon
    <3> QED  BY <3>1, <3>2
  <2>4. CASE Requested(q)
    BY <2>2, <2>3, <2>4, Zenon DEF Requested
  <2>5. CASE Compiling(q)
    BY <1>2, <2>2, <2>5, Zenon DEF Compiling
  <2>6. CASE Pushing(q)
    <3>1. PICK u \in Vcpu : vcpu[u].pc = "pushing" /\ vcpu[u].key = q /\ vcpu[u].gen = node[q].gen
      BY <2>6, Zenon DEF Pushing
    <3>2. CASE u # v
      <4>1. vcpu'[u] = vcpu[u]
        BY <1>4, <1>13, <3>2, Zenon
      <4> QED  BY <2>2, <3>1, <4>1, Zenon DEF Pushing
    <3>3. CASE u = v
      <4>1. q = a.key /\ g = node[q].gen /\ n.gen = g
        BY <1>1, <1>3, <1>6, <3>1, <3>3, Zenon
      <4>2. ~refused
        BY <1>10, <4>1, Zenon
      <4>3. PICK r : r = [key |-> a.key, gen |-> g, seen |-> a.seen]
        OBVIOUS
      <4>4. stack' = Append(stack, r) /\ r.key = q /\ r.gen = g
        BY <1>3, <4>1, <4>2, <4>3, Zenon
      <4>5. stack \in Seq(Request)
        BY JitTypes, Zenon
      <4>6. Len(stack) + 1 \in DOMAIN stack' /\ stack'[Len(stack) + 1] = r
        BY <4>4, <4>5
      <4> QED  BY <2>2, <4>1, <4>4, <4>6, Zenon DEF Requested
    <3> QED  BY <3>2, <3>3, Zenon
  <2> QED  BY <2>1, <2>4, <2>5, <2>6, Zenon
<1> QED  BY <1>8, <1>10, <1>16, <1>17, Zenon DEF JitInv

-----------------------------------------------------------------------------
(* Steps of the workers.                                                   *)

\* What is known of a worker before its step.
LEMMA WorkerBefore ==
  ASSUME JitInv, NEW w \in Worker
  PROVE  /\ worker[w] \in JitActor /\ worker \in [Worker -> JitActor]
         /\ ReaderOK(worker[w]) /\ worker[w].pc \in {"idle", "gone"} \cup Reading
         /\ worker[w].pc \in Reading => worker[w].key \in Key
<1>1. worker \in [Worker -> JitActor] /\ WorkerOK(w)
  BY Zenon DEF JitInv, ActorsInv
<1>2. worker[w].pc \in Reading => worker[w].pc \notin {"idle", "gone"}
  BY DEF Reading
<1> QED  BY <1>1, <1>2, Zenon DEF WorkerOK, ReaderOK

\* One worker moves.
LEMMA OneWorker ==
  ASSUME JitInv, UNCHANGED <<mem, history>>, NEW w \in Worker, NEW b \in JitActor,
         worker' = [worker EXCEPT ![w] = b], ReaderOK(b)',
         b.pc \in {"idle", "gone"} \cup Reading
  PROVE  /\ worker' \in [Worker -> JitActor] /\ \A x \in Worker : WorkerOK(x)'
         /\ worker'[w] = b /\ \A x \in Worker : x # w => worker'[x] = worker[x]
<1>1. worker \in [Worker -> JitActor]
  BY JitTypes, Zenon
<1>2. /\ worker' \in [Worker -> JitActor] /\ worker'[w] = b
      /\ \A x \in Worker : x # w => worker'[x] = worker[x]
  BY <1>1, Zenon
<1>3. WorkerOK(w)'
  BY <1>2, Zenon DEF WorkerOK, ReaderOK, ChangesOf
<1>4. \A x \in Worker : x # w => WorkerOK(x)'
  BY <1>2, KeptWorker, Zenon
<1> QED  BY <1>2, <1>3, <1>4, Zenon

\* A worker waits for the next request, or is gone.
LEMMA RestingWorker ==
  ASSUME JitInv, NEW a \in JitActor, NEW pc \in {"idle", "gone"}, a.seen <= latest,
         history' = history
  PROVE  /\ [a EXCEPT !.pc = pc] \in JitActor /\ [a EXCEPT !.pc = pc].pc = pc
         /\ ReaderOK([a EXCEPT !.pc = pc])'
<1>1. pc \in Places /\ pc \notin Reading
  BY DEF Places, Plain, Reading
<1>2. PICK b : b = [a EXCEPT !.pc = pc]
  OBVIOUS
<1>3. b \in JitActor /\ b.pc = pc /\ b.seen = a.seen
  BY <1>1, <1>2 DEF JitActor
<1>4. ReaderOK(b)'
  BY <1>1, <1>3, Zenon DEF ReaderOK, latest
<1> QED  BY <1>2, <1>3, <1>4, Zenon DEF ReaderOK, ChangesOf

\* A worker that is done with its request.
LEMMA IdleWorker ==
  ASSUME JitInv, history' = history
  PROVE  At("idle") \in JitActor /\ At("idle").pc = "idle" /\ ReaderOK(At("idle"))'
<1>1. "idle" \in Places /\ "idle" \notin Reading
  BY DEF Places, Plain, Reading
<1>2. PICK b : b = At("idle")
  OBVIOUS
<1>3. b \in JitActor /\ b.pc = "idle" /\ b.seen = 0
  BY <1>1, <1>2, AtType, Zenon
<1>4. latest \in Nat
  BY JitTypes, Zenon
<1>5. b.seen <= latest'
  BY <1>3, <1>4 DEF latest
<1>6. ReaderOK(b)'
  BY <1>1, <1>3, <1>5, Zenon DEF ReaderOK
<1> QED  BY <1>2, <1>3, <1>6, Zenon DEF ReaderOK, ChangesOf

\* vCPUs that stay where they are.
LEMMA KeptVcpus ==
  ASSUME JitInv, UNCHANGED <<mem, history, hold, vcpu>>, cursor' \in {cursor, latest},
         \A k \in Key : regions[k] = None => regions'[k] = None
  PROVE  vcpu' \in [Vcpu -> JitActor] /\ \A v \in Vcpu : VcpuOK(v)'
<1>1. vcpu \in [Vcpu -> JitActor] /\ \A v \in Vcpu : VcpuOK(v)
  BY Zenon DEF JitInv, ActorsInv
<1>2. ASSUME NEW v \in Vcpu PROVE VcpuOK(v)'
  <2>1. vcpu[v].pc \in Sleeping => vcpu[v].pc \notin {"idle", "gone"}
    BY DEF Sleeping
  <2>2. vcpu[v].pc \in Sleeping => regions[vcpu[v].key] = None /\ vcpu[v].key \in Key
    BY <1>1, <2>1, Zenon DEF VcpuOK, ReaderOK
  <2> QED  BY <2>2, KeptVcpu, Zenon
<1> QED  BY <1>1, <1>2, Zenon

\* The queue after a worker is done with a request that no queued node needs.
LEMMA WorkerQueue ==
  ASSUME QueueInv, ~stopping' => ~stopping, stack' = stack,
         \A v \in Vcpu : vcpu[v].pc = "pushing" => vcpu'[v] = vcpu[v],
         NEW w \in Worker, \A x \in Worker : x # w => worker'[x] = worker[x],
         \A k \in Key : node'[k].state = "HcqQueued" =>
           /\ node[k].state = "HcqQueued" /\ node'[k].gen = node[k].gen
           /\ ~(worker[w].pc \in Reading /\ worker[w].key = k /\ worker[w].gen = node[k].gen)
  PROVE  QueueInv'
<1> SUFFICES ASSUME ~stopping', NEW k \in Key, node'[k].state = "HcqQueued"
             PROVE  Requested(k)' \/ Compiling(k)' \/ Pushing(k)'
  BY Zenon DEF QueueInv
<1>1. /\ node[k].state = "HcqQueued" /\ node'[k].gen = node[k].gen
      /\ ~(worker[w].pc \in Reading /\ worker[w].key = k /\ worker[w].gen = node[k].gen)
  BY Zenon
<1>2. Requested(k) \/ Compiling(k) \/ Pushing(k)
  BY <1>1, Zenon DEF QueueInv
<1>3. Requested(k) => Requested(k)'
  BY <1>1, Zenon DEF Requested
<1>4. Compiling(k) => Compiling(k)'
  BY <1>1, Zenon DEF Compiling
<1>5. Pushing(k) => Pushing(k)'
  BY <1>1, Zenon DEF Pushing
<1> QED  BY <1>2, <1>3, <1>4, <1>5, Zenon

\* A worker with nothing to do ends.
LEMMA ExitStep ==
  ASSUME JitInv, NEW w \in Worker, Exit(w) PROVE JitInv'
<1>1. /\ worker[w].pc = "idle" /\ worker' = [worker EXCEPT ![w].pc = "gone"]
      /\ UNCHANGED <<mem, history, hold, node, state, stopping, stack, vcpu>>
  BY Zenon DEF Exit
<1>2. PICK b : b = [worker[w] EXCEPT !.pc = "gone"]
  OBVIOUS
<1>3. worker[w] \in JitActor /\ worker[w].seen <= latest
  BY WorkerBefore, Zenon DEF ReaderOK
<1>4. b \in JitActor /\ b.pc = "gone" /\ ReaderOK(b)'
  <2>1. PICK a \in JitActor : a = worker[w]
    BY <1>3, Zenon
  <2>2. /\ [a EXCEPT !.pc = "gone"] \in JitActor /\ [a EXCEPT !.pc = "gone"].pc = "gone"
        /\ ReaderOK([a EXCEPT !.pc = "gone"])'
    BY <1>1, <1>3, <2>1, RestingWorker, Zenon
  <2>3. b = [a EXCEPT !.pc = "gone"]
    BY <1>2, <2>1, Zenon
  <2> QED  BY <2>2, <2>3, Zenon DEF ReaderOK, ChangesOf
<1>5. worker' = [worker EXCEPT ![w] = b]
  BY <1>1, <1>2, Zenon
<1>6. /\ worker' \in [Worker -> JitActor] /\ \A x \in Worker : WorkerOK(x)'
      /\ worker'[w] = b /\ \A x \in Worker : x # w => worker'[x] = worker[x]
  BY <1>1, <1>4, <1>5, OneWorker, Zenon
<1>7. MemoryInv' /\ TablesInv'
  BY <1>1, MemoryKept, TablesKept, Zenon DEF JitInv
<1>8. UNCHANGED <<regions, cursor>>
  BY <1>1, Zenon DEF state
<1>9. vcpu' \in [Vcpu -> JitActor] /\ \A v \in Vcpu : VcpuOK(v)'
  BY <1>1, <1>8, KeptVcpus, Zenon
<1>10. StackInv'
  BY <1>1, Zenon DEF JitInv, ActorsInv, StackInv, latest
<1>11. QueueInv'
  <2>1. worker[w].pc \notin Reading
    BY <1>1, Zenon DEF Reading
  <2> QED  BY <1>1, <1>6, <2>1, WorkerQueue, Zenon DEF JitInv
<1> QED  BY <1>6, <1>7, <1>9, <1>10, <1>11, Zenon DEF JitInv, ActorsInv

\* One more piece of the code is read by a worker.
LEMMA WorkerDiscoverStep ==
  ASSUME JitConfiguration, JitInv, NEW w \in Worker, WorkerDiscover(w) PROVE JitInv'
<1>1. PICK a \in JitActor : a = worker[w]
  BY WorkerBefore, Zenon
<1>2. /\ a.pc = "discover"
      /\ UNCHANGED <<mem, history, hold, node, state, stopping, stack, vcpu>>
  BY <1>1, Zenon DEF WorkerDiscover
<1>3. PICK deps : deps = HcqDeps[a.key]
  OBVIOUS
<1>4. PICK d \in deps \ DOMAIN a.read :
        worker' = [worker EXCEPT ![w] = AfterRead(a, d, deps)]
  BY <1>1, <1>3, Zenon DEF WorkerDiscover
<1>5. "discover" \in Reading
  BY Zenon DEF Reading
<1>6. ReaderOK(a) /\ a.key \in Key
  BY <1>1, <1>2, <1>5, WorkerBefore, Zenon
<1>7. d \in Dep
  BY <1>3, <1>6, Zenon DEF JitConfiguration
<1>8. PICK b : b = AfterRead(a, d, deps)
  OBVIOUS
<1>9. /\ b \in JitActor /\ b.pc \in Reading /\ b.key = a.key /\ b.gen = a.gen
      /\ ReaderOK(b) /\ ReaderOK(b)'
  <2>1. UNCHANGED <<mem, history>> /\ ReaderOK(a) /\ a.pc = "discover"
    BY <1>2, <1>6, Zenon
  <2>2. PICK e \in Dep : e = d
    BY <1>7, Zenon
  <2>3. b = AfterRead(a, e, deps)
    BY <1>8, <2>2, Zenon
  <2>4. b \in JitActor /\ b.pc \in Reading /\ ReaderOK(b) /\ ReaderOK(b)'
    BY <2>1, <2>3, ReadMore, Zenon
  <2>5. b.key = a.key /\ b.gen = a.gen
    BY <2>3 DEF AfterRead, JitActor
  <2> QED  BY <2>4, <2>5, Zenon
<1>10. worker' = [worker EXCEPT ![w] = b]
  BY <1>4, <1>8, Zenon
<1>11. /\ worker' \in [Worker -> JitActor] /\ \A x \in Worker : WorkerOK(x)'
       /\ worker'[w] = b /\ \A x \in Worker : x # w => worker'[x] = worker[x]
  BY <1>2, <1>9, <1>10, OneWorker, Zenon
<1>12. MemoryInv' /\ TablesInv'
  BY <1>2, MemoryKept, TablesKept, Zenon DEF JitInv
<1>13. UNCHANGED <<regions, cursor>>
  BY <1>2, Zenon DEF state
<1>14. vcpu' \in [Vcpu -> JitActor] /\ \A v \in Vcpu : VcpuOK(v)'
  BY <1>2, <1>13, KeptVcpus, Zenon
<1>15. StackInv'
  BY <1>2, Zenon DEF JitInv, ActorsInv, StackInv, latest
<1>16. QueueInv'
  <2>1. ASSUME NEW k \in Key
        PROVE  /\ Requested(k) => Requested(k)'
               /\ Compiling(k) => Compiling(k)'
               /\ Pushing(k) => Pushing(k)'
    <3>1. Requested(k) => Requested(k)'
      BY <1>2, Zenon DEF Requested
    <3>2. Pushing(k) => Pushing(k)'
      BY <1>2, Zenon DEF Pushing
    <3>3. ASSUME NEW x \in Worker, worker[x].pc \in Reading
          PROVE  /\ worker'[x].pc \in Reading /\ worker'[x].key = worker[x].key
                 /\ worker'[x].gen = worker[x].gen
      BY <1>1, <1>9, <1>11, <3>3, Zenon
    <3>4. Compiling(k) => Compiling(k)'
      BY <1>2, <3>3, Zenon DEF Compiling
    <3> QED  BY <3>1, <3>2, <3>4, Zenon
  <2> QED  BY <1>2, <2>1, Zenon DEF JitInv, QueueInv
<1> QED  BY <1>11, <1>12, <1>14, <1>15, <1>16, Zenon DEF JitInv, ActorsInv

\* A worker takes the newest request, if its node still waits for it.
LEMMA PopStep ==
  ASSUME JitConfiguration, JitInv, NEW w \in Worker, Pop(w) PROVE JitInv'
<1>1. PICK r : r = stack[Len(stack)]
  OBVIOUS
<1>2. PICK a : a = [At("discover") EXCEPT !.key = r.key, !.gen = r.gen, !.seen = r.seen]
  OBVIOUS
<1>3. PICK s : s = stack
  OBVIOUS
<1>4. /\ worker[w].pc = "idle" /\ s # <<>> /\ stack' = SubSeq(s, 1, Len(s) - 1)
      /\ worker' = [worker EXCEPT ![w] = IF Current(a, node) THEN a ELSE At("idle")]
      /\ UNCHANGED <<mem, history, hold, node, state, stopping, vcpu>>
  BY <1>1, <1>2, <1>3, Zenon DEF Pop
<1>5. /\ s \in Seq(Request) /\ Len(s) <= StackCapacity
      /\ \A i \in DOMAIN s : s[i].seen <= latest
  BY <1>3, Zenon DEF JitInv, ActorsInv, StackInv
<1>6. PICK n \in Nat \ {0} : n = Len(s)
  BY <1>4, <1>5
<1>7. /\ Len(s) \in DOMAIN s /\ DOMAIN s = 1 .. n
      /\ stack' \in Seq(Request) /\ DOMAIN stack' = 1 .. (n - 1) /\ Len(stack') = n - 1
      /\ \A i \in 1 .. (n - 1) : stack'[i] = s[i] /\ i \in DOMAIN s
  BY <1>4, <1>5, <1>6
<1>8. r \in Request /\ r.seen <= latest
  <2>1. r = s[Len(s)]
    BY <1>1, <1>3, Zenon
  <2>2. s[Len(s)] \in Request
    BY <1>5, <1>7
  <2> QED  BY <1>5, <1>7, <2>1, <2>2, Zenon
<1>9. latest' = latest
  BY <1>4, Zenon DEF latest
<1>10. StackInv'
  <2>1. Len(stack') <= StackCapacity
    <3>1. StackCapacity \in Nat
      BY Zenon DEF JitConfiguration
    <3> QED  BY <1>5, <1>6, <1>7, <3>1
  <2>2. \A i \in DOMAIN stack' : stack'[i].seen <= latest'
    BY <1>5, <1>7, <1>9, Zenon
  <2> QED  BY <1>7, <2>1, <2>2, Zenon DEF StackInv
<1>11. /\ a \in JitActor /\ a.pc = "discover" /\ a.key = r.key /\ a.gen = r.gen
       /\ a.seen = r.seen /\ a.read = <<>> /\ r.key \in Key
  BY <1>2, <1>8, NothingRead DEF At, JitActor, Places, Reading, Request
<1>12. "discover" \in Reading /\ "discover" \notin {"idle", "gone"}
  BY DEF Reading
<1>13. ReaderOK(a)'
  <2>1. DOMAIN a.read = {}
    BY <1>11, NothingRead
  <2> QED  BY <1>8, <1>9, <1>11, <2>1, Zenon DEF ReaderOK
<1>14. PICK b : b = IF Current(a, node) THEN a ELSE At("idle")
  OBVIOUS
<1>15. b \in JitActor /\ ReaderOK(b)' /\ b.pc \in {"idle", "gone"} \cup Reading
  <2>1. CASE b = a
    BY <1>11, <1>12, <1>13, <2>1, Zenon
  <2>2. CASE b = At("idle")
    <3>1. At("idle") \in JitActor /\ At("idle").pc = "idle" /\ ReaderOK(At("idle"))'
      BY <1>4, IdleWorker, Zenon
    <3> QED  BY <2>2, <3>1, Zenon DEF ReaderOK, ChangesOf
  <2> QED  BY <1>14, <2>1, <2>2, Zenon
<1>16. worker' = [worker EXCEPT ![w] = b]
  BY <1>4, <1>14, Zenon
<1>17. /\ worker' \in [Worker -> JitActor] /\ \A x \in Worker : WorkerOK(x)'
       /\ worker'[w] = b /\ \A x \in Worker : x # w => worker'[x] = worker[x]
  BY <1>4, <1>15, <1>16, OneWorker, Zenon
<1>18. MemoryInv' /\ TablesInv'
  BY <1>4, MemoryKept, TablesKept, Zenon DEF JitInv
<1>19. UNCHANGED <<regions, cursor>>
  BY <1>4, Zenon DEF state
<1>20. vcpu' \in [Vcpu -> JitActor] /\ \A v \in Vcpu : VcpuOK(v)'
  BY <1>4, <1>19, KeptVcpus, Zenon
<1>21. QueueInv'
  <2> SUFFICES ASSUME ~stopping', NEW k \in Key, node'[k].state = "HcqQueued"
               PROVE  Requested(k)' \/ Compiling(k)' \/ Pushing(k)'
    BY Zenon DEF QueueInv
  <2>1. node' = node /\ stopping' = stopping /\ vcpu' = vcpu /\ worker[w].pc \notin Reading
    BY <1>4, Zenon DEF Reading
  <2>2. Requested(k) \/ Compiling(k) \/ Pushing(k)
    BY <2>1, Zenon DEF JitInv, QueueInv
  <2>3. CASE Requested(k)
    <3>1. PICK i \in DOMAIN s : s[i].key = k /\ s[i].gen = node[k].gen
      BY <1>3, <2>3, Zenon DEF Requested
    <3>2. CASE i \in 1 .. (n - 1)
      BY <1>7, <2>1, <3>1, <3>2, Zenon DEF Requested
    <3>3. CASE i = n
      <4>1. r.key = k /\ r.gen = node[k].gen
        BY <1>1, <1>3, <1>6, <3>1, <3>3, Zenon
      <4>2. CellOK(k, node[k], regions[k], index, cursor)
        BY Zenon DEF JitInv, TablesInv
      <4>3. node[k].entry # None
        <5>1. node[k].state \notin {"Empty", "CompilingLcq"}
          BY <2>1, Zenon
        <5> QED  BY <4>2, <5>1, Zenon DEF CellOK
      <4>4. Current(a, node)
        BY <1>11, <2>1, <4>1, <4>3, Zenon DEF Current
      <4>5. worker'[w] = a
        BY <1>14, <1>17, <4>4, Zenon
      <4> QED  BY <1>11, <1>12, <2>1, <4>1, <4>5, Zenon DEF Compiling
    <3>4. i \in 1 .. (n - 1) \/ i = n
      BY <1>6, <1>7
    <3> QED  BY <3>2, <3>3, <3>4, Zenon
  <2>4. CASE Compiling(k)
    BY <1>17, <2>1, <2>4, Zenon DEF Compiling
  <2>5. CASE Pushing(k)
    BY <2>1, <2>5, Zenon DEF Pushing
  <2> QED  BY <2>2, <2>3, <2>4, <2>5, Zenon
<1> QED  BY <1>10, <1>17, <1>18, <1>20, <1>21, Zenon DEF JitInv, ActorsInv

\* A queued node that reconciling leaves alone does not rest on a worker whose
\* request is no longer current.
LEMMA NotNeeded ==
  ASSUME JitInv, NEW a, ~Current(a, NodesAfter), NEW k \in Key,
         NodesAfter[k].state = "HcqQueued"
  PROVE  ~(a.key = k /\ a.gen = node[k].gen)
<1>1. NodesAfter[k] = node[k]
  BY ReconciledShrinks, Zenon
<1>2. CellOK(k, NodesAfter[k], RegionsAfter[k], index, latest)
  BY Reconciled, Zenon
<1>3. NodesAfter[k].state \notin {"Empty", "CompilingLcq"}
  BY Zenon
<1>4. NodesAfter[k].entry # None
  BY <1>2, <1>3, Zenon DEF CellOK
<1> QED  BY <1>1, <1>4, Zenon DEF Current

\* A worker is done; the others and the vCPUs that push stay where they are.
LEMMA WorkerStep ==
  ASSUME JitInv, UNCHANGED <<mem, history, hold>>, TablesInv', QueueInv', StackInv',
         NEW w \in Worker, NEW b \in JitActor, worker' = [worker EXCEPT ![w] = b],
         ReaderOK(b)', b.pc \in {"idle", "gone"},
         vcpu' \in [Vcpu -> JitActor], \A v \in Vcpu : VcpuOK(v)'
  PROVE  JitInv'
<1>1. MemoryInv'
  BY MemoryKept, Zenon DEF JitInv
<1>2. worker' \in [Worker -> JitActor] /\ \A x \in Worker : WorkerOK(x)'
  BY OneWorker, Zenon
<1> QED  BY <1>1, <1>2, Zenon DEF JitInv, ActorsInv

\* The vCPUs after a worker or the process woke them.
LEMMA AllWoken ==
  ASSUME JitInv, UNCHANGED <<mem, history, hold>>, cursor' \in {cursor, latest},
         vcpu' = Woken(vcpu),
         \A u \in Vcpu : vcpu[u].pc = "drowsy" => regions'[vcpu[u].key] = None
  PROVE  /\ vcpu' \in [Vcpu -> JitActor]
         /\ \A u \in Vcpu : VcpuOK(u)'
         /\ \A u \in Vcpu : vcpu[u].pc = "pushing" => vcpu'[u] = vcpu[u]
<1>1. vcpu \in [Vcpu -> JitActor]
  BY JitTypes, Zenon
<1>2. PICK vs \in [Vcpu -> JitActor] : vs = vcpu
  BY <1>1, Zenon
<1>3. vcpu' = Woken(vs)
  BY <1>2, Zenon
<1>4. \A u \in Vcpu : vs[u] = vcpu[u]
  BY <1>2, Zenon
<1>5. /\ vcpu' \in [Vcpu -> JitActor]
      /\ \A u \in Vcpu : VcpuOK(u)'
      /\ \A u \in Vcpu : vs[u].pc # "asleep" => vcpu'[u] = vs[u]
  BY <1>3, <1>4, WokenVcpus, Zenon
<1>6. "pushing" # "asleep"
  OBVIOUS
<1> QED  BY <1>4, <1>5, <1>6, Zenon

\* Code that a worker cannot read: the process stops, or nobody needs it.
LEMMA WorkerFailsStep ==
  ASSUME JitInv, NEW w \in Worker, WorkerFails(w) PROVE JitInv'
<1>1. PICK a \in JitActor : a = worker[w]
  BY WorkerBefore, Zenon
<1>2. /\ a.pc = "discover" /\ ~Locked /\ cursor' = latest /\ node' = NodesAfter
      /\ regions' = RegionsAfter /\ UNCHANGED <<mem, history, hold, index, bytes, stack>>
      /\ IF Current(a, NodesAfter)
         THEN /\ stopping' = TRUE /\ vcpu' = Woken(vcpu)
              /\ worker' = [worker EXCEPT ![w].pc = "gone"]
         ELSE /\ worker' = [worker EXCEPT ![w] = At("idle")]
              /\ UNCHANGED <<stopping, vcpu>>
  BY <1>1, Zenon DEF WorkerFails, Reconcile, CanReconcile
<1>3. TablesInv'
  <2>1. bytes' \in Nat
    BY <1>2, Zenon DEF JitInv, TablesInv
  <2> QED  BY <1>2, <2>1, ReconciledTables, Zenon
<1>4. StackInv'
  BY <1>2, Zenon DEF JitInv, ActorsInv, StackInv, latest
<1>5. worker \in [Worker -> JitActor] /\ a.seen <= latest
  BY <1>1, WorkerBefore, Zenon DEF ReaderOK
<1>6. /\ \A q \in Key : regions[q] = None => RegionsAfter[q] = None
      /\ \A q \in Key : NodesAfter[q].state = "HcqQueued" => NodesAfter[q] = node[q]
  BY ReconciledShrinks, Zenon
<1>7. CASE Current(a, NodesAfter)
  <2>1. PICK b : b = [a EXCEPT !.pc = "gone"]
    OBVIOUS
  <2>2. b \in JitActor /\ b.pc = "gone" /\ ReaderOK(b)'
    <3>1. /\ [a EXCEPT !.pc = "gone"] \in JitActor /\ [a EXCEPT !.pc = "gone"].pc = "gone"
          /\ ReaderOK([a EXCEPT !.pc = "gone"])'
      BY <1>2, <1>5, RestingWorker, Zenon
    <3> QED  BY <2>1, <3>1, Zenon DEF ReaderOK, ChangesOf
  <2>3. worker' = [worker EXCEPT ![w] = b]
    BY <1>1, <1>2, <1>7, <2>1, Zenon
  <2>4. \A u \in Vcpu : vcpu[u].pc = "drowsy" => regions'[vcpu[u].key] = None
    BY <1>2, Zenon DEF Locked
  <2>5. vcpu' \in [Vcpu -> JitActor] /\ \A u \in Vcpu : VcpuOK(u)'
    BY <1>2, <1>7, <2>4, AllWoken, Zenon
  <2>6. QueueInv'
    BY <1>2, <1>7, Zenon DEF QueueInv
  <2> QED  BY <1>2, <1>3, <1>4, <2>2, <2>3, <2>5, <2>6, WorkerStep, Zenon
<1>8. CASE ~Current(a, NodesAfter)
  <2>1. PICK b : b = At("idle")
    OBVIOUS
  <2>2. b \in JitActor /\ b.pc = "idle" /\ ReaderOK(b)'
    <3>1. At("idle") \in JitActor /\ At("idle").pc = "idle" /\ ReaderOK(At("idle"))'
      BY <1>2, IdleWorker, Zenon
    <3> QED  BY <2>1, <3>1, Zenon DEF ReaderOK, ChangesOf
  <2>3. worker' = [worker EXCEPT ![w] = b] /\ UNCHANGED <<stopping, vcpu>>
    BY <1>2, <1>8, <2>1, Zenon
  <2>4. vcpu' \in [Vcpu -> JitActor] /\ \A u \in Vcpu : VcpuOK(u)'
    BY <1>2, <1>6, <2>3, KeptVcpus, Zenon
  <2>5. \A k \in Key : node'[k].state = "HcqQueued" =>
          /\ node[k].state = "HcqQueued" /\ node'[k].gen = node[k].gen
          /\ ~(worker[w].pc \in Reading /\ worker[w].key = k /\ worker[w].gen = node[k].gen)
    BY <1>1, <1>2, <1>6, <1>8, NotNeeded, Zenon
  <2>6. \A x \in Worker : x # w => worker'[x] = worker[x]
    BY <1>5, <2>3, Zenon
  <2>7. QueueInv'
    BY <1>2, <2>3, <2>5, <2>6, WorkerQueue, Zenon DEF JitInv
  <2> QED  BY <1>2, <1>3, <1>4, <2>2, <2>3, <2>4, <2>7, WorkerStep, Zenon
<1> QED  BY <1>7, <1>8, Zenon

\* JitProcess::shutdown begins: nobody waits for the high tier any more.
LEMMA ShutdownStep ==
  ASSUME JitConfiguration, JitInv, Shutdown PROVE JitInv'
<1>1. /\ stopping' = TRUE /\ stack' = <<>>
      /\ UNCHANGED <<mem, history, hold, node, state, vcpu, worker>>
  BY Zenon DEF Shutdown
<1>2. MemoryInv' /\ TablesInv'
  BY <1>1, MemoryKept, TablesKept, Zenon DEF JitInv
<1>3. UNCHANGED <<regions, cursor>>
  BY <1>1, Zenon DEF state
<1>4. vcpu' \in [Vcpu -> JitActor] /\ \A u \in Vcpu : VcpuOK(u)'
  BY <1>1, <1>3, KeptVcpus, Zenon
<1>5. worker' \in [Worker -> JitActor] /\ \A x \in Worker : WorkerOK(x)'
  BY <1>1, KeptWorker, JitTypes, Zenon
<1>6. StackInv'
  <2>1. StackCapacity \in Nat
    BY Zenon DEF JitConfiguration
  <2>2. <<>> \in Seq(Request) /\ Len(<<>>) <= StackCapacity /\ DOMAIN <<>> = {}
    BY <2>1
  <2> QED  BY <1>1, <2>2, Zenon DEF StackInv
<1>7. QueueInv'
  BY <1>1, Zenon DEF QueueInv
<1> QED  BY <1>2, <1>4, <1>5, <1>6, <1>7, Zenon DEF JitInv, ActorsInv

\* Every region is retired once the workers are gone.
LEMMA RetireAllStep ==
  ASSUME JitInv, RetireAll PROVE JitInv'
<1> DEFINE all == {k \in Key : regions[k] # None}
<1>1. /\ regions' = [k \in Key |-> None] /\ vcpu' = Woken(vcpu)
      /\ node' = [k \in Key |-> IF k \in all THEN invalidated(node[k]) ELSE node[k]]
      /\ UNCHANGED <<mem, history, hold, index, cursor, bytes, stopping, stack, worker>>
  BY Zenon DEF RetireAll
<1>2. /\ node \in [Key -> Node] /\ regions \in [Key -> Region \cup {None}]
      /\ index \in [CodePage -> SUBSET Key] /\ cursor \in 0 .. latest /\ bytes \in Nat
      /\ \A q \in Key : CellOK(q, node[q], regions[q], index, cursor)
  BY Zenon DEF JitInv, TablesInv
<1>3. ASSUME NEW k \in Key
      PROVE  LET n == invalidated(node[k])
             IN  n \in Node /\ n.entry = None /\ n.state = "Empty"
  BY <1>2 DEF invalidated, Node, States
<1>4. ASSUME NEW k \in Key
      PROVE  /\ node'[k] \in Node /\ regions'[k] = None
             /\ CellOK(k, node'[k], regions'[k], index, cursor)
  <2>1. CASE k \in all
    <3>1. node'[k] = invalidated(node[k]) /\ regions'[k] = None
      BY <1>1, <2>1, Zenon
    <3>2. (node'[k].state \in {"Empty", "CompilingLcq"}) = (regions'[k] = None)
      BY <1>3, <3>1
    <3> QED  BY <1>3, <3>1, <3>2, Zenon DEF CellOK
  <2>2. CASE k \notin all
    <3>1. node'[k] = node[k] /\ regions'[k] = None /\ regions[k] = None
      BY <1>1, <2>2, Zenon
    <3> QED  BY <1>2, <3>1, Zenon
  <2> QED  BY <2>1, <2>2, Zenon
<1>5. node' \in [Key -> Node] /\ regions' \in [Key -> Region \cup {None}]
  BY <1>1, <1>2, <1>3, Zenon
<1>6. TablesInv'
  BY <1>1, <1>2, <1>4, <1>5, TablesStep, Zenon
<1>7. MemoryInv'
  BY <1>1, MemoryKept, Zenon DEF JitInv
<1>8. \A u \in Vcpu : vcpu[u].pc = "drowsy" => regions'[vcpu[u].key] = None
  <2> SUFFICES ASSUME NEW u \in Vcpu, vcpu[u].pc = "drowsy" PROVE regions'[vcpu[u].key] = None
    BY Zenon
  <2>1. vcpu[u].key \in Key
    BY VcpuBefore, Zenon
  <2> QED  BY <1>4, <2>1, Zenon
<1>9. vcpu' \in [Vcpu -> JitActor] /\ \A u \in Vcpu : VcpuOK(u)'
  BY <1>1, <1>8, AllWoken, Zenon
<1>10. worker' \in [Worker -> JitActor] /\ \A x \in Worker : WorkerOK(x)'
  BY <1>1, KeptWorker, JitTypes, Zenon
<1>11. StackInv'
  BY <1>1, Zenon DEF JitInv, ActorsInv, StackInv, latest
<1>12. QueueInv'
  <2>1. \A k \in Key : node'[k].state \in {"Empty", "CompilingLcq"}
    BY <1>4, Zenon DEF CellOK
  <2>2. "HcqQueued" \notin {"Empty", "CompilingLcq"}
    OBVIOUS
  <2> QED  BY <2>1, <2>2, Zenon DEF QueueInv
<1> QED  BY <1>6, <1>7, <1>9, <1>10, <1>11, <1>12, Zenon DEF JitInv, ActorsInv

\* close_hcq_after_capacity: every request that waits, and the one that did not
\* fit, gives its node back.
LEMMA ClosedStep ==
  ASSUME JitConfiguration, JitInv, NEW w \in Worker, NEW a \in JitActor, a = worker[w],
         Closed(a), worker' = [worker EXCEPT ![w] = At("idle")], vcpu' = Woken(vcpu),
         ~Locked, bytes' \in Nat,
         UNCHANGED <<mem, history, hold, regions, index, cursor, stopping>>
  PROVE  JitInv'
<1> DEFINE given == {<<a.key, a.gen>>} \cup {<<stack[i].key, stack[i].gen>> : i \in DOMAIN stack}
<1>1. /\ stack' = <<>>
      /\ node' = [k \in Key |-> IF <<k, node[k].gen>> \in given
                                THEN Back(node[k], FALSE) ELSE node[k]]
  BY Zenon DEF Closed, Back
<1>2. /\ node \in [Key -> Node] /\ regions \in [Key -> Region \cup {None}]
      /\ index \in [CodePage -> SUBSET Key] /\ cursor \in 0 .. latest
      /\ \A q \in Key : CellOK(q, node[q], regions[q], index, cursor)
      /\ worker \in [Worker -> JitActor]
  BY Zenon DEF JitInv, TablesInv, ActorsInv
<1>3. ASSUME NEW k \in Key
      PROVE  LET m == Back(node[k], FALSE)
             IN  /\ m \in Node /\ m.entry = node[k].entry /\ m.state # "HcqQueued"
                 /\ (m.state \in {"Empty", "CompilingLcq"})
                      = (node[k].state \in {"Empty", "CompilingLcq"})
  <2>1. PICK n \in Node : n = node[k]
    BY <1>2, Zenon
  <2>2. PICK m : m = Back(n, FALSE)
    OBVIOUS
  <2>3. /\ m \in Node /\ m.entry = n.entry /\ m.state # "HcqQueued"
        /\ (m.state \in {"Empty", "CompilingLcq"}) = (n.state \in {"Empty", "CompilingLcq"})
    BY <2>2, GivenBack
  <2> QED  BY <2>1, <2>2, <2>3, Zenon
<1> HIDE DEF given
<1>4. ASSUME NEW k \in Key
      PROVE  /\ node'[k] \in Node /\ CellOK(k, node'[k], regions[k], index, cursor)
             /\ node'[k].state = "HcqQueued" =>
                  node'[k] = node[k] /\ <<k, node[k].gen>> \notin given
  <2>1. CASE <<k, node[k].gen>> \in given
    <3>1. node'[k] = Back(node[k], FALSE)
      BY <1>1, <2>1, Zenon
    <3>2. CellOK(k, node[k], regions[k], index, cursor)
      BY <1>2, Zenon
    <3>3. CellOK(k, Back(node[k], FALSE), regions[k], index, cursor)
      BY <1>3, <3>2, CellRestated, Zenon
    <3> QED  BY <1>3, <3>1, <3>3, Zenon
  <2>2. CASE <<k, node[k].gen>> \notin given
    BY <1>1, <1>2, <2>2, Zenon
  <2> QED  BY <2>1, <2>2, Zenon
<1>5. TablesInv'
  <2>1. node' \in [Key -> Node]
    BY <1>1, <1>2, <1>3, Zenon
  <2> QED  BY <1>2, <1>4, <2>1, TablesStep, Zenon
<1>6. \A u \in Vcpu : vcpu[u].pc = "drowsy" => regions'[vcpu[u].key] = None
  BY Zenon DEF Locked
<1>7. /\ vcpu' \in [Vcpu -> JitActor] /\ \A u \in Vcpu : VcpuOK(u)'
      /\ \A u \in Vcpu : vcpu[u].pc = "pushing" => vcpu'[u] = vcpu[u]
  BY <1>6, AllWoken, Zenon
<1>8. StackInv'
  <2>1. StackCapacity \in Nat
    BY Zenon DEF JitConfiguration
  <2>2. <<>> \in Seq(Request) /\ Len(<<>>) <= StackCapacity /\ DOMAIN <<>> = {}
    BY <2>1
  <2> QED  BY <1>1, <2>2, Zenon DEF StackInv
<1>9. QueueInv'
  <2> SUFFICES ASSUME ~stopping', NEW k \in Key, node'[k].state = "HcqQueued"
               PROVE  Requested(k)' \/ Compiling(k)' \/ Pushing(k)'
    BY Zenon DEF QueueInv
  <2>1. node'[k] = node[k] /\ <<k, node[k].gen>> \notin given
    BY <1>4, Zenon
  <2>2. Requested(k) \/ Compiling(k) \/ Pushing(k)
    BY <2>1, Zenon DEF JitInv, QueueInv
  <2>3. ~Requested(k)
    BY <2>1, Zenon DEF Requested, given
  <2>4. ~(a.key = k /\ a.gen = node[k].gen)
    BY <2>1, Zenon DEF given
  <2>5. Compiling(k) => Compiling(k)'
    <3>1. \A x \in Worker : x # w => worker'[x] = worker[x]
      BY <1>2, Zenon
    <3> QED  BY <2>1, <2>4, <3>1, Zenon DEF Compiling
  <2>6. Pushing(k) => Pushing(k)'
    BY <1>7, <2>1, Zenon DEF Pushing
  <2> QED  BY <2>2, <2>3, <2>5, <2>6, Zenon
<1>10. At("idle") \in JitActor /\ At("idle").pc = "idle" /\ ReaderOK(At("idle"))'
  BY IdleWorker, Zenon
<1>11. PICK b \in JitActor : b = At("idle")
  BY <1>10, Zenon
<1>12. worker' = [worker EXCEPT ![w] = b] /\ b.pc = "idle" /\ ReaderOK(b)'
  BY <1>10, <1>11, Zenon DEF ReaderOK, ChangesOf
<1> QED  BY <1>5, <1>7, <1>8, <1>9, <1>12, WorkerStep, Zenon

\* The locked tail of compile_hcq.
LEMMA PublishHcqStep ==
  ASSUME JitConfiguration, JitInv, NEW w \in Worker, PublishHcq(w) PROVE JitInv'
<1>1. PICK a \in JitActor : a = worker[w]
  BY WorkerBefore, Zenon
<1> DEFINE k == a.key
           stale == affects(a.seen, DOMAIN a.read)
<1>2. /\ a.pc = "compiled" /\ ~Locked /\ bytes' = bytes + 1
      /\ worker' = [worker EXCEPT ![w] = At("idle")]
      /\ UNCHANGED <<mem, history, hold, stopping>>
  BY <1>1, Zenon DEF PublishHcq, CanReconcile
<1>3. \/ Closed(a) /\ vcpu' = Woken(vcpu) /\ UNCHANGED <<regions, index, cursor>>
      \/ /\ cursor' = latest /\ stack' = stack
         /\ \/ /\ stopping \/ ~Current(a, NodesAfter)
               /\ node' = NodesAfter /\ regions' = RegionsAfter
               /\ UNCHANGED <<index, vcpu>>
            \/ /\ Current(a, NodesAfter)
               /\ node' = [NodesAfter EXCEPT ![k].state = "Lcq", ![k].hot = TRUE]
               /\ regions' = RegionsAfter /\ vcpu' = Woken(vcpu) /\ UNCHANGED index
            \/ /\ Current(a, NodesAfter) /\ ~stale
               /\ node' = [NodesAfter EXCEPT ![k].entry = Compiled(a, "Hcq"),
                                             ![k].state = "Hcq"]
               /\ regions' = [RegionsAfter EXCEPT ![k] = Compiled(a, "Hcq")]
               /\ index' = IndexWith(a) /\ vcpu' = Woken(vcpu)
  BY <1>1, Zenon DEF PublishHcq
<1>4. bytes' \in Nat
  <2>1. bytes \in Nat
    BY Zenon DEF JitInv, TablesInv
  <2> QED  BY <1>2, <2>1
<1>5. "compiled" \in Reading
  BY Zenon DEF Reading
<1>6. ReaderOK(a) /\ a.key \in Key /\ worker \in [Worker -> JitActor]
  BY <1>1, <1>2, <1>5, WorkerBefore, Zenon
<1>7. /\ \A q \in Key : regions[q] = None => RegionsAfter[q] = None
      /\ \A q \in Key : NodesAfter[q].state = "HcqQueued" => NodesAfter[q] = node[q]
  BY ReconciledShrinks, Zenon
<1>8. CASE Closed(a) /\ vcpu' = Woken(vcpu) /\ UNCHANGED <<regions, index, cursor>>
  BY <1>1, <1>2, <1>4, <1>8, ClosedStep, Zenon
<1>9. At("idle") \in JitActor /\ At("idle").pc = "idle" /\ ReaderOK(At("idle"))'
  BY <1>2, IdleWorker, Zenon
<1>10. PICK b \in JitActor : b = At("idle")
  BY <1>9, Zenon
<1>11. worker' = [worker EXCEPT ![w] = b] /\ b.pc = "idle" /\ ReaderOK(b)'
  BY <1>2, <1>9, <1>10, Zenon DEF ReaderOK, ChangesOf
<1>12. \A x \in Worker : x # w => worker'[x] = worker[x]
  BY <1>6, <1>11, Zenon
<1>13. \A u \in Vcpu : vcpu[u].pc = "drowsy" => regions'[vcpu[u].key] = None
  BY <1>2, Zenon DEF Locked
<1>14. ASSUME stack' = stack PROVE StackInv'
  BY <1>2, <1>14, Zenon DEF JitInv, ActorsInv, StackInv, latest
<1>15. CASE /\ cursor' = latest /\ stack' = stack
            /\ stopping \/ ~Current(a, NodesAfter)
            /\ node' = NodesAfter /\ regions' = RegionsAfter
            /\ UNCHANGED <<index, vcpu>>
  <2>1. TablesInv'
    BY <1>2, <1>4, <1>15, ReconciledTables, Zenon
  <2>2. vcpu' \in [Vcpu -> JitActor] /\ \A u \in Vcpu : VcpuOK(u)'
    BY <1>2, <1>7, <1>15, KeptVcpus, Zenon
  <2>3. QueueInv'
    <3>1. CASE stopping
      BY <1>2, <3>1, Zenon DEF QueueInv
    <3>2. CASE ~Current(a, NodesAfter)
      <4>1. \A q \in Key : node'[q].state = "HcqQueued" =>
              /\ node[q].state = "HcqQueued" /\ node'[q].gen = node[q].gen
              /\ ~(worker[w].pc \in Reading /\ worker[w].key = q /\ worker[w].gen = node[q].gen)
        BY <1>1, <1>7, <1>15, <3>2, NotNeeded, Zenon
      <4> QED  BY <1>2, <1>12, <1>15, <4>1, WorkerQueue, Zenon DEF JitInv
    <3> QED  BY <1>15, <3>1, <3>2, Zenon
  <2> QED  BY <1>2, <1>11, <1>14, <1>15, <2>1, <2>2, <2>3, WorkerStep, Zenon
<1>16. ASSUME cursor' = latest, stack' = stack, vcpu' = Woken(vcpu), TablesInv',
              \A q \in Key : node'[q].state = "HcqQueued" =>
                /\ NodesAfter[q].state = "HcqQueued" /\ node'[q] = NodesAfter[q] /\ q # a.key
       PROVE  JitInv'
  <2>1. /\ vcpu' \in [Vcpu -> JitActor] /\ \A u \in Vcpu : VcpuOK(u)'
        /\ \A u \in Vcpu : vcpu[u].pc = "pushing" => vcpu'[u] = vcpu[u]
    BY <1>2, <1>13, <1>16, AllWoken, Zenon
  <2>2. \A q \in Key : node'[q].state = "HcqQueued" =>
          /\ node[q].state = "HcqQueued" /\ node'[q].gen = node[q].gen
          /\ ~(worker[w].pc \in Reading /\ worker[w].key = q /\ worker[w].gen = node[q].gen)
    BY <1>1, <1>7, <1>16, Zenon
  <2>3. QueueInv'
    BY <1>2, <1>12, <1>16, <2>1, <2>2, WorkerQueue, Zenon DEF JitInv
  <2> QED  BY <1>2, <1>11, <1>14, <1>16, <2>1, <2>3, WorkerStep, Zenon
<1>17. /\ NodesAfter \in [Key -> Node] /\ RegionsAfter \in [Key -> Region \cup {None}]
       /\ \A q \in Key : CellOK(q, NodesAfter[q], RegionsAfter[q], index, latest)
  BY Reconciled, Zenon
<1>18. PICK n \in Node : n = NodesAfter[a.key]
  BY <1>6, <1>17, Zenon
<1>19. CASE /\ cursor' = latest /\ stack' = stack /\ Current(a, NodesAfter)
            /\ node' = [NodesAfter EXCEPT ![k].state = "Lcq", ![k].hot = TRUE]
            /\ regions' = RegionsAfter /\ vcpu' = Woken(vcpu) /\ UNCHANGED index
  <2>1. PICK m : m = [n EXCEPT !.state = "Lcq", !.hot = TRUE]
    OBVIOUS
  <2>2. n.state = "HcqQueued"
    BY <1>18, <1>19, Zenon DEF Current
  <2>3. /\ m \in Node /\ m.entry = n.entry /\ m.state = "Lcq"
        /\ (m.state \in {"Empty", "CompilingLcq"}) = (n.state \in {"Empty", "CompilingLcq"})
    <3>1. m \in Node /\ m.entry = n.entry /\ m.state = "Lcq"
      BY <2>1 DEF Node, States
    <3>2. ("Lcq" \in {"Empty", "CompilingLcq"}) = ("HcqQueued" \in {"Empty", "CompilingLcq"})
      OBVIOUS
    <3> QED  BY <2>2, <3>1, <3>2, Zenon
  <2>4. node' = [NodesAfter EXCEPT ![a.key] = m]
    BY <1>6, <1>17, <1>18, <1>19, <2>1, Zenon
  <2>5. /\ node' \in [Key -> Node] /\ node'[a.key] = m
        /\ \A q \in Key : q # a.key => node'[q] = NodesAfter[q]
    BY <1>6, <1>17, <2>3, <2>4, Zenon
  <2>6. CellOK(a.key, m, RegionsAfter[a.key], index, latest)
    BY <1>6, <1>17, <1>18, <2>3, CellRestated, Zenon
  <2>7. ASSUME NEW q \in Key PROVE CellOK(q, node'[q], regions'[q], index', cursor')
    <3>1. CASE q = a.key
      BY <1>19, <2>5, <2>6, <3>1, Zenon
    <3>2. CASE q # a.key
      BY <1>17, <1>19, <2>5, <3>2, Zenon
    <3> QED  BY <3>1, <3>2, Zenon
  <2>8. latest \in 0 .. latest
    <3>1. latest \in Nat
      BY JitTypes, Zenon
    <3> QED  BY <3>1
  <2>9. index' \in [CodePage -> SUBSET Key]
    BY <1>19, Zenon DEF JitInv, TablesInv
  <2>10. TablesInv'
    BY <1>2, <1>4, <1>17, <1>19, <2>5, <2>7, <2>8, <2>9, TablesStep, Zenon
  <2>11. \A q \in Key : node'[q].state = "HcqQueued" =>
           /\ NodesAfter[q].state = "HcqQueued" /\ node'[q] = NodesAfter[q] /\ q # a.key
    BY <2>3, <2>5, Zenon
  <2> QED  BY <1>16, <1>19, <2>10, <2>11, Zenon
<1>20. CASE /\ cursor' = latest /\ stack' = stack /\ Current(a, NodesAfter) /\ ~stale
            /\ node' = [NodesAfter EXCEPT ![k].entry = Compiled(a, "Hcq"),
                                          ![k].state = "Hcq"]
            /\ regions' = [RegionsAfter EXCEPT ![k] = Compiled(a, "Hcq")]
            /\ index' = IndexWith(a) /\ vcpu' = Woken(vcpu)
  <2>1. PICK r : r = Compiled(a, "Hcq")
    OBVIOUS
  <2>2. PICK m : m = [n EXCEPT !.entry = r, !.state = "Hcq"]
    OBVIOUS
  <2>3. r \in Region
    BY <1>2, <1>6, <1>20, <2>1, CompiledFresh, Zenon
  <2>4. m \in Node /\ m.entry = r /\ m.state = "Hcq"
    BY <2>2, <2>3 DEF Node, States
  <2>5. node' = [NodesAfter EXCEPT ![a.key] = m]
    BY <1>6, <1>17, <1>18, <1>20, <2>1, <2>2, Zenon
  <2>6. /\ TablesInv'
        /\ \A q \in Key : node'[q] = IF q = a.key THEN m ELSE NodesAfter[q]
    <3>1. /\ "Hcq" \in {"Lcq", "Hcq"} /\ a.pc = "compiled" /\ UNCHANGED <<mem, history>>
          /\ ~affects(a.seen, DOMAIN a.read) /\ index' = IndexWith(a) /\ cursor' = latest
          /\ regions' = [RegionsAfter EXCEPT ![a.key] = Compiled(a, "Hcq")]
          /\ m.entry = Compiled(a, "Hcq")
      BY <1>2, <1>20, <2>1, <2>4, Zenon
    <3> QED  BY <1>4, <1>6, <2>4, <2>5, <3>1, Published, Zenon
  <2>7. \A q \in Key : node'[q].state = "HcqQueued" =>
          /\ NodesAfter[q].state = "HcqQueued" /\ node'[q] = NodesAfter[q] /\ q # a.key
    BY <2>4, <2>6, Zenon
  <2> QED  BY <1>16, <1>20, <2>6, <2>7, Zenon
<1> QED  BY <1>3, <1>8, <1>15, <1>19, <1>20, Zenon

-----------------------------------------------------------------------------
(* The invariant holds, and what follows from it.                          *)

\* An empty cache, and nothing changed yet.
LEMMA JitInitial ==
  ASSUME JitConfiguration, JitInit PROVE JitInv
<1>1. /\ history = <<>> /\ latest = 0 /\ history \in Seq(Dep)
      /\ mem \in [Dep -> Nat] /\ hold = None
  BY DEF JitInit, latest
<1>2. MemoryInv
  <2>1. ASSUME NEW d \in Dep PROVE ChangesOf(d, 0) = 0
    <3>1. ChangesOf(d, 0) \in Nat /\ ChangesOf(d, 0) <= 0
      BY ChangesType
    <3> QED  BY <3>1
  <2>2. \A d \in Dep : mem[d] = ChangesOf(d, latest) + (IF Unannounced(d) THEN 1 ELSE 0)
    <3> SUFFICES ASSUME NEW d \in Dep
                 PROVE  mem[d] = ChangesOf(d, latest) + (IF Unannounced(d) THEN 1 ELSE 0)
      OBVIOUS
    <3>1. mem[d] = 0 /\ ~Unannounced(d)
      BY <1>1, Zenon DEF JitInit, Unannounced
    <3> QED  BY <1>1, <2>1, <3>1
  <2>3. MaxChanges \in Nat
    BY Zenon DEF JitConfiguration
  <2> QED  BY <1>1, <2>2, <2>3 DEF MemoryInv, MemoryTypes
<1>3. TablesInv
  <2>1. PICK n : n = [entry |-> None, gen |-> 0, state |-> "Empty", hot |-> TRUE]
    OBVIOUS
  <2>2. n \in Node /\ n.entry = None /\ n.state = "Empty"
    BY <2>1 DEF Node, States
  <2>3. /\ node = [k \in Key |-> n] /\ regions = [k \in Key |-> None]
        /\ index = [p \in CodePage |-> {}] /\ cursor = 0 /\ bytes = 0
    BY <2>1, Zenon DEF JitInit
  <2>4. 0 \in 0 .. latest /\ 0 \in Nat /\ ("Empty" \in {"Empty", "CompilingLcq"})
    BY <1>1
  <2>5. \A k \in Key : CellOK(k, node[k], regions[k], index, cursor)
    BY <2>2, <2>3, <2>4, Zenon DEF CellOK
  <2>6. /\ node \in [Key -> Node] /\ regions \in [Key -> Region \cup {None}]
        /\ index \in [CodePage -> SUBSET Key]
    BY <2>2, <2>3, Zenon
  <2> QED  BY <2>3, <2>4, <2>5, <2>6, Zenon DEF TablesInv
<1>4. ActorsInv
  <2>1. "idle" \in Places /\ "idle" \notin Reading \cup Native \cup Sleeping
    BY DEF Places, Plain, Reading, Native, Sleeping
  <2>2. PICK b : b = At("idle")
    OBVIOUS
  <2>3. b \in JitActor /\ b.pc = "idle" /\ b.seen = 0
    BY <2>1, <2>2, AtType, Zenon
  <2>4. vcpu = [v \in Vcpu |-> b] /\ worker = [w \in Worker |-> b] /\ stack = <<>>
    BY <2>2, Zenon DEF JitInit
  <2>5. b.seen <= latest
    BY <1>1, <2>3
  <2>6. ReaderOK(b) /\ NativeOK(b)
    BY <2>1, <2>3, <2>5, Zenon DEF ReaderOK, NativeOK
  <2>7. \A v \in Vcpu : VcpuOK(v)
    BY <2>1, <2>3, <2>4, <2>6, Zenon DEF VcpuOK
  <2>8. \A w \in Worker : WorkerOK(w)
    BY <2>3, <2>4, <2>6, Zenon DEF WorkerOK
  <2>9. StackInv
    <3>1. StackCapacity \in Nat
      BY Zenon DEF JitConfiguration
    <3>2. <<>> \in Seq(Request) /\ Len(<<>>) <= StackCapacity /\ DOMAIN <<>> = {}
      BY <3>1
    <3> QED  BY <2>4, <3>2, Zenon DEF StackInv
  <2> QED  BY <2>3, <2>4, <2>7, <2>8, <2>9, Zenon DEF ActorsInv
<1>5. QueueInv
  <2>1. \A k \in Key : node[k].state = "Empty"
    BY DEF JitInit
  <2>2. "Empty" # "HcqQueued"
    OBVIOUS
  <2> QED  BY <2>1, <2>2, Zenon DEF QueueInv
<1> QED  BY <1>2, <1>3, <1>4, <1>5, Zenon DEF JitInv

\* Every step keeps the invariant.
LEMMA JitStep ==
  ASSUME JitConfiguration, JitInv, [JitNext]_jitVars PROVE JitInv'
<1>1. CASE UNCHANGED jitVars
  <2>1. UNCHANGED <<mem, history, hold, node, state, stopping, stack, vcpu, worker>>
    BY <1>1, Zenon DEF jitVars, state
  <2>2. MemoryInv' /\ TablesInv' /\ QueueInv'
    BY <2>1, MemoryKept, TablesKept, QueueKept, Zenon DEF JitInv
  <2>3. UNCHANGED <<regions, cursor>>
    BY <2>1, Zenon DEF state
  <2>4. vcpu' \in [Vcpu -> JitActor] /\ \A v \in Vcpu : VcpuOK(v)'
    BY <2>1, <2>3, KeptVcpus, Zenon
  <2>5. worker' \in [Worker -> JitActor] /\ \A x \in Worker : WorkerOK(x)'
    BY <2>1, KeptWorker, JitTypes, Zenon
  <2>6. StackInv'
    BY <2>1, Zenon DEF JitInv, ActorsInv, StackInv, latest
  <2> QED  BY <2>2, <2>4, <2>5, <2>6, Zenon DEF JitInv, ActorsInv
<1>2. ASSUME NEW p \in CodePage, ReservePage(p) PROVE JitInv'
  BY <1>2, ReservePageStep, Zenon
<1>3. CASE WritePage
  BY <1>3, WritePageStep, Zenon
<1>4. CASE CommitPage
  BY <1>4, CommitPageStep, Zenon
<1>5. ASSUME NEW s \in Span, Remap(s) PROVE JitInv'
  BY <1>5, RemapStep, Zenon
<1>6. ASSUME NEW v \in Vcpu,
             \/ Begin(v) \/ Dispatch(v) \/ Sleep(v) \/ Discover(v) \/ PublishLcq(v) \/ Abort(v)
             \/ Lease(v) \/ EnterNative(v) \/ Guard(v) \/ Chain(v) \/ Leave(v)
             \/ ReconcileExit(v) \/ Promote(v) \/ Push(v)
      PROVE  JitInv'
  BY <1>6, BeginStep, DispatchStep, SleepStep, DiscoverStep, PublishLcqStep, AbortStep,
     LeaseStep, EnterNativeStep, GuardStep, ChainStep, LeaveStep, ReconcileExitStep,
     PromoteStep, PushStep, Zenon
<1>7. ASSUME NEW w \in Worker,
             Pop(w) \/ Exit(w) \/ WorkerDiscover(w) \/ WorkerFails(w) \/ PublishHcq(w)
      PROVE  JitInv'
  BY <1>7, PopStep, ExitStep, WorkerDiscoverStep, WorkerFailsStep, PublishHcqStep, Zenon
<1>8. CASE Shutdown
  BY <1>8, ShutdownStep, Zenon
<1>9. CASE RetireAll
  BY <1>9, RetireAllStep, Zenon
<1> QED  BY <1>1, <1>2, <1>3, <1>4, <1>5, <1>6, <1>7, <1>8, <1>9, Zenon DEF JitNext

\* The inductive invariant: versions are counted changes, regions are between
\* what was consumed and what memory holds, readers and native code as above.
THEOREM JitInvariant ==
  ASSUME JitConfiguration PROVE JitSpec => []JitInv
<1>1. JitInit => JitInv
  BY JitInitial, Zenon
<1>2. JitInv /\ [JitNext]_jitVars => JitInv'
  BY JitStep, Zenon
<1> QED  BY <1>1, <1>2, PTL DEF JitSpec

\* Native code under its lease is what its pages and mappings hold now: with
\* any number of vCPUs and workers, stream capacity, dependencies and changes.
THEOREM RunsCurrentCodeSafety ==
  ASSUME JitConfiguration PROVE JitSpec => []RunsCurrentCode
<1>1. JitInv => RunsCurrentCode
  BY Zenon DEF JitInv, ActorsInv, VcpuOK, NativeOK, Native, RunsCurrentCode
<1> QED  BY <1>1, JitInvariant, PTL

\* The cache is consistent: published regions are fresh, cells, regions and
\* index agree, and no request for the high tier and no wakeup is lost.
THEOREM CacheSafety ==
  ASSUME JitConfiguration PROVE JitSpec => []CacheConsistent
<1>1. ASSUME JitInv PROVE JitTypeOK
  <2>1. /\ mem \in [Dep -> Nat] /\ history \in Seq(Dep) /\ latest \in Nat
        /\ latest <= MaxChanges /\ (hold # None => latest < MaxChanges)
        /\ \A d \in Dep : mem[d] = ChangesOf(d, latest) + (IF Unannounced(d) THEN 1 ELSE 0)
    BY <1>1, JitTypes, Zenon DEF JitInv, MemoryInv
  <2>2. MaxChanges \in Nat
    BY Zenon DEF JitConfiguration
  <2>3. ASSUME NEW d \in Dep PROVE mem[d] \in 0 .. MaxChanges
    <3>1. ChangesOf(d, latest) \in Nat /\ ChangesOf(d, latest) <= latest
      BY <2>1, ChangesType
    <3>2. CASE Unannounced(d)
      <4>1. hold # None
        BY <3>2, Zenon DEF Unannounced
      <4> QED  BY <2>1, <2>2, <3>1, <3>2, <4>1
    <3>3. CASE ~Unannounced(d)
      BY <2>1, <2>2, <3>1, <3>3
    <3> QED  BY <3>2, <3>3, Zenon
  <2>4. mem \in [Dep -> 0 .. MaxChanges] /\ Len(history) <= MaxChanges
    BY <2>1, <2>3, Zenon DEF latest
  <2>5. /\ cursor \in 0 .. latest /\ bytes \in Nat /\ Len(stack) <= StackCapacity
        /\ vcpu \in [Vcpu -> JitActor] /\ worker \in [Worker -> JitActor]
        /\ node \in [Key -> Node]
    BY <1>1, Zenon DEF JitInv, TablesInv, ActorsInv, StackInv
  <2>6. \A a \in JitActor : a.key \in Key \cup {None}
    BY DEF JitActor
  <2>7. \A n \in Node : n.state \in {"Empty", "CompilingLcq", "Lcq", "HcqQueued", "Hcq"}
    BY DEF Node, States
  <2> QED  BY <2>4, <2>5, <2>6, <2>7, Zenon DEF JitTypeOK
<1>2. ASSUME JitInv PROVE PublishedIsFresh
  <2> SUFFICES ASSUME NEW k \in Key, regions[k] # None, NEW d \in DOMAIN regions[k].vers
               PROVE  regions[k].vers[d] >= ChangesOf(d, cursor)
    BY Zenon DEF PublishedIsFresh
  <2>1. ChangesOf(d, cursor) <= regions[k].vers[d]
    BY <1>2, Zenon DEF JitInv, TablesInv, CellOK, Fresh
  <2>2. cursor \in Nat
    BY <1>2, JitTypes, Zenon
  <2>3. ChangesOf(d, cursor) \in Nat
    BY <2>2, ChangesType, Zenon
  <2>4. regions[k] \in Region
    BY <1>2, JitTypes, Zenon
  <2>5. regions[k].vers \in Versions
    BY <2>4 DEF Region
  <2>6. regions[k].vers[d] \in Nat
    BY <2>5, VersionsType, Zenon
  <2> QED  BY <2>1, <2>3, <2>6
<1>3. JitInv => CellsMatchRegions
  BY Zenon DEF JitInv, TablesInv, CellOK, CellsMatchRegions
<1>4. JitInv => QueuedHasRequest
  <2>1. Reading = {"discover", "compiled"}
    BY Zenon DEF Reading
  <2> QED  BY <2>1, Zenon DEF JitInv, QueueInv, Requested, Compiling, Pushing, QueuedHasRequest
<1>5. JitInv => NobodySleepsOnCode
  BY Zenon DEF JitInv, ActorsInv, VcpuOK, Sleeping, NobodySleepsOnCode
<1>6. JitInv => CacheConsistent
  BY <1>1, <1>2, <1>3, <1>4, <1>5, Zenon DEF CacheConsistent
<1> QED  BY <1>6, JitInvariant, PTL
=============================================================================
