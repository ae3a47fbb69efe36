------------------------------ MODULE JitCache ------------------------------
(***************************************************************************)
(* The native code cache of a guest process (cpu-jit/src/direct).          *)
(*                                                                         *)
(* vCPU threads look compiled regions up, compile a missing one at the low *)
(* tier (LCQ), enter native code under an execution lease and chain from   *)
(* region to region without a lock.  Hot regions are queued for background *)
(* workers that compile them again at the high tier (HCQ).  Meanwhile      *)
(* guest code is rewritten and remapped: every change is recorded in the   *)
(* invalidation stream, and the cache drops the regions it touches.  The   *)
(* stream is bounded, so a reader that falls behind is told its history is *)
(* lost and drops everything.                                              *)
(*                                                                         *)
(* A region is abstracted to the versions of the code it was compiled      *)
(* from: of physical pages (content) and of address spans (mapping).  A    *)
(* step that runs under the process state lock is one action.  vCPUs may   *)
(* run at any time the execution gate allows: that includes the schedules  *)
(* of the coordinator, which serves system calls between waves of slices.  *)
(***************************************************************************)
EXTENDS Naturals, Sequences, FiniteSets, Machine

CONSTANTS Key,             \* region starts
          CodePage, Span,  \* what code depends on: content and mapping
          LcqDeps, HcqDeps,\* dependencies of the region of a key, per tier
          Worker,
          StackCapacity,   \* HCQ requests that may wait
          CodeLimit,       \* max_native_code_bytes, in regions
          Capacity,        \* records the invalidation stream retains
          MaxChanges,      \* bound on changes of guest code
          MaxStarts        \* bound on dispatches by the vCPUs

Dep == CodePage \cup Span

\* What code was compiled from; compiled regions; the ring's reservation.
Versions == UNION {[deps -> Nat] : deps \in SUBSET Dep}
Region == [key : Key, tier : {"Lcq", "Hcq"}, vers : Versions]
Reservation == [page : CodePage, done : BOOLEAN]

\* Code depends on pages and spans, bounds are numbers, and None is nothing else.
JitConfiguration ==
  /\ LcqDeps \in [Key -> SUBSET Dep] /\ HcqDeps \in [Key -> SUBSET Dep]
  /\ StackCapacity \in Nat /\ MaxChanges \in Nat
  /\ None \notin Region /\ None \notin Reservation

VARIABLES
  mem,       \* version of each dependency
  history,   \* dependencies changed, in commit order; the stream keeps its end
  hold,      \* the reservation of the ring: None, or a page being rewritten and how far
  node,      \* NativeLookupNode of each key
  regions,   \* published region of each key, or None
  retired,   \* <<key, spans>> of regions that were replaced or invalidated
  index,     \* physical_dependencies: keys by page
  cursor,    \* invalidation_cursor of the process
  bytes,     \* native_bytes
  stopping,  \* the process's pending word
  failure,
  stack,     \* HCQ requests
  closed, shutdown,
  vcpu, worker,
  starts

state == <<regions, retired, index, cursor, bytes>>
jitVars == <<mem, history, hold, node, regions, retired, index, cursor, bytes, stopping, failure,
          stack, closed, shutdown, vcpu, worker, starts>>

At(pc) == [pc |-> pc, key |-> None, region |-> None, seen |-> 0, gen |-> 0, read |-> <<>>]

JitInit ==
  /\ mem = [d \in Dep |-> 0] /\ history = <<>> /\ hold = None
  /\ node = [k \in Key |-> [entry |-> None, gen |-> 0, state |-> "Empty", hot |-> TRUE]]
  /\ regions = [k \in Key |-> None] /\ retired = {} /\ index = [p \in CodePage |-> {}]
  /\ cursor = 0 /\ bytes = 0
  /\ stopping = FALSE /\ failure = FALSE
  /\ stack = <<>> /\ closed = FALSE /\ shutdown = FALSE
  /\ vcpu = [v \in Vcpu |-> At("idle")]
  /\ worker = [w \in Worker |-> At("idle")]
  /\ starts = 0

-----------------------------------------------------------------------------
(* The stream, and reconciling the cache with it.                          *)

latest == Len(history)
Lost(after) == latest - after > Capacity
Since(after) == {history[i] : i \in (after + 1) .. latest}

\* Mutant: history that fell out of the ring passes for no change.
affects_never_lost(after, deps) == ~Lost(after) /\ deps \cap Since(after) # {}

\* invalidations_since and affects_published.
affects(after, deps) == Lost(after) \/ deps \cap Since(after) # {}

SpansOf(k) == (IF regions[k] = None THEN {} ELSE DOMAIN regions[k].vers \cap Span)
              \cup UNION {r[2] : r \in {q \in retired : q[1] = k}}

\* The keys reconcile_invalidations retires: by the page index, and by the
\* spans of every region a key has or had.
Touched ==
  IF Lost(cursor) THEN Key
  ELSE (UNION {index[p] : p \in Since(cursor) \cap CodePage})
       \cup {k \in Key : SpansOf(k) \cap Since(cursor) # {}}

invalidated(n) == [entry |-> None, gen |-> n.gen + 1, state |-> "Empty", hot |-> TRUE]

Dropped == {k \in Touched : regions[k] # None}
RetiredNow(ks) == retired \cup {<<k, DOMAIN regions[k].vers \cap Span>> : k \in ks}
NodesAfter == [k \in Key |-> IF k \in Dropped THEN invalidated(node[k]) ELSE node[k]]
RegionsAfter == [k \in Key |-> IF k \in Dropped THEN None ELSE regions[k]]

\* Reading the stream takes the ring's lock, and the state lock is free
\* unless a vCPU has it between its check and its sleep.
Locked == \E v \in Vcpu : vcpu[v].pc = "drowsy"
CanReconcile == hold = None /\ ~Locked

Reconcile ==
  /\ CanReconcile
  /\ cursor' = latest
  /\ node' = NodesAfter /\ regions' = RegionsAfter /\ retired' = RetiredNow(Dropped)

-----------------------------------------------------------------------------
(* Changes of guest code.                                                  *)

leases == {v \in Vcpu : vcpu[v].pc \in {"leased", "entering", "running", "pushing"}}

\* write_bytes: the record is reserved, the bytes change once no vCPU is in
\* native code, and only then the change is announced.
ReservePage(p) ==
  /\ hold = None /\ latest < MaxChanges
  /\ hold' = [page |-> p, done |-> FALSE]
  /\ UNCHANGED <<mem, history, node, state, stopping, failure, stack, closed, shutdown, vcpu,
                 worker, starts>>

WritePage ==
  /\ hold # None /\ ~hold.done /\ leases = {}
  /\ mem' = [mem EXCEPT ![hold.page] = @ + 1]
  /\ hold' = [hold EXCEPT !.done = TRUE]
  /\ UNCHANGED <<history, node, state, stopping, failure, stack, closed, shutdown, vcpu,
                 worker, starts>>

CommitPage ==
  /\ hold # None /\ hold.done
  /\ history' = Append(history, hold.page)
  /\ hold' = None
  /\ UNCHANGED <<mem, node, state, stopping, failure, stack, closed, shutdown, vcpu, worker,
                 starts>>

\* Mutant: the mapping changes while native code holds its lease.
RemapAnyTime(s) ==
  /\ hold = None /\ latest < MaxChanges
  /\ mem' = [mem EXCEPT ![s] = @ + 1]
  /\ history' = Append(history, s)
  /\ UNCHANGED <<hold, node, state, stopping, failure, stack, closed, shutdown, vcpu, worker,
                 starts>>

\* A mapping mutation keeps the gate closed from before the change until
\* after its record is committed.
Remap(s) ==
  /\ leases = {}
  /\ hold = None /\ latest < MaxChanges
  /\ mem' = [mem EXCEPT ![s] = @ + 1]
  /\ history' = Append(history, s)
  /\ UNCHANGED <<hold, node, state, stopping, failure, stack, closed, shutdown, vcpu, worker,
                 starts>>

-----------------------------------------------------------------------------
(* vCPUs: entry_for and compile_lcq.                                       *)

To(v, pc) == vcpu' = [vcpu EXCEPT ![v].pc = pc]
Stop(v) == vcpu' = [vcpu EXCEPT ![v] = At("idle")]

\* notify_all wakes everyone who waits for a publication.
Woken(vs) == [u \in Vcpu |-> IF vs[u].pc = "asleep" THEN [vs[u] EXCEPT !.pc = "dispatch"] ELSE vs[u]]

Begin(v) ==
  /\ vcpu[v].pc = "idle" /\ starts < MaxStarts
  /\ \E k \in Key : vcpu' = [vcpu EXCEPT ![v] = [At("dispatch") EXCEPT !.key = k]]
  /\ starts' = starts + 1
  /\ UNCHANGED <<mem, history, hold, node, state, stopping, failure, stack, closed, shutdown,
                 worker>>

\* One turn of entry_for's loop.
Dispatch(v) ==
  LET k == vcpu[v].key  n == NodesAfter[k]
  IN /\ vcpu[v].pc = "dispatch"
     /\ CanReconcile
     /\ cursor' = latest /\ regions' = RegionsAfter /\ retired' = RetiredNow(Dropped)
     /\ \/ /\ failure \/ stopping
           /\ Stop(v) /\ node' = NodesAfter
        \/ /\ ~failure /\ ~stopping /\ n.entry # None
           /\ To(v, "ready") /\ node' = NodesAfter
        \/ /\ ~failure /\ ~stopping /\ n.entry = None /\ n.state = "Empty"
           /\ node' = [NodesAfter EXCEPT ![k].state = "CompilingLcq"]
           /\ vcpu' = [vcpu EXCEPT ![v] = [@ EXCEPT !.pc = "discover", !.gen = n.gen,
                                                    !.seen = latest, !.read = <<>>]]
        \/ /\ ~failure /\ ~stopping /\ n.entry = None /\ n.state # "Empty"
           /\ To(v, IF n.state = "CompilingLcq" THEN "drowsy" ELSE "broken")
           /\ node' = NodesAfter
     /\ UNCHANGED <<mem, history, hold, index, bytes, stopping, failure, stack, closed, shutdown,
                    worker, starts>>

\* The condition variable lets the state lock go.
Sleep(v) ==
  /\ vcpu[v].pc = "drowsy"
  /\ To(v, "asleep")
  /\ UNCHANGED <<mem, history, hold, node, state, stopping, failure, stack, closed, shutdown,
                 worker, starts>>

\* discover_region reads the code without any lock, one piece at a time.
AfterRead(a, d, deps) ==
  LET read == [x \in DOMAIN a.read \cup {d} |-> IF x = d THEN mem[d] ELSE a.read[x]]
  IN [a EXCEPT !.read = read, !.pc = IF DOMAIN read = deps THEN "compiled" ELSE @]

Discover(v) ==
  LET a == vcpu[v]
  IN /\ a.pc = "discover"
     /\ \/ \E d \in LcqDeps[a.key] \ DOMAIN a.read :
             vcpu' = [vcpu EXCEPT ![v] = AfterRead(a, d, LcqDeps[a.key])]
        \/ To(v, "aborting")
     /\ UNCHANGED <<mem, history, hold, node, state, stopping, failure, stack, closed, shutdown,
                    worker, starts>>

Compiled(a, tier) == [key |-> a.key, tier |-> tier, vers |-> a.read]

IndexWith(a) == [p \in CodePage |-> IF p \in DOMAIN a.read THEN index[p] \cup {a.key} ELSE index[p]]

\* Mutant: what changed while the region was compiled is not looked at.
PublishLcqUnchecked(v) ==
  LET a == vcpu[v]  k == a.key
  IN /\ a.pc = "compiled" /\ CanReconcile /\ cursor' = latest
     /\ retired' = RetiredNow(Dropped)
     /\ regions' = [RegionsAfter EXCEPT ![k] = Compiled(a, "Lcq")]
     /\ node' = [NodesAfter EXCEPT ![k].entry = Compiled(a, "Lcq"), ![k].state = "Lcq",
                                   ![k].hot = TRUE]
     /\ index' = IndexWith(a) /\ bytes' = bytes + 1
     /\ vcpu' = Woken([vcpu EXCEPT ![v].pc = "ready"])
     /\ UNCHANGED <<mem, history, hold, stopping, failure, stack, closed, shutdown, worker, starts>>

\* The locked tail of compile_lcq: too much code, a shutdown, a change that
\* touches the region (compile again from here), or publication.
PublishLcq(v) ==
  LET a == vcpu[v]  k == a.key
      owned == NodesAfter[k].gen = a.gen /\ NodesAfter[k].state = "CompilingLcq"
      stale == affects(a.seen, DOMAIN a.read)
  IN /\ a.pc = "compiled" /\ CanReconcile
     /\ bytes' = bytes + 1
     /\ \/ /\ bytes + 1 > CodeLimit
           /\ To(v, "aborting")
           /\ UNCHANGED <<node, regions, retired, index, cursor>>
        \/ /\ bytes + 1 <= CodeLimit
           /\ cursor' = latest /\ retired' = RetiredNow(Dropped)
           /\ \/ /\ stopping
                 /\ To(v, "aborting") /\ node' = NodesAfter
                 /\ regions' = RegionsAfter /\ UNCHANGED index
              \/ /\ ~stopping /\ (~owned \/ stale)
                 /\ vcpu' = IF owned
                            THEN [vcpu EXCEPT ![v] = [@ EXCEPT !.pc = "discover", !.seen = latest,
                                                               !.read = <<>>]]
                            ELSE Woken([vcpu EXCEPT ![v].pc = "dispatch"])
                 /\ node' = NodesAfter /\ regions' = RegionsAfter /\ UNCHANGED index
              \/ /\ ~stopping /\ owned /\ ~stale
                 /\ regions' = [RegionsAfter EXCEPT ![k] = Compiled(a, "Lcq")]
                 /\ node' = [NodesAfter EXCEPT ![k].entry = Compiled(a, "Lcq"),
                                               ![k].state = "Lcq", ![k].hot = TRUE]
                 /\ index' = IndexWith(a)
                 /\ vcpu' = Woken([vcpu EXCEPT ![v].pc = "ready"])
     /\ UNCHANGED <<mem, history, hold, stopping, failure, stack, closed, shutdown, worker, starts>>

\* A failed compile gives the node back, without the state lock.
Abort(v) ==
  LET a == vcpu[v]  n == node[a.key]
  IN /\ a.pc = "aborting"
     /\ node' = [node EXCEPT ![a.key].state = IF n.gen = a.gen /\ @ = "CompilingLcq" THEN "Empty"
                                              ELSE @]
     /\ vcpu' = Woken([vcpu EXCEPT ![v] = At("idle")])
     /\ UNCHANGED <<mem, history, hold, state, stopping, failure, stack, closed, shutdown, worker,
                    starts>>

-----------------------------------------------------------------------------
(* vCPUs: native execution under the lease.                                *)

Lease(v) ==
  /\ vcpu[v].pc = "ready"
  /\ To(v, "leased")
  /\ UNCHANGED <<mem, history, hold, node, state, stopping, failure, stack, closed, shutdown,
                 worker, starts>>

\* published_entry_for: the entry is looked up again under the lease.
EnterNative(v) ==
  LET k == vcpu[v].key
  IN /\ vcpu[v].pc = "leased"
     /\ Reconcile
     /\ \/ (failure \/ stopping) /\ Stop(v)
        \/ /\ ~failure /\ ~stopping /\ NodesAfter[k].entry = None
           /\ To(v, "dispatch")
        \/ /\ ~failure /\ ~stopping /\ NodesAfter[k].entry # None
           /\ vcpu' = [vcpu EXCEPT ![v] = [@ EXCEPT !.pc = "entering", !.seen = latest,
                                                    !.region = NodesAfter[k].entry]]
     /\ UNCHANGED <<mem, history, hold, index, bytes, stopping, failure, stack, closed, shutdown,
                    worker, starts>>

\* The code at every region's entry compares the stream's signal with the
\* cursor the vCPU entered with.
Guard(v) ==
  /\ vcpu[v].pc = "entering"
  /\ To(v, IF stopping \/ latest # vcpu[v].seen THEN "reconcile" ELSE "running")
  /\ UNCHANGED <<mem, history, hold, node, state, stopping, failure, stack, closed, shutdown,
                 worker, starts>>

\* A direct exit loads the target's entry cell; a miss goes to the dispatcher.
Chain(v) ==
  /\ vcpu[v].pc = "running" /\ starts < MaxStarts
  /\ starts' = starts + 1
  /\ \E k \in Key :
       vcpu' = [vcpu EXCEPT ![v] =
                  IF node[k].entry = None THEN [At("dispatch") EXCEPT !.key = k]
                  ELSE [@ EXCEPT !.pc = "entering", !.key = k, !.region = node[k].entry]]
  /\ UNCHANGED <<mem, history, hold, node, state, stopping, failure, stack, closed, shutdown,
                 worker>>

Leave(v) ==
  /\ vcpu[v].pc = "running"
  /\ Stop(v)
  /\ UNCHANGED <<mem, history, hold, node, state, stopping, failure, stack, closed, shutdown,
                 worker, starts>>

ReconcileExit(v) ==
  /\ vcpu[v].pc = "reconcile"
  /\ Reconcile
  /\ To(v, "dispatch")
  /\ UNCHANGED <<mem, history, hold, index, bytes, stopping, failure, stack, closed, shutdown,
                 worker, starts>>

\* request_hcq, called by low-tier code whose countdown has expired.
Promote(v) ==
  LET a == vcpu[v]  k == a.key
  IN /\ a.pc = "running" /\ a.region.tier = "Lcq" /\ node[k].hot
     /\ \/ /\ closed
           /\ node' = [node EXCEPT ![k].hot = FALSE]
           /\ UNCHANGED vcpu
        \/ /\ ~closed /\ node[k].state = "Lcq"
           /\ node' = [node EXCEPT ![k].state = "HcqQueued"]
           /\ vcpu' = [vcpu EXCEPT ![v].pc = "pushing", ![v].gen = node[k].gen]
     /\ UNCHANGED <<mem, history, hold, state, stopping, failure, stack, closed, shutdown, worker,
                    starts>>

\* The generation is read after the node was queued: an invalidation in
\* between shows in it.
Push(v) ==
  LET a == vcpu[v]  k == a.key
      refused == closed \/ shutdown \/ Len(stack) = StackCapacity
  IN /\ a.pc = "pushing"
     /\ \E g \in {a.gen, node[k].gen} :
          /\ stack' = IF refused THEN stack
                      ELSE Append(stack, [key |-> k, gen |-> g, seen |-> a.seen])
          /\ node' = IF refused /\ node[k].gen = g
                     THEN [node EXCEPT ![k].hot = TRUE,
                                       ![k].state = IF @ = "HcqQueued" THEN "Lcq" ELSE @]
                     ELSE node
     /\ To(v, "running")
     /\ UNCHANGED <<mem, history, hold, state, stopping, failure, closed, shutdown, worker, starts>>

-----------------------------------------------------------------------------
(* HCQ workers.                                                            *)

Current(a, nodes) ==
  nodes[a.key].gen = a.gen /\ nodes[a.key].state = "HcqQueued" /\ nodes[a.key].entry # None

\* The newest request is served first.
Pop(w) ==
  /\ worker[w].pc = "idle" /\ ~shutdown /\ ~closed /\ stack # <<>> /\ ~Locked
  /\ stack' = SubSeq(stack, 1, Len(stack) - 1)
  /\ LET r == stack[Len(stack)]
         a == [At("discover") EXCEPT !.key = r.key, !.gen = r.gen, !.seen = r.seen]
     IN worker' = [worker EXCEPT ![w] = IF Current(a, node) THEN a ELSE At("idle")]
  /\ UNCHANGED <<mem, history, hold, node, state, stopping, failure, closed, shutdown, vcpu,
                 starts>>

Exit(w) ==
  /\ worker[w].pc = "idle" /\ (shutdown \/ closed)
  /\ worker' = [worker EXCEPT ![w].pc = "gone"]
  /\ UNCHANGED <<mem, history, hold, node, state, stopping, failure, stack, closed, shutdown, vcpu,
                 starts>>

WorkerDiscover(w) ==
  LET a == worker[w]
  IN /\ a.pc = "discover"
     /\ \E d \in HcqDeps[a.key] \ DOMAIN a.read :
          worker' = [worker EXCEPT ![w] = AfterRead(a, d, HcqDeps[a.key])]
     /\ UNCHANGED <<mem, history, hold, node, state, stopping, failure, stack, closed, shutdown,
                    vcpu, starts>>

\* Code that cannot be discovered: the request is dropped if it is no longer
\* current, otherwise fail_background stops the process.
WorkerFails(w) ==
  LET a == worker[w]
  IN /\ a.pc = "discover"
     /\ Reconcile
     /\ IF Current(a, NodesAfter)
        THEN /\ failure' = TRUE /\ stopping' = TRUE
             /\ vcpu' = Woken(vcpu)
             /\ worker' = [worker EXCEPT ![w].pc = "gone"]
        ELSE /\ worker' = [worker EXCEPT ![w] = At("idle")]
             /\ UNCHANGED <<failure, stopping, vcpu>>
     /\ UNCHANGED <<mem, history, hold, index, bytes, stack, closed, shutdown, starts>>

\* close_hcq_after_capacity: promotion ends for good and every request that
\* waits gives its node back.
Closed(a) ==
  LET given == {<<a.key, a.gen>>} \cup {<<stack[i].key, stack[i].gen>> : i \in DOMAIN stack}
  IN /\ closed' = TRUE /\ stack' = <<>>
     /\ node' = [k \in Key |->
                   IF <<k, node[k].gen>> \in given
                   THEN [node[k] EXCEPT !.hot = FALSE,
                                        !.state = IF @ = "HcqQueued" THEN "Lcq" ELSE @]
                   ELSE node[k]]

\* The locked tail of compile_hcq.
PublishHcq(w) ==
  LET a == worker[w]  k == a.key
      stale == affects(a.seen, DOMAIN a.read)
  IN /\ a.pc = "compiled" /\ CanReconcile
     /\ bytes' = bytes + 1
     /\ worker' = [worker EXCEPT ![w] = At("idle")]
     /\ \/ /\ bytes + 1 > CodeLimit
           /\ Closed(a)
           /\ vcpu' = Woken(vcpu)
           /\ UNCHANGED <<regions, retired, index, cursor>>
        \/ /\ bytes + 1 <= CodeLimit
           /\ cursor' = latest
           /\ UNCHANGED <<stack, closed>>
           /\ \/ /\ stopping \/ ~Current(a, NodesAfter)
                 /\ node' = NodesAfter /\ regions' = RegionsAfter
                 /\ retired' = RetiredNow(Dropped)
                 /\ UNCHANGED <<index, vcpu>>
              \/ /\ ~stopping /\ Current(a, NodesAfter) /\ stale
                 /\ node' = [NodesAfter EXCEPT ![k].state = "Lcq", ![k].hot = TRUE]
                 /\ regions' = RegionsAfter /\ retired' = RetiredNow(Dropped)
                 /\ vcpu' = Woken(vcpu)
                 /\ UNCHANGED index
              \/ /\ ~stopping /\ Current(a, NodesAfter) /\ ~stale
                 /\ node' = [NodesAfter EXCEPT ![k].entry = Compiled(a, "Hcq"),
                                               ![k].state = "Hcq"]
                 /\ regions' = [RegionsAfter EXCEPT ![k] = Compiled(a, "Hcq")]
                 /\ retired' = RetiredNow(Dropped \cup {k})
                 /\ index' = IndexWith(a)
                 /\ vcpu' = Woken(vcpu)
     /\ UNCHANGED <<mem, history, hold, stopping, failure, shutdown, starts>>

-----------------------------------------------------------------------------
(* JitProcess::shutdown.                                                   *)

Shutdown ==
  /\ ~shutdown
  /\ stopping' = TRUE /\ shutdown' = TRUE /\ stack' = <<>>
  /\ UNCHANGED <<mem, history, hold, node, state, failure, closed, vcpu, worker, starts>>

\* Once the workers have been joined every region is retired.
RetireAll ==
  LET all == {k \in Key : regions[k] # None}
  IN /\ shutdown /\ ~Locked /\ \A w \in Worker : worker[w].pc = "gone"
     /\ \/ all # {}
        \/ \E v \in Vcpu : vcpu[v].pc = "asleep"
     /\ regions' = [k \in Key |-> None]
     /\ retired' = RetiredNow(all)
     /\ node' = [k \in Key |-> IF k \in all THEN invalidated(node[k]) ELSE node[k]]
     /\ vcpu' = Woken(vcpu)
     /\ UNCHANGED <<mem, history, hold, index, cursor, bytes, stopping, failure, stack, closed,
                    shutdown, worker, starts>>

JitNext ==
  \/ \E p \in CodePage : ReservePage(p)
  \/ WritePage \/ CommitPage
  \/ \E s \in Span : Remap(s)
  \/ \E v \in Vcpu :
       \/ Begin(v) \/ Dispatch(v) \/ Sleep(v) \/ Discover(v) \/ PublishLcq(v) \/ Abort(v)
       \/ Lease(v) \/ EnterNative(v) \/ Guard(v) \/ Chain(v) \/ Leave(v) \/ ReconcileExit(v)
       \/ Promote(v) \/ Push(v)
  \/ \E w \in Worker :
       Pop(w) \/ Exit(w) \/ WorkerDiscover(w) \/ WorkerFails(w) \/ PublishHcq(w)
  \/ Shutdown \/ RetireAll

JitSpec == JitInit /\ [][JitNext]_jitVars

-----------------------------------------------------------------------------
JitTypeOK ==
  /\ mem \in [Dep -> 0 .. MaxChanges] /\ Len(history) <= MaxChanges
  /\ \A k \in Key : node[k].state \in {"Empty", "CompilingLcq", "Lcq", "HcqQueued", "Hcq"}
  /\ cursor \in 0 .. latest /\ bytes \in Nat /\ Len(stack) <= StackCapacity
  /\ \A v \in Vcpu : vcpu[v].key \in Key \cup {None}
  /\ \A w \in Worker : worker[w].key \in Key \cup {None}

\* Changes of a dependency among the first n records of the stream.
ChangesOf(d, n) == Cardinality({i \in 1 .. n : history[i] = d})

\* A published region is as new as the changes the process has consumed: no
\* change is missed between reading the code, reading the stream and
\* publishing, at either tier and even when history was lost.
PublishedIsFresh ==
  \A k \in Key : regions[k] # None =>
    \A d \in DOMAIN regions[k].vers : regions[k].vers[d] >= ChangesOf(d, cursor)

\* Native code under its lease is what the pages and mappings it was compiled
\* from hold now, whether the vCPU was dispatched to it or chained to it
\* through a cell: writers wait for the leases, and who enters looks the
\* entry up again after every announced change.
RunsCurrentCode ==
  \A v \in Vcpu : vcpu[v].pc \in {"running", "pushing"} =>
    \A d \in DOMAIN vcpu[v].region.vers : vcpu[v].region.vers[d] = mem[d]

\* The cell native code jumps through and the region table never disagree,
\* a node being compiled has neither, and the index finds every region.
\* (So entry_for's internal error, a published state with a null cell, and
\* compile_lcq's assertion that a generation is published once never fire.)
CellsMatchRegions ==
  \A k \in Key :
    /\ node[k].entry = regions[k]
    /\ (node[k].state \in {"Empty", "CompilingLcq"}) = (regions[k] = None)
    /\ regions[k] # None => \A p \in DOMAIN regions[k].vers \cap CodePage : k \in index[p]

\* A node waits for the high tier only while a request for it is somewhere.
QueuedHasRequest ==
  ~stopping => \A k \in Key : node[k].state = "HcqQueued" =>
    \/ \E i \in DOMAIN stack : stack[i].key = k /\ stack[i].gen = node[k].gen
    \/ \E w \in Worker : worker[w].pc \in {"discover", "compiled"} /\ worker[w].key = k
                         /\ worker[w].gen = node[k].gen
    \/ \E v \in Vcpu : vcpu[v].pc = "pushing" /\ vcpu[v].key = k

\* Whoever sleeps waits for code that is not there yet.
NobodySleepsOnCode ==
  \A v \in Vcpu : vcpu[v].pc \in {"asleep", "drowsy"} => regions[vcpu[v].key] = None

\* The cache at any moment: what is published is fresh, every way to reach a
\* region leads to the same one, and no request or wakeup is lost.
CacheConsistent ==
  JitTypeOK /\ PublishedIsFresh /\ CellsMatchRegions /\ QueuedHasRequest /\ NobodySleepsOnCode
=============================================================================
