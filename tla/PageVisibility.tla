--------------------------- MODULE PageVisibility ---------------------------
(***************************************************************************)
(* The canonical guest pages that CPU threads and the GPU share.           *)
(*                                                                         *)
(* A page has one authority at a time (backing.rs).  While the CPU has it, *)
(* the bytes in the canonical backing are the newest and native code       *)
(* reaches them through a host alias whose protection follows the page's   *)
(* state.  While the GPU has it, the newest bytes are in device resources  *)
(* and in a page mirror (gpu-wgpu/visibility.rs), and whoever needs them   *)
(* on the CPU asks the GPU owner thread for a read-back.                   *)
(*                                                                         *)
(* The actors are the vCPU threads, which touch pages only under a shared  *)
(* lease of the execution gate; the host thread, which serves guest system *)
(* calls without a lease; and the GPU owner thread, which submits device   *)
(* work, stages canonical writes of its own, follows CPU writes through a  *)
(* dependency (range.rs) and serves the read-back requests.                *)
(*                                                                         *)
(* Bytes are the set of the writes they contain: every write touches bytes *)
(* of its own, so an update is lost exactly when its write is missing.     *)
(* What runs under the exclusive gate is one step: whoever else could      *)
(* touch the page is either leased, hence out, or holds the page's lock    *)
(* for one of the steps below.                                             *)
(***************************************************************************)
EXTENDS Naturals, Sequences, FiniteSets, Machine

CONSTANTS Host, Owner,  \* the system-call thread and the GPU owner thread
          Page,         \* canonical pages
          Code,         \* pages observed for executable content
          Resource,     \* device resources: the sets of pages they are backed by
          HostOps,      \* operations of the host thread
          OwnerOps,     \* operations of the owner thread
          DirtyStreak,  \* dirty snapshots after which a dependency gives up
          MaxWrites,    \* bound on the writes of a behaviour
          MaxOps        \* bounds on the operations of Host and of Owner

Actor == Vcpu \cup {Host, Owner}

\* Three kinds of actors; resources of at least one page that do not overlap;
\* operations the threads start.
PageConfiguration ==
  /\ Host \notin Vcpu /\ Owner \notin Vcpu /\ Host # Owner
  /\ Page # {} /\ Resource \subseteq (SUBSET Page) \ {{}}
  /\ \A r, s \in Resource : r \cap s # {} => r = s
  /\ HostOps \subseteq {"read", "stage", "word"}
  /\ OwnerOps \subseteq {"stage", "prepare", "sample", "capture", "follow"}
  /\ MaxWrites \in Nat

VARIABLES
  page,      \* CanonicalPageInner and its locked state, per page
  mirror,    \* PageMirror per page, or None
  unread,    \* device writes of a resource not yet written back
  act,       \* what each actor is doing
  leased,    \* vCPUs that hold the shared lease
  pending,   \* the actor whose exclusive transition closed admission, or None
  ring,      \* the actor that holds an invalidation reservation, or None
  requests,  \* CpuVisibility messages in the owner's channel
  batch,     \* pages staged by Host and Owner: PendingCanonicalPageWrite
  dep,       \* the owner's CanonicalCpuWriteDependency on all pages, or None
  point,     \* device visibility points handed out
  writes,    \* writes performed so far
  truth,     \* ghost: the writes each page must show
  loose,     \* ghost: the writes made under no lock and no lease
  ops        \* operations started by Host and by Owner

vars == <<page, mirror, unread, act, leased, pending, ring, requests, batch,
          dep, point, writes, truth, loose, ops>>

Idle == [pc |-> "idle", op |-> "none", pages |-> {}, todo |-> {}, at |-> 0,
         epoch |-> 0, cur |-> None, reply |-> None]

Init ==
  /\ page = [p \in Page |-> [vis |-> "Clean", at |-> 0, epoch |-> 0, gen |-> 0,
                             armed |-> FALSE, dirty |-> 0, prot |-> "Read",
                             bytes |-> {}]]
  /\ mirror = [p \in Page |-> None]
  /\ unread = [r \in Resource |-> {}]
  /\ act = [a \in Actor |-> Idle]
  /\ leased = {} /\ pending = None /\ ring = None /\ requests = <<>>
  /\ batch = [a \in {Host, Owner} |-> <<>>]
  /\ dep = None /\ point = 0 /\ writes = 0
  /\ truth = [p \in Page |-> {}] /\ loose = {}
  /\ ops = [a \in {Host, Owner} |-> 0]

CpuVisible == {"Clean", "CpuNewer"}
Failed == act[Owner].pc = "failed"

-----------------------------------------------------------------------------
(* Transitions of one locked page.                                         *)

\* Host protection of a direct alias whose mapping allows reads and writes.
protection(vis, armed) ==
  IF vis \notin CpuVisible THEN "None"
  ELSE IF vis = "CpuNewer" /\ ~armed THEN "ReadWrite" ELSE "Read"

publish_visibility(g, vis) ==
  [g EXCEPT !.vis = vis, !.epoch = @ + 1, !.prot = protection(vis, g.armed)]

publish_cpu_dirty(g) ==
  IF ~g.armed THEN g
  ELSE [g EXCEPT !.armed = FALSE, !.dirty = @ + 1, !.prot = protection(g.vis, FALSE)]

revoke_direct_access(g) == [g EXCEPT !.prot = "None", !.epoch = @ + 1]

\* Mutant: arming forgets to narrow the protection of the aliases.
arm_without_protecting(g) == [g EXCEPT !.armed = TRUE]

arm_cpu_dirty_observer(g) ==
  IF g.armed THEN g ELSE [g EXCEPT !.armed = TRUE, !.prot = protection(g.vis, TRUE)]

\* The second lock of prepare_cpu_write: authority was checked outside it.
take_cpu_authority(g) ==
  IF g.vis \notin CpuVisible
  THEN IF g.vis = "Invalid" THEN g ELSE publish_visibility(g, "Conflicting")
  ELSE publish_cpu_dirty(IF g.vis = "Clean" THEN publish_visibility(g, "CpuNewer") ELSE g)

\* The last lock of ensure_cpu_visible once the read-back has succeeded.
write_back(g, bytes) ==
  publish_visibility(
    publish_cpu_dirty([g EXCEPT !.bytes = bytes, !.gen = @ + 1]), "Clean")

\* prepare_resident_device_access and what it calls on one page.
prepare_resident(g, writing) ==
  CASE g.vis = "Clean" /\ ~writing -> g
    [] g.vis = "Conflicting"       -> publish_visibility(g, "Conflicting")
    [] g.vis \in CpuVisible /\ (writing \/ g.vis = "CpuNewer") ->
         publish_visibility(revoke_direct_access(g), "Clean")
    [] OTHER -> g

publish_device_write(g, at) ==
  LET revoked == revoke_direct_access(g)
  IN CASE g.vis \in {"Clean", "GpuNewer"} ->
            [publish_visibility(revoked, "GpuNewer") EXCEPT !.at = at]
       [] g.vis \in {"CpuNewer", "Conflicting"} -> publish_visibility(revoked, "Conflicting")
       [] OTHER -> revoked

-----------------------------------------------------------------------------
(* Making pages visible to the CPU: ensure_cpu_visible, for every page of  *)
(* act[a].todo.  The page is unlocked while the read-back is under way.    *)

\* What follows once the last page is visible.
Prepared(a) ==
  CASE act[a].op = "load"              -> "run"
    [] act[a].op \in {"store", "word"} -> "own"
    [] OTHER                           -> "gate"

Visible(a, p) ==
  LET left == act[a].todo \ {p}
      next == IF left = {} THEN Prepared(a) ELSE "look"
  IN [act EXCEPT ![a] = IF next = "run" THEN [Idle EXCEPT !.pc = "run"]
                        ELSE [@ EXCEPT !.pc = next, !.todo = left, !.reply = None,
                                       !.at = 0, !.epoch = 0]]

\* The operation is given up: a guest fault, a failed system call, or the
\* failure that stops the owner thread.
Refused(a) ==
  /\ act' = [act EXCEPT ![a] = [Idle EXCEPT !.pc = IF a = Owner THEN "failed" ELSE "idle"]]
  /\ leased' = leased \ {a}
  /\ ring' = IF ring = a THEN None ELSE ring
  /\ batch' = IF a \in DOMAIN batch THEN [batch EXCEPT ![a] = <<>>] ELSE batch

\* First lock: nothing to do, an unusable page, or a read-back to ask for.
Look(a) ==
  /\ act[a].pc = "look"
  /\ \E p \in act[a].todo :
       LET g == page[p]
       IN \/ /\ g.vis \in CpuVisible
             /\ act' = Visible(a, p)
             /\ UNCHANGED <<leased, ring, batch>>
          \/ /\ g.vis \in {"Conflicting", "Invalid"}
             /\ Refused(a)
          \/ /\ g.vis = "GpuNewer"
             /\ act' = [act EXCEPT ![a].pc = "ask", ![a].cur = p,
                                   ![a].epoch = g.epoch, ![a].at = g.at]
             /\ UNCHANGED <<leased, ring, batch>>
  /\ UNCHANGED <<page, mirror, unread, pending, requests, dep, point, writes, truth, loose, ops>>

Complete(p, at) == mirror[p] # None /\ mirror[p].completed >= at

\* make_cpu_visible of the coordinator: a mirror already completed is taken
\* on the spot, for any other the owner is asked and its answer awaited.
Ask(a) ==
  /\ act[a].pc = "ask"
  /\ IF Complete(act[a].cur, act[a].at)
     THEN act' = [act EXCEPT ![a].pc = "take"] /\ UNCHANGED requests
     ELSE IF Failed
     THEN act' = [act EXCEPT ![a].pc = "relock"] /\ UNCHANGED requests
     ELSE /\ act' = [act EXCEPT ![a].pc = "asked"]
          /\ requests' = Append(requests, a)
  /\ UNCHANGED <<page, mirror, unread, leased, pending, ring, batch, dep, point, writes, truth, loose, ops>>

\* take_completed_page locks the mirrors again and removes the page's.
Take(a) ==
  LET p == act[a].cur
  IN /\ act[a].pc = "take"
     /\ act' = [act EXCEPT ![a].pc = "relock",
                           ![a].reply = IF Complete(p, act[a].at) THEN mirror[p].bytes ELSE None]
     /\ mirror' = IF Complete(p, act[a].at) THEN [mirror EXCEPT ![p] = None] ELSE mirror
     /\ UNCHANGED <<page, unread, leased, pending, ring, requests, batch, dep, point, writes,
                    truth, loose, ops>>

\* Mutant: the read-back reaches only the page that was asked for.
ServeAskedPage ==
  LET a == Head(requests)
      p == act[a].cur
      demanded == {r \in Resource : p \in r /\ unread[r] # {}}
  IN /\ act[Owner].pc = "idle" /\ requests # <<>> /\ mirror[p] # None
     /\ requests' = Tail(requests)
     /\ act' = [act EXCEPT ![a].pc = "relock",
                           ![a].reply = mirror[p].bytes \cup UNION {unread[r] : r \in demanded}]
     /\ mirror' = [mirror EXCEPT ![p] = None]
     /\ unread' = [r \in Resource |-> IF r \in demanded THEN {} ELSE unread[r]]
     /\ UNCHANGED <<page, leased, pending, ring, batch, dep, point, writes, truth, loose, ops>>

\* The owner serves one request between two pieces of work.  Resources with
\* device writes on the page are read back into the mirrors of all their
\* pages; the page's own mirror is handed out.
Serve ==
  LET a == Head(requests)
      p == act[a].cur
      demanded == {r \in Resource : p \in r /\ unread[r] # {}}
      touched == UNION demanded
      found(q) == UNION {unread[r] : r \in {d \in demanded : q \in d}}
      ok == \A q \in touched \cup {p} : mirror[q] # None
  IN /\ act[Owner].pc = "idle" /\ requests # <<>>
     /\ requests' = Tail(requests)
     /\ act' = [act EXCEPT ![a].pc = "relock",
                           ![a].reply = IF ok THEN mirror[p].bytes \cup found(p) ELSE None]
     /\ mirror' = IF ~ok THEN mirror
                  ELSE [q \in Page |->
                          IF q = p THEN None
                          ELSE IF q \in touched
                          THEN [bytes |-> mirror[q].bytes \cup found(q),
                                completed |-> IF mirror[q].completed > act[a].at
                                              THEN mirror[q].completed ELSE act[a].at]
                          ELSE mirror[q]]
     /\ unread' = IF ok THEN [r \in Resource |-> IF r \in demanded THEN {} ELSE unread[r]]
                  ELSE unread
     /\ UNCHANGED <<page, leased, pending, ring, batch, dep, point, writes, truth, loose, ops>>

\* A stopped owner answers every request with an error.
ServeStopped ==
  /\ Failed /\ requests # <<>>
  /\ requests' = Tail(requests)
  /\ act' = [act EXCEPT ![Head(requests)].pc = "relock"]
  /\ UNCHANGED <<page, mirror, unread, leased, pending, ring, batch, dep, point, writes,
                 truth, loose, ops>>

\* Mutant: the answer is stored whatever happened to the page meanwhile.
RelockUnchecked(a) ==
  LET p == act[a].cur  g == page[p]
  IN /\ act[a].pc = "relock"
     /\ page' = [page EXCEPT ![p] = IF act[a].reply = None
                                    THEN publish_visibility(g, "Invalid")
                                    ELSE write_back(g, act[a].reply)]
     /\ IF act[a].reply = None THEN Refused(a)
        ELSE act' = Visible(a, p) /\ UNCHANGED <<leased, ring, batch>>
     /\ UNCHANGED <<mirror, unread, pending, requests, dep, point, writes, truth, loose, ops>>

\* Second lock: the answer counts only if the page did not move meanwhile.
Relock(a) ==
  LET p == act[a].cur  g == page[p]
  IN /\ act[a].pc = "relock"
     /\ \/ /\ g.epoch # act[a].epoch /\ g.vis \in CpuVisible
           /\ act' = Visible(a, p)
           /\ UNCHANGED <<page, leased, ring, batch>>
        \/ /\ g.epoch # act[a].epoch /\ g.vis = "GpuNewer"
           /\ act' = [act EXCEPT ![a].pc = "look", ![a].reply = None]
           /\ UNCHANGED <<page, leased, ring, batch>>
        \/ /\ g.epoch # act[a].epoch /\ g.vis \in {"Conflicting", "Invalid"}
           /\ Refused(a)
           /\ UNCHANGED page
        \/ /\ g.epoch = act[a].epoch /\ act[a].reply = None
           /\ page' = [page EXCEPT ![p] = publish_visibility(g, "Invalid")]
           /\ Refused(a)
        \/ /\ g.epoch = act[a].epoch /\ act[a].reply # None
           /\ page' = [page EXCEPT ![p] = write_back(g, act[a].reply)]
           /\ act' = Visible(a, p)
           /\ UNCHANGED <<leased, ring, batch>>
     /\ UNCHANGED <<mirror, unread, pending, requests, dep, point, writes, truth, loose, ops>>

\* The second lock of prepare_cpu_write.
Own(a) ==
  LET p == act[a].cur  g == page[p]
  IN /\ act[a].pc = "own"
     /\ page' = [page EXCEPT ![p] = take_cpu_authority(g)]
     /\ IF g.vis \in CpuVisible
        THEN /\ act' = [act EXCEPT ![a] = IF a \in Vcpu THEN [Idle EXCEPT !.pc = "run"]
                                          ELSE [@ EXCEPT !.pc = "word"]]
             /\ UNCHANGED <<leased, ring, batch>>
        ELSE Refused(a)
     /\ UNCHANGED <<mirror, unread, pending, requests, dep, point, writes, truth, loose, ops>>

-----------------------------------------------------------------------------
(* vCPUs: a slice under the shared lease.                                  *)

\* System calls are served between the waves of slices: run_parallel_wave
\* returns once every slice it dispatched is back.
Acquire(v) ==
  /\ act[v].pc = "idle" /\ act[Host].pc = "idle" /\ pending = None
  /\ leased' = leased \cup {v}
  /\ act' = [act EXCEPT ![v].pc = "enter"]
  /\ UNCHANGED <<page, mirror, unread, pending, ring, requests, batch, dep, point, writes,
                 truth, loose, ops>>

\* The compiled entry is looked up under the lease, after the invalidations
\* published so far: that needs the ring's lock.
Enter(v) ==
  /\ act[v].pc = "enter" /\ ring = None
  /\ act' = [act EXCEPT ![v].pc = "run"]
  /\ UNCHANGED <<page, mirror, unread, leased, pending, ring, requests, batch, dep, point,
                 writes, truth, loose, ops>>

Release(v) ==
  /\ act[v].pc = "run"
  /\ leased' = leased \ {v}
  /\ act' = [act EXCEPT ![v] = Idle]
  /\ UNCHANGED <<page, mirror, unread, pending, ring, requests, batch, dep, point, writes,
                 truth, loose, ops>>

Written(p) ==
  /\ writes < MaxWrites
  /\ writes' = writes + 1
  /\ truth' = [truth EXCEPT ![p] = @ \cup {writes + 1}]

\* A native store through the alias.
Store(v) ==
  /\ act[v].pc = "run"
  /\ \E p \in Page :
       /\ page[p].prot = "ReadWrite"
       /\ Written(p)
       /\ page' = [page EXCEPT ![p].bytes = @ \cup {writes + 1}]
  /\ UNCHANGED <<mirror, unread, act, leased, pending, ring, requests, batch, dep, point,
                 loose, ops>>

\* An access its protection refuses; resolve_direct_fault keeps the lease.
Fault(v) ==
  /\ act[v].pc = "run"
  /\ \E p \in Page, op \in {"load", "store"} :
       /\ page[p].prot # "ReadWrite" /\ (op = "load" => page[p].prot = "None")
       /\ act' = [act EXCEPT ![v] = [@ EXCEPT !.pc = "look", !.op = op, !.pages = {p},
                                              !.todo = {p}, !.cur = p]]
  /\ UNCHANGED <<page, mirror, unread, leased, pending, ring, requests, batch, dep, point,
                 writes, truth, loose, ops>>
-----------------------------------------------------------------------------
(* Operations of the host and of the owner thread.                         *)

PagesOf(op) ==
  CASE op = "word"                  -> {{p} : p \in Page}
    [] op \in {"prepare", "sample"} -> Resource
    [] op \in {"capture", "follow"} -> {Page}
    [] OTHER                        -> (SUBSET Page) \ {{}}

FirstPc(a, op, pages) ==
  CASE op \in {"prepare", "sample", "capture", "follow"} -> "gate"
    [] a = Host /\ op = "stage" /\ pages \cap Code # {}  -> "ring"
    [] OTHER                                             -> "look"

\* A system call reads, writes a word or writes bytes; the owner stages a
\* canonical write, submits device work that writes or reads a resource, or
\* captures or follows its dependency on CPU writes.
Start(a) ==
  /\ act[a].pc = "idle" /\ ops[a] < MaxOps[a]
  /\ a = Host => \A v \in Vcpu : act[v].pc = "idle"
  /\ \E op \in (IF a = Host THEN HostOps ELSE OwnerOps) : \E ps \in PagesOf(op) :
       /\ op = "capture" => dep = None
       /\ op = "follow" => dep # None
       /\ act' = [act EXCEPT ![a] = [@ EXCEPT !.pc = FirstPc(a, op, ps), !.op = op,
                                              !.pages = ps, !.todo = ps,
                                              !.cur = CHOOSE p \in ps : TRUE]]
  /\ ops' = [ops EXCEPT ![a] = @ + 1]
  /\ UNCHANGED <<page, mirror, unread, leased, pending, ring, requests, batch, dep, point,
                 writes, truth, loose>>

\* write_bytes reserves the invalidation of the executable pages it will
\* write before it stages anything, and keeps it until the commit.
Reserve ==
  /\ act[Host].pc = "ring" /\ ring = None
  /\ ring' = Host
  /\ act' = [act EXCEPT ![Host].pc = "look"]
  /\ UNCHANGED <<page, mirror, unread, leased, pending, requests, batch, dep, point, writes,
                 truth, loose, ops>>

\* write_cpu_prepared of a system call: no lock and no lease is held.
Word ==
  LET p == act[Host].cur
  IN /\ act[Host].pc = "word"
     /\ Written(p)
     /\ page' = [page EXCEPT ![p].bytes = @ \cup {writes + 1}]
     /\ loose' = loose \cup {writes + 1}
     /\ act' = [act EXCEPT ![Host] = Idle]
     /\ UNCHANGED <<mirror, unread, leased, pending, ring, requests, batch, dep, point, ops>>

\* acquire_exclusive closes admission; the step that needs the gate runs
\* once every lease is back.
Close(a) ==
  /\ act[a].pc = "gate" /\ pending = None
  /\ pending' = a
  /\ UNCHANGED <<page, mirror, unread, act, leased, ring, requests, batch, dep, point, writes,
                 truth, loose, ops>>

Exclusive(a, op) ==
  /\ act[a].pc = "gate" /\ act[a].op = op /\ pending = a /\ leased = {}
  /\ pending' = None

Spoilt(ps) == \E p \in ps : page[p].vis \in {"Conflicting", "Invalid"}
Readable(ps) == \A p \in ps : page[p].vis \in CpuVisible

\* Quiescent reads and snapshots start over when a page has gone back to
\* the device since it was prepared.
Again(a) == act' = [act EXCEPT ![a].pc = "look", ![a].todo = act[a].pages]

Finish(a) ==
  /\ act' = [act EXCEPT ![a] = Idle]
  /\ ring' = IF ring = a THEN None ELSE ring

ReadRange(a) ==
  LET ps == act[a].pages
  IN /\ Exclusive(a, "read")
     /\ \/ Spoilt(ps) /\ Refused(a)
        \/ ~Spoilt(ps) /\ ~Readable(ps) /\ Again(a) /\ UNCHANGED <<leased, ring, batch>>
        \/ Readable(ps) /\ Finish(a) /\ UNCHANGED <<leased, batch>>
     /\ UNCHANGED <<page, mirror, unread, requests, dep, point, writes, truth, loose, ops>>

Staged(g) == [gen |-> g.gen, epoch |-> g.epoch, dirty |-> g.dirty, bytes |-> g.bytes]

Stage(a) ==
  LET ps == act[a].pages
  IN /\ Exclusive(a, "stage")
     /\ \/ /\ Spoilt(ps) /\ Refused(a)
           /\ UNCHANGED page
        \/ /\ ~Spoilt(ps) /\ ~Readable(ps) /\ Again(a)
           /\ UNCHANGED <<page, leased, ring, batch>>
        \/ /\ Readable(ps)
           /\ batch' = [batch EXCEPT ![a] = [p \in ps |-> Staged(page[p])]]
           /\ page' = [p \in Page |-> IF p \in ps THEN arm_cpu_dirty_observer(page[p])
                                      ELSE page[p]]
           /\ act' = [act EXCEPT ![a].op = "commit"]
           /\ UNCHANGED <<leased, ring>>
     /\ UNCHANGED <<mirror, unread, requests, dep, point, writes, truth, loose, ops>>

Unmoved(a) ==
  \A p \in act[a].pages :
    LET g == page[p]  s == batch[a][p]
    IN g.gen = s.gen /\ g.epoch = s.epoch /\ g.dirty = s.dirty /\ g.vis \in CpuVisible

\* All pages are checked before the first one is written.
Commit(a) ==
  /\ Exclusive(a, "commit")
  /\ \/ /\ ~Unmoved(a) /\ Refused(a)
        /\ UNCHANGED <<page, writes, truth>>
     \/ /\ Unmoved(a) /\ writes < MaxWrites
        /\ writes' = writes + 1
        /\ truth' = [p \in Page |-> IF p \in act[a].pages THEN truth[p] \cup {writes + 1}
                                    ELSE truth[p]]
        /\ page' = [p \in Page |->
                      IF p \notin act[a].pages THEN page[p]
                      ELSE [publish_cpu_dirty([page[p] EXCEPT !.vis = "CpuNewer"]) EXCEPT
                              !.bytes = batch[a][p].bytes \cup {writes + 1},
                              !.gen = @ + 1, !.epoch = @ + 1]]
        /\ batch' = [batch EXCEPT ![a] = <<>>]
        /\ Finish(a)
        /\ UNCHANGED leased
  /\ UNCHANGED <<mirror, unread, requests, dep, point, loose, ops>>

\* prepare_accesses and the host submission of work that writes a resource.
PrepareWrite ==
  LET r == act[Owner].pages
      spoilt == {p \in r : page[p].vis \in {"Conflicting", "Invalid"}}
  IN /\ Exclusive(Owner, "prepare") /\ writes < MaxWrites
     /\ page' = [p \in Page |-> IF p \in r THEN prepare_resident(page[p], TRUE) ELSE page[p]]
     /\ mirror' = [p \in Page |-> IF p \in r /\ page[p].vis \in CpuVisible
                                  THEN [bytes |-> page[p].bytes, completed |-> 0]
                                  ELSE mirror[p]]
     /\ point' = point + 1
     /\ IF spoilt # {}
        THEN Refused(Owner) /\ UNCHANGED <<unread, writes>>
        ELSE /\ unread' = [unread EXCEPT ![r] = @ \cup {writes + 1}]
             /\ writes' = writes + 1
             /\ act' = [act EXCEPT ![Owner].op = "publish", ![Owner].at = writes + 1]
             /\ UNCHANGED <<leased, ring, batch>>
     /\ UNCHANGED <<requests, dep, truth, loose, ops>>

\* publish_device_write: the CPU may have written a page since it was prepared.
PublishWrite ==
  LET r == act[Owner].pages
      refused == \E p \in r : page[p].vis \in {"CpuNewer", "Conflicting", "Invalid"}
  IN /\ Exclusive(Owner, "publish")
     /\ r \cap Code # {} => ring = None
     /\ page' = [p \in Page |-> IF p \in r THEN publish_device_write(page[p], point) ELSE page[p]]
     /\ truth' = [p \in Page |-> IF p \in r THEN truth[p] \cup {act[Owner].at} ELSE truth[p]]
     /\ act' = [act EXCEPT ![Owner] = IF refused THEN [@ EXCEPT !.op = "invalidate"] ELSE Idle]
     /\ UNCHANGED <<mirror, unread, leased, ring, requests, batch, dep, point, writes,
                    loose, ops>>

Invalidate ==
  /\ Exclusive(Owner, "invalidate")
  /\ page' = [p \in Page |-> IF p \in act[Owner].pages
                             THEN publish_visibility(revoke_direct_access(page[p]), "Invalid")
                             ELSE page[p]]
  /\ Refused(Owner)
  /\ UNCHANGED <<mirror, unread, requests, dep, point, writes, truth, loose, ops>>

\* Device work that only reads a resource.
PrepareRead ==
  LET r == act[Owner].pages
  IN /\ Exclusive(Owner, "sample")
     /\ page' = [p \in Page |-> IF p \in r THEN prepare_resident(page[p], FALSE) ELSE page[p]]
     /\ point' = point + 1
     /\ IF Spoilt(r) THEN Refused(Owner)
        ELSE Finish(Owner) /\ UNCHANGED <<leased, batch>>
     /\ UNCHANGED <<mirror, unread, requests, dep, writes, truth, loose, ops>>

\* capture_ranges arms every page; the content is copied by the first follow.
Capture ==
  /\ Exclusive(Owner, "capture")
  /\ IF Spoilt(Page) THEN UNCHANGED <<page, dep>>
     ELSE /\ page' = [p \in Page |-> arm_cpu_dirty_observer(page[p])]
          /\ dep' = [seen |-> [p \in Page |-> page[p].dirty], copied |-> FALSE,
                     bytes |-> [p \in Page |-> {}], streak |-> 0, volatile |-> FALSE]
  /\ Finish(Owner)
  /\ UNCHANGED <<mirror, unread, leased, requests, batch, point, writes, truth, loose, ops>>

Changed == {p \in Page : dep.volatile \/ page[p].dirty # dep.seen[p]}

\* snapshot_all the first time, snapshot_dirty_pages afterwards: the copy
\* and the next baseline are taken in one transition.
Follow ==
  LET streak == IF Changed = {} THEN 0 ELSE dep.streak + 1
      copies == IF dep.copied /\ ~dep.volatile THEN Changed ELSE Page
      copied == [dep EXCEPT !.copied = TRUE,
                            !.bytes = [p \in Page |-> IF p \in copies THEN page[p].bytes
                                                      ELSE dep.bytes[p]]]
  IN /\ Exclusive(Owner, "follow")
     /\ \/ /\ dep.copied /\ Changed = {}
           /\ dep' = [dep EXCEPT !.streak = 0]
           /\ Finish(Owner)
           /\ UNCHANGED <<page, leased, batch>>
        \/ /\ ~dep.copied \/ Changed # {}
           /\ Spoilt(Page) /\ Refused(Owner)
           /\ UNCHANGED <<page, dep>>
        \/ /\ ~dep.copied \/ Changed # {}
           /\ ~Spoilt(Page) /\ ~Readable(Page) /\ Again(Owner)
           /\ UNCHANGED <<page, dep, leased, ring, batch>>
        \/ /\ ~dep.copied \/ Changed # {}
           /\ Readable(Page)
           /\ IF dep.volatile THEN dep' = copied /\ UNCHANGED page
              ELSE IF streak >= DirtyStreak
              THEN dep' = [copied EXCEPT !.streak = streak, !.volatile = TRUE] /\ UNCHANGED page
              ELSE /\ dep' = [copied EXCEPT !.streak = streak,
                                            !.seen = [p \in Page |-> page[p].dirty]]
                   /\ page' = [p \in Page |-> arm_cpu_dirty_observer(page[p])]
           /\ Finish(Owner)
           /\ UNCHANGED <<leased, batch>>
     /\ UNCHANGED <<mirror, unread, requests, point, writes, truth, loose, ops>>

Next ==
  \/ \E a \in Actor : Look(a) \/ Ask(a) \/ Take(a) \/ Relock(a) \/ Own(a)
  \/ Serve \/ ServeStopped
  \/ \E v \in Vcpu : Acquire(v) \/ Enter(v) \/ Release(v) \/ Store(v) \/ Fault(v)
  \/ \E a \in {Host, Owner} : Start(a) \/ Close(a) \/ ReadRange(a) \/ Stage(a) \/ Commit(a)
  \/ Reserve \/ Word \/ PrepareWrite \/ PublishWrite \/ Invalidate \/ PrepareRead
  \/ Capture \/ Follow

Spec == Init /\ [][Next]_vars

-----------------------------------------------------------------------------
TypeOK ==
  /\ page \in [Page -> [vis : {"Clean", "CpuNewer", "GpuNewer", "Conflicting", "Invalid"},
                        at : Nat, epoch : Nat, gen : Nat, armed : BOOLEAN, dirty : Nat,
                        prot : {"None", "Read", "ReadWrite"}, bytes : SUBSET (1 .. MaxWrites)]]
  /\ leased \subseteq Vcpu /\ pending \in {Host, Owner, None} /\ ring \in {Host, None}
  /\ loose \subseteq 1 .. writes
  /\ \A a \in Actor : act[a].pages \subseteq Page /\ act[a].todo \subseteq act[a].pages

\* No update is lost: whenever the CPU has a page, the canonical bytes hold
\* every write made to it by native stores, by committed batches and by
\* published device work, however read-backs, snapshots and stores interleave.
NoWriteLost ==
  \A p \in Page : page[p].vis \in CpuVisible => truth[p] \ loose \subseteq page[p].bytes

\* The same of the words a system call writes: a caller that holds the gate
\* exclusively overlaps no ordinary writer.
WordWritesKept ==
  \A p \in Page : page[p].vis \in CpuVisible => truth[p] \cap loose \subseteq page[p].bytes

\* While the device has a page and its mirror is at home, mirror and device
\* resources together hold every write.
DeviceHasAllWrites ==
  \A p \in Page : page[p].vis = "GpuNewer" /\ mirror[p] # None =>
    truth[p] \ loose \subseteq mirror[p].bytes \cup UNION {unread[r] : r \in {d \in Resource : p \in d}}

\* A host alias lets native code in only where the CPU has the page, and
\* lets it write only where the write will be noticed: the page is already
\* CpuNewer and no observer waits for its first write.
AliasFollowsAuthority ==
  \A p \in Page :
    /\ page[p].prot # "None" => page[p].vis \in CpuVisible
    /\ page[p].prot = "ReadWrite" => page[p].vis = "CpuNewer" /\ ~page[p].armed

\* A dependency that still reports a page as unchanged has the bytes the
\* page has now: consumers may skip the upload.
DependencyIsExact ==
  dep # None /\ dep.copied /\ ~dep.volatile =>
    \A p \in Page : dep.seen[p] = page[p].dirty => dep.bytes[p] \ loose = page[p].bytes \ loose

\* Authority over a page, its host aliases, its mirror and what consumers
\* remember of it agree.
AuthorityConsistent ==
  TypeOK /\ DeviceHasAllWrites /\ AliasFollowsAuthority /\ DependencyIsExact

\* Nobody waits in a circle.  A lease holder that waits for the ring or for
\* the owner's answer waits for their holders; an exclusive transition waits
\* for every lease.
Waits(a, b) ==
  \/ act[a].pc = "asked" /\ b = Owner /\ act[Owner].pc # "idle" /\ ~Failed
  \/ act[a].pc \in {"enter", "ring"} /\ b = ring
  \/ act[a].pc = "gate" /\ pending \notin {None, a} /\ b = pending
  \/ act[a].pc = "gate" /\ pending = a /\ b \in leased
  \/ a = Owner /\ act[a].op = "publish" /\ pending = a /\ act[a].pages \cap Code # {} /\ b = ring

NoCircularWait ==
  ~ \E S \in SUBSET Actor : S # {} /\ \A a \in S : \E b \in S : Waits(a, b)

\* The owner thread never waits for an answer only it could give.
OwnerNeverAsksItself == act[Owner].pc # "asked"

\* A page is lost only after the owner failed: a read-back that another
\* thread has already taken is not an error.
LostOnlyAfterFailure ==
  (\E p \in Page : page[p].vis = "Invalid") => Failed
=============================================================================
