-------------------------- MODULE PageTransitions ---------------------------
(***************************************************************************)
(* The inductive invariant behind NoWriteLost and AuthorityConsistent of   *)
(* PageVisibility, what a step that leaves pages alone keeps of it, and the*)
(* steps of the device: serving a read-back, preparing a resource for a    *)
(* device write and publishing the write.                                  *)
(***************************************************************************)
EXTENDS PageVisibility, TLAPS

Bytes == SUBSET (1 .. MaxWrites)
Visibility == {"Clean", "CpuNewer", "GpuNewer", "Conflicting", "Invalid"}
PageState == [vis : Visibility, at : Nat, epoch : Nat, gen : Nat, armed : BOOLEAN,
              dirty : Nat, prot : {"None", "Read", "ReadWrite"}, bytes : Bytes]
Mirror == [bytes : Bytes, completed : Nat]
Pc == {"idle", "enter", "run", "failed", "look", "ask", "asked", "take", "relock", "own",
       "word", "gate", "ring"}
Op == {"none", "load", "store", "read", "stage", "commit", "word", "prepare", "publish",
       "invalidate", "sample", "capture", "follow"}
Activity == [pc : Pc, op : Op, pages : SUBSET Page, todo : SUBSET Page,
             at : Nat, epoch : Nat, cur : Page \cup {None}, reply : Bytes \cup {None}]
StagedPage == [gen : Nat, epoch : Nat, dirty : Nat, bytes : Bytes]
Dependency == [seen : [Page -> Nat], copied : BOOLEAN, bytes : [Page -> Bytes],
               streak : Nat, volatile : BOOLEAN]

\* The types of all variables; batch is typed with the operation it belongs to.
Types ==
  /\ page \in [Page -> PageState]
  /\ mirror \in [Page -> Mirror \cup {None}]
  /\ unread \in [Resource -> Bytes]
  /\ act \in [Actor -> Activity]
  /\ leased \subseteq Vcpu /\ pending \in {Host, Owner, None} /\ ring \in {Host, None}
  /\ requests \in Seq(Actor)
  /\ DOMAIN batch = {Host, Owner}
  /\ dep \in Dependency \cup {None}
  /\ point \in Nat /\ writes \in 0 .. MaxWrites
  /\ truth \in [Page -> Bytes] /\ loose \subseteq 1 .. writes

\* What the device resources of a page hold beyond its mirror.
DeviceBytes(p) == UNION {unread[r] : r \in {d \in Resource : p \in d}}

\* Where the newest bytes of a page are, and who may touch them.
PageOK(p) ==
  LET g == page[p]  m == mirror[p]  owed == truth[p] \ loose
  IN /\ g.vis \in CpuVisible => owed \subseteq g.bytes
     /\ g.vis = "GpuNewer" /\ m # None => owed \subseteq m.bytes \cup DeviceBytes(p)
     /\ g.vis = "GpuNewer" /\ m # None /\ m.completed >= g.at => owed \subseteq m.bytes
     /\ g.at <= point /\ (m # None => m.completed <= point)
     /\ g.prot # "None" => g.vis \in CpuVisible
     /\ g.prot = "ReadWrite" => g.vis = "CpuNewer" /\ ~g.armed

Asking == {"ask", "asked", "take", "relock"}

ActorOK(a) ==
  /\ act[a].todo \subseteq act[a].pages
  /\ act[a].pc \notin {"idle", "enter", "run", "failed"} => act[a].cur \in Page
  /\ act[a].reply # None => act[a].pc = "relock"
  /\ act[a].op \in {"commit", "publish"} => act[a].pc = "gate"

\* A read-back under way: its epoch tells whether the page moved meanwhile, and
\* if not, the answer holds every write.
ReadBackOK(a) ==
  LET p == act[a].cur  g == page[p]
  IN act[a].pc \in Asking =>
       /\ act[a].at <= point
       /\ act[a].epoch <= g.epoch
       /\ act[a].epoch = g.epoch =>
            /\ g.vis = "GpuNewer" /\ g.at = act[a].at
            /\ act[a].reply # None => truth[p] \ loose \subseteq act[a].reply /\ mirror[p] = None

RequestsOK ==
  /\ \A i \in 1 .. Len(requests) : act[requests[i]].pc = "asked"
  /\ \A i, j \in 1 .. Len(requests) : requests[i] = requests[j] => i = j

\* The owner between its device work and the publication of what it wrote.
PublishOK ==
  LET o == act[Owner]
  IN /\ o.op \in {"prepare", "publish"} => o.pages \in Resource
     /\ o.op = "publish" =>
          /\ o.at \in unread[o.pages]
          /\ \A p \in o.pages :
               mirror[p] # None =>
                 /\ mirror[p].completed < point
                 /\ page[p].vis = "Clean" =>
                      truth[p] \ loose \subseteq mirror[p].bytes \cup DeviceBytes(p)

\* A staged page that did not move since is observed, and holds nothing new.
StagedOK(a) ==
  act[a].op = "commit" =>
    /\ batch[a] \in [act[a].pages -> StagedPage]
    /\ \A p \in act[a].pages :
         LET g == page[p]  s == batch[a][p]
         IN /\ s.gen <= g.gen /\ s.epoch <= g.epoch /\ s.dirty <= g.dirty
            /\ s.gen = g.gen /\ s.epoch = g.epoch /\ s.dirty = g.dirty /\ g.vis \in CpuVisible =>
                 g.armed /\ g.bytes \ loose \subseteq s.bytes

DependencyOK ==
  dep # None =>
    \A p \in Page :
      /\ dep.seen[p] <= page[p].dirty
      /\ ~dep.volatile /\ dep.seen[p] = page[p].dirty =>
           /\ page[p].armed
           /\ dep.copied => dep.bytes[p] \ loose = page[p].bytes \ loose

VisibilityInv ==
  /\ Types
  /\ \A p \in Page : PageOK(p)
  /\ \A a \in Actor : ActorOK(a) /\ ReadBackOK(a)
  /\ RequestsOK
  /\ PublishOK
  /\ StagedOK(Host) /\ StagedOK(Owner)
  /\ DependencyOK

\* Native code gets in only where the CPU has the page, and writes only where
\* the write will be noticed.
AliasOK(g) ==
  /\ g.prot # "None" => g.vis \in CpuVisible
  /\ g.prot = "ReadWrite" => g.vis = "CpuNewer" /\ ~g.armed

\* What every step does to a page: its counters only grow, authority changes
\* with the epoch, and what an observer waits for changes with the dirty count.
Moves(g, h, free) ==
  /\ g.epoch <= h.epoch /\ g.gen <= h.gen /\ g.dirty <= h.dirty
  /\ g.epoch = h.epoch => h.vis = g.vis /\ h.at = g.at
  /\ g.armed /\ g.dirty = h.dirty => h.armed /\ h.bytes \ free = g.bytes \ free

-----------------------------------------------------------------------------
(* What a step leaves alone.                                                *)

PagesMove == \A p \in Page : Moves(page[p], page'[p], loose')

\* While a page stays with the device nothing is added to what it must show,
\* and a mirror that was handed out does not come back.
DeviceKeeps ==
  \A p \in Page : page[p].vis = "GpuNewer" /\ page'[p].epoch = page[p].epoch =>
    /\ truth'[p] \ loose' \subseteq truth[p] \ loose
    /\ mirror[p] = None => mirror'[p] = None

\* A read-back under way stays sound while pages only move forward and the device keeps its bytes.
LEMMA ReadBackFrame ==
  ASSUME Types, Types', PagesMove, DeviceKeeps, point <= point',
         NEW a \in Actor, act'[a] = act[a], ActorOK(a), ReadBackOK(a)
  PROVE  ReadBackOK(a)'
<1> SUFFICES ASSUME act[a].pc \in Asking
             PROVE  ReadBackOK(a)'
  BY Zenon DEF ReadBackOK
<1> DEFINE p == act[a].cur
<1>1. p \in Page
  BY Zenon DEF ActorOK, Asking
<1>2. /\ act[a].at <= point /\ act[a].epoch <= page[p].epoch
      /\ act[a].epoch = page[p].epoch =>
           /\ page[p].vis = "GpuNewer" /\ page[p].at = act[a].at
           /\ act[a].reply # None =>
                truth[p] \ loose \subseteq act[a].reply /\ mirror[p] = None
  BY Zenon DEF ReadBackOK
<1>3. /\ act[a].at \in Nat /\ act[a].epoch \in Nat /\ point \in Nat /\ point' \in Nat
      /\ page[p].epoch \in Nat /\ page'[p].epoch \in Nat
  BY <1>1, Zenon DEF Types, Activity, PageState
<1>4. /\ page[p].epoch <= page'[p].epoch
      /\ page[p].epoch = page'[p].epoch =>
           page'[p].vis = page[p].vis /\ page'[p].at = page[p].at
  BY <1>1, Zenon DEF PagesMove, Moves
<1>5. page[p].vis = "GpuNewer" /\ page'[p].epoch = page[p].epoch =>
        /\ truth'[p] \ loose' \subseteq truth[p] \ loose
        /\ mirror[p] = None => mirror'[p] = None
  BY <1>1, Zenon DEF DeviceKeeps
<1>6. act[a].at <= point' /\ act[a].epoch <= page'[p].epoch
  BY <1>2, <1>3, <1>4
<1>7. ASSUME act[a].epoch = page'[p].epoch
      PROVE  /\ page'[p].vis = "GpuNewer" /\ page'[p].at = act[a].at
             /\ act[a].reply # None =>
                  truth'[p] \ loose' \subseteq act[a].reply /\ mirror'[p] = None
  BY <1>2, <1>3, <1>4, <1>5, <1>7
<1> QED  BY <1>6, <1>7, Zenon DEF ReadBackOK

\* A staged batch stays a snapshot of what its pages were.
LEMMA StagedFrame ==
  ASSUME Types, Types', PagesMove, loose \subseteq loose',
         NEW a \in {Host, Owner}, act'[a] = act[a], batch'[a] = batch[a], StagedOK(a)
  PROVE  StagedOK(a)'
<1> SUFFICES ASSUME act[a].op = "commit"
             PROVE  StagedOK(a)'
  BY Zenon DEF StagedOK
<1>1. batch[a] \in [act[a].pages -> StagedPage] /\ act[a].pages \subseteq Page
  BY Zenon DEF StagedOK, Types, Activity, Actor
<1>2. ASSUME NEW p \in act[a].pages
      PROVE  LET g == page'[p]  s == batch[a][p]
             IN /\ s.gen <= g.gen /\ s.epoch <= g.epoch /\ s.dirty <= g.dirty
                /\ s.gen = g.gen /\ s.epoch = g.epoch /\ s.dirty = g.dirty
                     /\ g.vis \in CpuVisible =>
                     g.armed /\ g.bytes \ loose' \subseteq s.bytes
  <2> DEFINE g == page[p]
             h == page'[p]
             s == batch[a][p]
  <2>1. /\ s.gen <= g.gen /\ s.epoch <= g.epoch /\ s.dirty <= g.dirty
        /\ s.gen = g.gen /\ s.epoch = g.epoch /\ s.dirty = g.dirty /\ g.vis \in CpuVisible =>
             g.armed /\ g.bytes \ loose \subseteq s.bytes
    BY Zenon DEF StagedOK
  <2>2. Moves(g, h, loose')
    BY <1>1, Zenon DEF PagesMove
  <2>3. /\ g.gen \in Nat /\ g.epoch \in Nat /\ g.dirty \in Nat
        /\ h.gen \in Nat /\ h.epoch \in Nat /\ h.dirty \in Nat
        /\ s.gen \in Nat /\ s.epoch \in Nat /\ s.dirty \in Nat
    BY <1>1, Zenon DEF Types, PageState, StagedPage
  <2> HIDE DEF g, h, s
  <2>4. s.gen <= h.gen /\ s.epoch <= h.epoch /\ s.dirty <= h.dirty
    BY <2>1, <2>2, <2>3 DEF Moves
  <2>5. ASSUME s.gen = h.gen, s.epoch = h.epoch, s.dirty = h.dirty, h.vis \in CpuVisible
        PROVE  h.armed /\ h.bytes \ loose' \subseteq s.bytes
    <3>1. s.gen = g.gen /\ s.epoch = g.epoch /\ s.dirty = g.dirty /\ h.vis = g.vis
      BY <2>1, <2>2, <2>3, <2>5 DEF Moves
    <3>2. g.armed /\ g.bytes \ loose \subseteq s.bytes
      BY <2>1, <2>5, <3>1, Zenon
    <3>3. h.armed /\ h.bytes \ loose' = g.bytes \ loose'
      BY <2>2, <2>5, <3>1, <3>2, Zenon DEF Moves
    <3> QED  BY <3>2, <3>3, Zenon
  <2> QED  BY <2>4, <2>5, Zenon DEF g, h, s
<1> QED  BY <1>1, <1>2, Zenon DEF StagedOK

\* A captured dependency stays exact while pages only move forward.
LEMMA DependencyFrame ==
  ASSUME Types, Types', PagesMove, loose \subseteq loose', dep' = dep, DependencyOK
  PROVE  DependencyOK'
<1> SUFFICES ASSUME dep # None, NEW p \in Page
             PROVE  /\ dep.seen[p] <= page'[p].dirty
                    /\ ~dep.volatile /\ dep.seen[p] = page'[p].dirty =>
                         /\ page'[p].armed
                         /\ dep.copied => dep.bytes[p] \ loose' = page'[p].bytes \ loose'
  BY Zenon DEF DependencyOK
<1> DEFINE g == page[p]
           h == page'[p]
           n == dep.seen[p]
<1>1. /\ n <= g.dirty
      /\ ~dep.volatile /\ n = g.dirty =>
           /\ g.armed
           /\ dep.copied => dep.bytes[p] \ loose = g.bytes \ loose
  BY Zenon DEF DependencyOK
<1>2. Moves(g, h, loose')
  BY Zenon DEF PagesMove
<1>3. n \in Nat /\ g.dirty \in Nat /\ h.dirty \in Nat
  BY Zenon DEF Types, Dependency, PageState
<1> HIDE DEF g, h, n
<1>4. n <= h.dirty
  BY <1>1, <1>2, <1>3 DEF Moves
<1>5. ASSUME ~dep.volatile, n = h.dirty
      PROVE  h.armed /\ (dep.copied => dep.bytes[p] \ loose' = h.bytes \ loose')
  <2>1. n = g.dirty
    BY <1>1, <1>2, <1>3, <1>5 DEF Moves
  <2>2. h.armed /\ h.bytes \ loose' = g.bytes \ loose'
    BY <1>1, <1>2, <1>5, <2>1, Zenon DEF Moves
  <2>3. dep.copied => dep.bytes[p] \ loose = g.bytes \ loose
    BY <1>1, <1>5, <2>1, Zenon
  <2> QED  BY <2>2, <2>3, Zenon
<1> QED  BY <1>4, <1>5, Zenon DEF g, h, n

\* The other actors' part of the invariant.
LEMMA OthersFrame ==
  ASSUME VisibilityInv, Types', PagesMove, DeviceKeeps, point <= point',
         loose \subseteq loose', NEW a \in Actor,
         \A b \in Actor \ {a} : act'[b] = act[b],
         \A b \in {Host, Owner} \ {a} : batch'[b] = batch[b]
  PROVE  /\ \A b \in Actor \ {a} : ActorOK(b)' /\ ReadBackOK(b)'
         /\ \A b \in {Host, Owner} \ {a} : StagedOK(b)'
<1>1. ASSUME NEW b \in Actor \ {a} PROVE ActorOK(b)' /\ ReadBackOK(b)'
  <2>1. ActorOK(b) /\ ReadBackOK(b) /\ act'[b] = act[b] /\ Types
    BY Zenon DEF VisibilityInv
  <2>2. ActorOK(b)'
    BY <2>1, Zenon DEF ActorOK
  <2> QED  BY <2>1, <2>2, ReadBackFrame, Zenon
<1>2. ASSUME NEW b \in {Host, Owner} \ {a} PROVE StagedOK(b)'
  <2>1. StagedOK(b) /\ act'[b] = act[b] /\ batch'[b] = batch[b] /\ Types
    BY Zenon DEF VisibilityInv, Actor
  <2> QED  BY <2>1, StagedFrame, Zenon
<1> QED  BY <1>1, <1>2, Zenon

\* A page that a step does not touch, except that its mirror may be taken.
Untouched(p) ==
  /\ page'[p] = page[p] /\ mirror'[p] \in {mirror[p], None}
  /\ truth'[p] \ loose' \subseteq truth[p] \ loose

\* A page that no step touches stays sound.
LEMMA PageFrame ==
  ASSUME VisibilityInv, Types', unread' = unread, point <= point',
         NEW p \in Page, Untouched(p)
  PROVE  PageOK(p)'
<1> DEFINE g == page[p]
           n == mirror'[p]
<1>1. PageOK(p) /\ DeviceBytes(p)' = DeviceBytes(p)
  BY Zenon DEF VisibilityInv, DeviceBytes
<1>2. page'[p] = g /\ (n = mirror[p] \/ n = None)
  BY Zenon DEF Untouched
<1>3. truth'[p] \ loose' \subseteq truth[p] \ loose
  BY Zenon DEF Untouched
<1>4. g.at \in Nat /\ point \in Nat /\ point' \in Nat /\ n \in Mirror \cup {None}
  BY Zenon DEF VisibilityInv, Types, PageState
<1>5. CASE n = None
  <2>1. (g.vis \in CpuVisible => truth[p] \ loose \subseteq g.bytes) /\ g.at <= point /\ AliasOK(g)
    BY <1>1, Zenon DEF PageOK, AliasOK
  <2>2. g.at <= point'
    BY <1>4, <2>1
  <2> QED  BY <1>2, <1>3, <1>5, <2>1, <2>2, Zenon DEF PageOK, AliasOK
<1>6. CASE n = mirror[p] /\ n # None
  <2>1. n.completed \in Nat
    BY <1>4, <1>6, Zenon DEF Mirror
  <2>2. /\ g.vis \in CpuVisible => truth[p] \ loose \subseteq g.bytes
        /\ g.vis = "GpuNewer" => truth[p] \ loose \subseteq n.bytes \cup DeviceBytes(p)
        /\ g.vis = "GpuNewer" /\ n.completed >= g.at => truth[p] \ loose \subseteq n.bytes
        /\ g.at <= point /\ n.completed <= point /\ AliasOK(g)
    BY <1>1, <1>6, Zenon DEF PageOK, AliasOK
  <2>3. g.at <= point' /\ n.completed <= point'
    BY <1>4, <2>1, <2>2
  <2> QED  BY <1>1, <1>2, <1>3, <2>2, <2>3, Zenon DEF PageOK, AliasOK
<1> QED  BY <1>2, <1>5, <1>6, Zenon

\* A page that no step touches moves forward trivially.
LEMMA UntouchedMoves ==
  ASSUME Types, NEW p \in Page, Untouched(p)
  PROVE  /\ Moves(page[p], page'[p], loose')
         /\ truth'[p] \ loose' \subseteq truth[p] \ loose
         /\ mirror[p] = None => mirror'[p] = None
  BY DEF Untouched, Moves, Types, PageState

\* The queue of read-backs stays sound while nobody who is queued moves.
LEMMA RequestsFrame ==
  ASSUME VisibilityInv, requests' = requests, NEW a \in Actor, act[a].pc # "asked",
         \A b \in Actor \ {a} : act'[b] = act[b]
  PROVE  RequestsOK'
<1>1. requests \in Seq(Actor) /\ RequestsOK
  BY Zenon DEF VisibilityInv, Types
<1>2. ASSUME NEW i \in 1 .. Len(requests)
      PROVE  act'[requests[i]].pc = "asked"
  <2>1. act[requests[i]].pc = "asked" /\ requests[i] \in Actor
    BY <1>1 DEF RequestsOK
  <2> QED  BY <2>1, Zenon
<1> QED  BY <1>1, <1>2, Zenon DEF RequestsOK

\* Device work that waits for its publication is not disturbed by a step that
\* leaves the device resources alone.
LEMMA PublishFrame ==
  ASSUME VisibilityInv, Types', unread' = unread, point <= point', act'[Owner] = act[Owner],
         \A p \in Page : mirror'[p] \in {mirror[p], None},
         \A p \in Page : page'[p].vis = "Clean" =>
            \/ mirror'[p] = None
            \/ page[p].vis = "Clean" /\ truth'[p] \ loose' \subseteq truth[p] \ loose
  PROVE  PublishOK'
<1> DEFINE o == act[Owner]
<1>1. PublishOK /\ \A p \in Page : DeviceBytes(p)' = DeviceBytes(p)
  BY Zenon DEF VisibilityInv, DeviceBytes
<1>2. o.pages \subseteq Page /\ point \in Nat /\ point' \in Nat
  BY Zenon DEF VisibilityInv, Types, Activity, Actor
<1>3. o.op \in {"prepare", "publish"} => o.pages \in Resource
  BY <1>1, Zenon DEF PublishOK
<1>4. ASSUME o.op = "publish", NEW p \in o.pages, mirror'[p] # None
      PROVE  /\ mirror'[p].completed < point'
             /\ page'[p].vis = "Clean" =>
                  truth'[p] \ loose' \subseteq mirror'[p].bytes \cup DeviceBytes(p)'
  <2>1. p \in Page /\ mirror'[p] = mirror[p]
    BY <1>2, <1>4, Zenon
  <2>2. /\ mirror[p].completed < point
        /\ page[p].vis = "Clean" => truth[p] \ loose \subseteq mirror[p].bytes \cup DeviceBytes(p)
    BY <1>1, <1>4, <2>1, Zenon DEF PublishOK
  <2>3. mirror[p].completed \in Nat
    BY <1>4, <2>1, Zenon DEF VisibilityInv, Types, Mirror
  <2>4. mirror'[p].completed < point'
    BY <1>2, <2>1, <2>2, <2>3
  <2>5. DeviceBytes(p)' = DeviceBytes(p)
    BY <1>1, <2>1, Zenon
  <2> QED  BY <1>4, <2>1, <2>2, <2>4, <2>5, Zenon
<1>5. o.op = "publish" => o.at \in unread'[o.pages]
  BY <1>1, Zenon DEF PublishOK
<1> QED  BY <1>3, <1>4, <1>5, Zenon DEF PublishOK

\* The invariant after a step of actor a.
LEMMA StepOf ==
  ASSUME VisibilityInv, Types', PagesMove, DeviceKeeps, point <= point',
         loose \subseteq loose', NEW a \in Actor,
         \A b \in Actor \ {a} : act'[b] = act[b],
         \A b \in {Host, Owner} \ {a} : batch'[b] = batch[b],
         \A p \in Page : PageOK(p)',
         ActorOK(a)', ReadBackOK(a)', a \in {Host, Owner} => StagedOK(a)',
         RequestsOK', PublishOK', DependencyOK'
  PROVE  VisibilityInv'
<1>1. /\ \A b \in Actor \ {a} : ActorOK(b)' /\ ReadBackOK(b)'
      /\ \A b \in {Host, Owner} \ {a} : StagedOK(b)'
  BY OthersFrame, Zenon
<1>2. StagedOK(Host)' /\ StagedOK(Owner)'
  BY <1>1, Zenon
<1>3. \A b \in Actor : ActorOK(b)' /\ ReadBackOK(b)'
  BY <1>1, Zenon
<1> QED  BY <1>2, <1>3, Zenon DEF VisibilityInv

\* A step that moves only what the actor is doing.
LEMMA QuietStep ==
  ASSUME VisibilityInv,
         UNCHANGED <<page, mirror, unread, dep, point, writes, truth, loose>>,
         NEW a \in Actor, NEW r \in Activity, act' = [act EXCEPT ![a] = r],
         leased' \subseteq Vcpu, pending' \in {Host, Owner, None}, ring' \in {Host, None},
         requests' \in Seq(Actor), DOMAIN batch' = {Host, Owner},
         \A b \in {Host, Owner} \ {a} : batch'[b] = batch[b],
         r.op \notin {"commit", "publish"},
         a = Owner /\ r.op = "prepare" => r.pages \in Resource,
         ActorOK(a)', ReadBackOK(a)', RequestsOK'
  PROVE  VisibilityInv'
<1>1. Types /\ act'[a] = r /\ \A b \in Actor \ {a} : act'[b] = act[b]
  BY Zenon DEF VisibilityInv, Types
<1>2. act' \in [Actor -> Activity]
  BY <1>1, Zenon DEF Types
<1>3. Types'
  BY <1>1, <1>2, Zenon DEF Types
<1>4. \A p \in Page : Untouched(p)
  BY Zenon DEF Untouched
<1>5. point <= point' /\ loose \subseteq loose'
  BY <1>1 DEF Types
<1>6. \A p \in Page : PageOK(p)'
  BY <1>3, <1>4, <1>5, PageFrame, Zenon
<1>7. PagesMove /\ DeviceKeeps
  BY <1>1, <1>4, UntouchedMoves, Zenon DEF PagesMove, DeviceKeeps
<1>8. DependencyOK'
  BY <1>1, <1>3, <1>5, <1>7, DependencyFrame, Zenon DEF VisibilityInv
<1>9. a \in {Host, Owner} => StagedOK(a)'
  BY <1>1, Zenon DEF StagedOK
<1>10. PublishOK'
  <2>1. CASE a = Owner
    BY <1>1, <2>1, Zenon DEF PublishOK
  <2>2. CASE a # Owner
    <3>1. act'[Owner] = act[Owner]
      BY <1>1, <2>2, Zenon DEF Actor
    <3> QED  BY <1>3, <1>4, <1>5, <3>1, PublishFrame, Zenon
  <2> QED  BY <2>1, <2>2, Zenon
<1> QED  BY <1>1, <1>3, <1>5, <1>6, <1>7, <1>8, <1>9, <1>10, StepOf, Zenon

-----------------------------------------------------------------------------
(* Serving a read-back.                                                     *)

\* Taking the request at the head leaves the other requesters queued once each.
LEMMA RequestsServed ==
  ASSUME VisibilityInv, requests # <<>>, requests' = Tail(requests),
         \A b \in Actor \ {Head(requests)} : act'[b] = act[b]
  PROVE  RequestsOK' /\ requests' \in Seq(Actor)
<1>1. requests \in Seq(Actor) /\ RequestsOK
  BY Zenon DEF VisibilityInv, Types
<1>2. /\ requests' \in Seq(Actor) /\ Len(requests) \in Nat /\ Len(requests) >= 1
      /\ Len(requests') = Len(requests) - 1 /\ Head(requests) = requests[1]
  BY <1>1
<1>3. ASSUME NEW i \in 1 .. Len(requests')
      PROVE  /\ i + 1 \in 1 .. Len(requests) /\ requests'[i] = requests[i + 1]
             /\ requests[i + 1] \in Actor \ {Head(requests)}
             /\ act[requests[i + 1]].pc = "asked"
  <2>1. i + 1 \in 1 .. Len(requests) /\ requests'[i] = requests[i + 1] /\ i + 1 # 1
    BY <1>1, <1>2
  <2> DEFINE j == i + 1
  <2>2. 1 \in 1 .. Len(requests) /\ j \in 1 .. Len(requests) /\ j # 1
    BY <1>2, <2>1
  <2> HIDE DEF j
  <2>3. requests[j] \in Actor /\ requests[j] # requests[1] /\ act[requests[j]].pc = "asked"
    BY <1>1, <2>2 DEF RequestsOK
  <2> QED  BY <1>2, <2>1, <2>3, Zenon DEF j
<1>4. \A i \in 1 .. Len(requests') : act'[requests'[i]].pc = "asked"
  BY <1>3, Zenon
<1>5. ASSUME NEW i \in 1 .. Len(requests'), NEW j \in 1 .. Len(requests'),
             requests'[i] = requests'[j]
      PROVE  i = j
  <2> DEFINE m == i + 1
             n == j + 1
  <2>1. m \in 1 .. Len(requests) /\ n \in 1 .. Len(requests) /\ requests[m] = requests[n]
    BY <1>3, <1>5, Zenon
  <2> HIDE DEF m, n
  <2>2. m = n
    BY <1>1, <2>1, Zenon DEF RequestsOK
  <2> QED  BY <2>2 DEF m, n
<1> QED  BY <1>2, <1>4, <1>5, Zenon DEF RequestsOK

\* Resources do not overlap, so a read-back of everything written on page p
\* empties the resources of every page it touches.
LEMMA ServeStep ==
  ASSUME PageConfiguration, VisibilityInv, Serve
  PROVE  VisibilityInv'
<1>0. PICK a \in Actor : a = Head(requests)
  BY DEF VisibilityInv, Types, Serve
<1> DEFINE p == act[a].cur
           demanded == {r \in Resource : p \in r /\ unread[r] # {}}
           touched == UNION demanded
           found(q) == UNION {unread[r] : r \in {d \in demanded : q \in d}}
           ok == \A q \in touched \cup {p} : mirror[q] # None
           reply == IF ok THEN mirror[p].bytes \cup found(p) ELSE None
           r == [act[a] EXCEPT !.pc = "relock", !.reply = reply]
<1>1. /\ Types /\ requests \in Seq(Actor) /\ requests # <<>> /\ RequestsOK /\ Owner \in Actor
      /\ act \in [Actor -> Activity] /\ page \in [Page -> PageState] /\ point \in Nat
      /\ unread \in [Resource -> Bytes] /\ mirror \in [Page -> Mirror \cup {None}]
      /\ act[Owner].pc = "idle" /\ ActorOK(Owner)
  BY Zenon DEF VisibilityInv, Types, Serve, Actor
<1>2. a = requests[1] /\ 1 \in 1 .. Len(requests) /\ requests' = Tail(requests)
  BY <1>0, <1>1 DEF Serve
<1>3. /\ act[a].pc = "asked" /\ ActorOK(a) /\ ReadBackOK(a) /\ a # Owner /\ act[a] \in Activity
  BY <1>1, <1>2, Zenon DEF RequestsOK, VisibilityInv
<1>4. /\ p \in Page /\ act[a].op \notin {"commit", "publish"} /\ act[Owner].op # "publish"
      /\ act[a].at \in Nat /\ act[a].at <= point /\ act[a].epoch <= page[p].epoch
      /\ act[a].epoch = page[p].epoch => page[p].vis = "GpuNewer" /\ page[p].at = act[a].at
  BY <1>1, <1>3, Zenon DEF ActorOK, ReadBackOK, Asking, Activity
<1>5. UNCHANGED <<page, leased, pending, ring, batch, dep, point, writes, truth, loose>>
  BY Zenon DEF Serve
<1>6. act' = [act EXCEPT ![a] = r]
  BY <1>0, <1>1, Zenon DEF Serve
<1>7. \A q \in Page : found(q) \in Bytes
  BY <1>1, Zenon DEF Bytes
<1>8. reply \in Bytes \cup {None}
  <2>1. mirror[p] # None => mirror[p].bytes \in Bytes
    BY <1>1, <1>4, Zenon DEF Mirror
  <2>2. found(p) \in Bytes
    BY <1>4, <1>7, Zenon
  <2> HIDE DEF found, demanded
  <2> QED  BY <2>1, <2>2, Zenon DEF Bytes
<1>9. ASSUME ok
      PROVE  /\ mirror' = [q \in Page |->
                          IF q = p THEN None
                          ELSE IF q \in touched
                          THEN [bytes |-> mirror[q].bytes \cup found(q),
                                completed |-> IF mirror[q].completed > act[a].at
                                              THEN mirror[q].completed ELSE act[a].at]
                          ELSE mirror[q]]
             /\ unread' = [d \in Resource |-> IF d \in demanded THEN {} ELSE unread[d]]
  BY <1>0, <1>9, Zenon DEF Serve
<1>10. ASSUME ~ok PROVE mirror' = mirror /\ unread' = unread
  BY <1>0, <1>10, Zenon DEF Serve
<1>11. /\ demanded \subseteq Resource
       /\ \A d \in Resource : p \in d /\ d \notin demanded => unread[d] = {}
       /\ \A d \in demanded : p \in d
       /\ \A q : q \in touched <=> \E d \in demanded : q \in d
       /\ \A q, d : d \in demanded /\ q \in d => unread[d] \subseteq found(q)
       /\ ok => mirror[p] # None /\ \A q \in touched : mirror[q] # None
       /\ ok => reply = mirror[p].bytes \cup found(p)
       /\ ~ok => reply = None
  BY Zenon
<1> HIDE DEF ok, reply, demanded, touched, found
<1>12. r \in Activity
  <2>1. "relock" \in Pc
    BY Zenon DEF Pc
  <2> QED  BY <1>3, <1>8, <2>1, Zenon DEF Activity
<1>13. /\ r.pc = "relock" /\ r.reply = reply /\ r.cur = p /\ r.at = act[a].at
       /\ r.epoch = act[a].epoch /\ r.op = act[a].op /\ r.pages = act[a].pages
       /\ r.todo = act[a].todo
  BY <1>3, Zenon DEF Activity
<1> HIDE DEF r
<1>14. /\ act'[a] = r /\ act' \in [Actor -> Activity] /\ act'[Owner] = act[Owner]
       /\ \A b \in Actor \ {a} : act'[b] = act[b]
  BY <1>1, <1>2, <1>3, <1>6, <1>12, Zenon
<1>15. RequestsOK' /\ requests' \in Seq(Actor)
  BY <1>0, <1>1, <1>2, <1>14, RequestsServed, Zenon
<1>16. ActorOK(a)' /\ (a \in {Host, Owner} => StagedOK(a)')
  BY <1>3, <1>4, <1>13, <1>14, Zenon DEF ActorOK, StagedOK
<1>17. PublishOK'
  BY <1>4, <1>14, Zenon DEF PublishOK, VisibilityInv
<1>18. ASSUME ~ok PROVE VisibilityInv'
  <2>1. ReadBackOK(a)'
    BY <1>4, <1>5, <1>11, <1>13, <1>14, <1>18, Zenon DEF ReadBackOK
  <2>2. /\ leased' \subseteq Vcpu /\ pending' \in {Host, Owner, None} /\ ring' \in {Host, None}
        /\ DOMAIN batch' = {Host, Owner}
    BY <1>1, <1>5, Zenon DEF Types
  <2> QED  BY <1>2, <1>3, <1>4, <1>5, <1>6, <1>10, <1>12, <1>13, <1>15, <1>16, <1>18, <2>1, <2>2, QuietStep, Zenon
<1>19. ASSUME ok PROVE VisibilityInv'
  <2>1. ASSUME NEW q \in Page
        PROVE  /\ q = p => mirror'[q] = None
               /\ q # p /\ q \in touched =>
                    /\ mirror[q] \in Mirror
                    /\ mirror'[q] \in Mirror /\ mirror'[q].bytes = mirror[q].bytes \cup found(q)
                    /\ mirror'[q].completed <= point
               /\ q # p /\ q \notin touched => mirror'[q] = mirror[q]
    <3>1. CASE q # p /\ q \in touched
      <4> DEFINE m == mirror[q]
                 c == IF m.completed > act[a].at THEN m.completed ELSE act[a].at
                 n == m.bytes \cup found(q)
      <4>1. m \in Mirror
        BY <1>1, <1>11, <1>19, <3>1, Zenon
      <4>2. m # None
        BY <1>11, <1>19, <3>1, Zenon
      <4>3. m.completed \in Nat /\ m.completed <= point /\ m.bytes \in Bytes
        BY <4>1, <4>2, Zenon DEF Mirror, VisibilityInv, PageOK
      <4>4. c \in Nat /\ c <= point /\ n \in Bytes
        BY <1>1, <1>4, <1>7, <4>3, Zenon DEF Bytes
      <4>5. mirror'[q] = [bytes |-> n, completed |-> c]
        BY <1>9, <1>19, <3>1, Zenon
      <4> HIDE DEF c, n
      <4>6. mirror'[q] \in Mirror /\ mirror'[q].bytes = n /\ mirror'[q].completed = c
        BY <4>4, <4>5 DEF Mirror
      <4> QED  BY <3>1, <4>1, <4>4, <4>6, Zenon DEF n
    <3>2. CASE q = p \/ q \notin touched
      BY <1>9, <1>19, <3>2, Zenon
    <3> QED  BY <3>1, <3>2, Zenon
  <2>2. mirror' \in [Page -> Mirror \cup {None}]
    <3>1. mirror' = [q \in Page |-> mirror'[q]]
      BY <1>9, <1>19, Zenon
    <3>2. \A q \in Page : mirror'[q] \in Mirror \cup {None}
      BY <1>1, <2>1, Zenon
    <3> QED  BY <3>1, <3>2, Zenon
  <2>3. unread' \in [Resource -> Bytes]
    BY <1>1, <1>9, <1>19, Zenon DEF Bytes
  <2>4. Types'
    BY <1>1, <1>5, <1>14, <1>15, <2>2, <2>3, Zenon DEF Types
  <2>5. DeviceBytes(p) \subseteq found(p)
    BY <1>11 DEF DeviceBytes
  <2>6. ASSUME NEW q \in Page, q \in touched
        PROVE  DeviceBytes(q) \subseteq found(q)
    <3>1. PICK d \in demanded : q \in d
      BY <1>11, <2>6, Zenon
    <3>2. \A e \in Resource : q \in e => e = d
      BY <1>11, <3>1, Zenon DEF PageConfiguration
    <3> QED  BY <1>11, <3>1, <3>2 DEF DeviceBytes
  <2>7. ASSUME NEW q \in Page, q \notin touched
        PROVE  DeviceBytes(q)' = DeviceBytes(q)
    <3>1. \A d \in Resource : q \in d => unread'[d] = unread[d]
      BY <1>9, <1>11, <1>19, <2>7, Zenon
    <3> QED  BY <3>1, Zenon DEF DeviceBytes
  <2>8. ASSUME NEW q \in Page PROVE PageOK(q)'
    <3> DEFINE g == page[q]
               m == mirror[q]
    <3>1. /\ PageOK(q) /\ page'[q] = g /\ AliasOK(g)
      BY <1>5, Zenon DEF VisibilityInv, PageOK, AliasOK
    <3>2. /\ g.vis \in CpuVisible => truth[q] \ loose \subseteq g.bytes
          /\ g.vis = "GpuNewer" /\ m # None => truth[q] \ loose \subseteq m.bytes \cup DeviceBytes(q)
          /\ g.vis = "GpuNewer" /\ m # None /\ m.completed >= g.at => truth[q] \ loose \subseteq m.bytes
          /\ g.at <= point /\ (m # None => m.completed <= point)
      BY <3>1, Zenon DEF PageOK
    <3>3. CASE q = p
      BY <1>5, <2>1, <3>1, <3>2, <3>3, Zenon DEF PageOK, AliasOK
    <3>4. CASE q # p /\ q \notin touched
      BY <1>5, <2>1, <2>7, <3>1, <3>2, <3>4, Zenon DEF PageOK, AliasOK
    <3>5. CASE q # p /\ q \in touched
      <4>1. m # None /\ DeviceBytes(q) \subseteq found(q)
        BY <1>11, <1>19, <2>6, <3>5, Zenon
      <4>2. g.vis = "GpuNewer" => truth[q] \ loose \subseteq mirror'[q].bytes
        BY <2>1, <3>2, <3>5, <4>1, Zenon
      <4>3. mirror'[q].completed <= point
        BY <2>1, <3>5, Zenon
      <4> QED  BY <1>5, <3>1, <3>2, <4>2, <4>3, Zenon DEF PageOK, AliasOK
    <3> QED  BY <3>3, <3>4, <3>5, Zenon
  <2>9. ReadBackOK(a)'
    <3>1. ASSUME act[a].epoch = page[p].epoch
          PROVE  truth[p] \ loose \subseteq reply
      <4>1. page[p].vis = "GpuNewer" /\ mirror[p] # None /\ reply = mirror[p].bytes \cup found(p)
        BY <1>4, <1>11, <1>19, <3>1, Zenon
      <4>2. truth[p] \ loose \subseteq mirror[p].bytes \cup DeviceBytes(p)
        BY <1>4, <4>1, Zenon DEF VisibilityInv, PageOK
      <4> QED  BY <2>5, <4>1, <4>2, Zenon
    <3>2. mirror'[p] = None
      BY <1>4, <2>1, Zenon
    <3> QED  BY <1>4, <1>5, <1>13, <1>14, <3>1, <3>2, Zenon DEF ReadBackOK
  <2>10. PagesMove
    BY <1>1, <1>5 DEF PagesMove, Moves, PageState
  <2>11. DeviceKeeps
    BY <1>5, <1>11, <1>19, <2>1, Zenon DEF DeviceKeeps
  <2>12. point <= point' /\ loose \subseteq loose' /\ batch' = batch
    BY <1>1, <1>5
  <2>13. DependencyOK'
    BY <1>1, <1>5, <2>4, <2>10, <2>12, DependencyFrame, Zenon DEF VisibilityInv
  <2> QED  BY <1>2, <1>14, <1>15, <1>16, <1>17, <2>4, <2>8, <2>9, <2>10, <2>11, <2>12, <2>13, StepOf, Zenon
<1> QED  BY <1>18, <1>19, Zenon

-----------------------------------------------------------------------------
(* Following a captured dependency needs one.                               *)

\* A dependency is followed only once it was captured.
FollowOK == act[Owner].op = "follow" => dep # None

\* A captured dependency is never dropped before it is followed.
LEMMA FollowKept ==
  ASSUME PageConfiguration, Types, FollowOK, Next
  PROVE  FollowOK'
<1> SUFFICES ASSUME act'[Owner].op = "follow"
             PROVE  dep' # None
  BY Zenon DEF FollowOK
<1>1. /\ act \in [Actor -> Activity] /\ Owner \in Actor /\ Host # Owner /\ Owner \notin Vcpu
      /\ act[Owner] \in Activity /\ requests \in Seq(Actor)
  BY DEF Types, Actor, PageConfiguration
<1>2. act[Owner].op = "follow" => dep # None
  BY Zenon DEF FollowOK
<1>3. Idle.op = "none" /\ [Idle EXCEPT !.pc = "run"].op = "none"
      /\ [Idle EXCEPT !.pc = "idle"].op = "none" /\ [Idle EXCEPT !.pc = "failed"].op = "none"
  BY Zenon DEF Idle
<1>4. \A a \in Actor : Refused(a) => a # Owner /\ act'[Owner] = act[Owner]
  BY <1>1, <1>3, Zenon DEF Refused
<1>5. \A a \in Actor : \A p : act' = Visible(a, p) => act'[Owner].op \in {"none", act[Owner].op}
  <2> SUFFICES ASSUME NEW a \in Actor, NEW p, act' = Visible(a, p)
               PROVE  act'[Owner].op \in {"none", act[Owner].op}
    BY Zenon
  <2> DEFINE left == act[a].todo \ {p}
             next == IF left = {} THEN Prepared(a) ELSE "look"
  <2>1. act' = [act EXCEPT ![a] = IF next = "run" THEN [Idle EXCEPT !.pc = "run"]
                                  ELSE [@ EXCEPT !.pc = next, !.todo = left, !.reply = None,
                                                 !.at = 0, !.epoch = 0]]
    BY Zenon DEF Visible
  <2> HIDE DEF next, left
  <2> QED  BY <1>1, <1>3, <2>1 DEF Activity
<1>6. \A a \in Actor : Finish(a) => act'[Owner].op \in {"none", act[Owner].op}
  BY <1>1, <1>3, Zenon DEF Finish
<1>7. ASSUME NEW a \in Actor, Look(a) \/ Ask(a) \/ Take(a) \/ Relock(a) \/ Own(a)
      PROVE  dep' # None
  <2>1. CASE Look(a)
    BY <1>1, <1>2, <1>4, <1>5, <2>1 DEF Look, Activity
  <2>2. CASE Ask(a)
    BY <1>1, <1>2, <2>2 DEF Ask, Activity
  <2>3. CASE Take(a)
    BY <1>1, <1>2, <2>3, Zenon DEF Take, Activity
  <2>4. CASE Relock(a)
    BY <1>1, <1>2, <1>4, <1>5, <2>4 DEF Relock, Activity
  <2>5. CASE Own(a)
    <3>1. /\ dep' = dep
          /\ \/ Refused(a)
             \/ a \in Vcpu /\ act' = [act EXCEPT ![a] = [Idle EXCEPT !.pc = "run"]]
             \/ a \notin Vcpu /\ act' = [act EXCEPT ![a] = [@ EXCEPT !.pc = "word"]]
      BY <2>5, Zenon DEF Own
    <3>2. CASE a \in Vcpu /\ act' = [act EXCEPT ![a] = [Idle EXCEPT !.pc = "run"]]
      BY <1>1, <1>2, <3>1, <3>2, Zenon
    <3>3. CASE a \notin Vcpu /\ act' = [act EXCEPT ![a] = [@ EXCEPT !.pc = "word"]]
      BY <1>1, <1>2, <3>1, <3>3, Zenon DEF Activity
    <3> QED  BY <1>2, <1>4, <3>1, <3>2, <3>3, Zenon
  <2> QED  BY <1>7, <2>1, <2>2, <2>3, <2>4, <2>5, Zenon
<1>8. CASE Serve
  BY <1>1, <1>2, <1>8, Zenon DEF Serve, Activity
<1>9. CASE ServeStopped
  BY <1>1, <1>2, <1>9, Zenon DEF ServeStopped, Activity
<1>10. ASSUME NEW v \in Vcpu, Acquire(v) \/ Enter(v) \/ Release(v) \/ Store(v) \/ Fault(v)
       PROVE  dep' # None
  <2>1. act'[Owner] = act[Owner] /\ dep' = dep
    BY <1>1, <1>10, Zenon DEF Acquire, Enter, Release, Store, Fault
  <2> QED  BY <1>2, <2>1, Zenon
<1>11. ASSUME NEW a \in {Host, Owner},
              Start(a) \/ Close(a) \/ ReadRange(a) \/ Stage(a) \/ Commit(a)
       PROVE  dep' # None
  <2>1. CASE Start(a)
    <3> DEFINE after(op, ps) ==
                 [act[a] EXCEPT !.pc = FirstPc(a, op, ps), !.op = op, !.pages = ps, !.todo = ps,
                                !.cur = CHOOSE p \in ps : TRUE]
    <3>0. PICK op \in (IF a = Host THEN HostOps ELSE OwnerOps) : \E ps \in PagesOf(op) :
            /\ op = "follow" => dep # None
            /\ act' = [act EXCEPT ![a] = after(op, ps)]
      BY <1>1, <2>1 DEF Start
    <3>1. PICK ps \in PagesOf(op) : /\ op = "follow" => dep # None
                                    /\ act' = [act EXCEPT ![a] = after(op, ps)]
      BY <3>0, Zenon
    <3>2. a = Owner => act'[Owner].op = op
      BY <1>1, <3>1, Zenon DEF Activity
    <3>3. a # Owner => act'[Owner] = act[Owner]
      BY <1>1, <3>1, Zenon
    <3>4. dep' = dep
      BY <2>1, Zenon DEF Start
    <3> QED  BY <1>2, <3>1, <3>2, <3>3, <3>4, Zenon
  <2>2. CASE Close(a)
    BY <1>2, <2>2, Zenon DEF Close
  <2>3. CASE ReadRange(a)
    BY <1>1, <1>2, <1>4, <1>6, <2>3 DEF ReadRange, Again, Activity, Actor
  <2>4. CASE Stage(a)
    BY <1>1, <1>2, <1>4, <2>4 DEF Stage, Again, Activity, Actor
  <2>5. CASE Commit(a)
    BY <1>1, <1>2, <1>4, <1>6, <2>5, Zenon DEF Commit, Actor
  <2> QED  BY <1>11, <2>1, <2>2, <2>3, <2>4, <2>5, Zenon
<1>12. CASE Reserve \/ Word
  <2>1. act'[Owner] = act[Owner] /\ dep' = dep
    BY <1>1, <1>12, Zenon DEF Reserve, Word
  <2> QED  BY <1>2, <2>1, Zenon
<1>13. CASE PrepareWrite
  BY <1>1, <1>2, <1>4, <1>13, Zenon DEF PrepareWrite, Activity
<1>14. CASE PublishWrite
  BY <1>1, <1>2, <1>3, <1>14, Zenon DEF PublishWrite, Activity
<1>15. CASE Invalidate \/ PrepareRead
  BY <1>1, <1>3, <1>15, Zenon DEF Invalidate, PrepareRead, Refused, Finish
<1>16. CASE Capture
  BY <1>1, <1>3, <1>16, Zenon DEF Capture, Finish
<1>17. CASE Follow
  BY <1>1, <1>2, <1>3, <1>17, Zenon DEF Follow, Exclusive, Refused, Finish, Again
<1> QED  BY <1>7, <1>8, <1>9, <1>10, <1>11, <1>12, <1>13, <1>14, <1>15, <1>16, <1>17, Zenon DEF Next

-----------------------------------------------------------------------------
(* What an actor is left with when its transaction ends.                    *)

\* An actor between two operations.
LEMMA IdleActivity ==
  ASSUME NEW pc \in Pc, NEW r, r = [Idle EXCEPT !.pc = pc]
  PROVE  r \in Activity /\ r.op = "none" /\ r.pc = pc /\ r.todo = {} /\ r.reply = None
<1>1. r = [pc |-> pc, op |-> "none", pages |-> {}, todo |-> {}, at |-> 0,
           epoch |-> 0, cur |-> None, reply |-> None]
  BY Zenon DEF Idle
<1>2. "none" \in Op
  BY Zenon DEF Op
<1>3. r \in Activity
  <2>1. [pc |-> pc, op |-> "none", pages |-> {}, todo |-> {}, at |-> 0,
         epoch |-> 0, cur |-> None, reply |-> None] \in Activity
    BY <1>2, Zenon DEF Activity
  <2> QED  BY <1>1, <2>1, Zenon
<1> QED  BY <1>1, <1>3

\* Once its last page is visible to the CPU, an actor goes on with its operation.
LEMMA VisibleActivity ==
  ASSUME VisibilityInv, NEW a \in Actor, NEW p \in Page, act[a].pc \in {"look", "relock"},
         act' = Visible(a, p)
  PROVE  \E r \in Activity :
           /\ act' = [act EXCEPT ![a] = r]
           /\ r.op \notin {"commit", "publish"} /\ r.pc \notin Asking
           /\ r.op = "prepare" => act[a].op = "prepare" /\ r.pages = act[a].pages
           /\ ActorOK(a)'
<1> DEFINE left == act[a].todo \ {p}
           next == IF left = {} THEN Prepared(a) ELSE "look"
<1>1. act[a] \in Activity /\ act \in [Actor -> Activity] /\ ActorOK(a)
  BY Zenon DEF VisibilityInv, Types
<1>2. next \in {"run", "own", "gate", "look"}
  BY Zenon DEF Prepared
<1>3. act' = [act EXCEPT ![a] = IF next = "run" THEN [Idle EXCEPT !.pc = "run"]
                                ELSE [@ EXCEPT !.pc = next, !.todo = left, !.reply = None,
                                               !.at = 0, !.epoch = 0]]
  BY Zenon DEF Visible
<1> HIDE DEF next
<1>4. CASE next = "run"
  <2> DEFINE r == [Idle EXCEPT !.pc = "run"]
  <2>1. r \in Activity /\ r.op = "none" /\ r.pc = "run" /\ r.todo = {} /\ r.reply = None
    <3>1. "run" \in Pc
      BY Zenon DEF Pc
    <3> HIDE DEF r
    <3>2. r = [Idle EXCEPT !.pc = "run"]
      BY Zenon DEF r
    <3> QED  BY <3>1, <3>2, IdleActivity, Zenon
  <2>2. act' = [act EXCEPT ![a] = r]
    BY <1>3, <1>4, Zenon
  <2> HIDE DEF r
  <2>3. act'[a] = r
    BY <1>1, <2>2, Zenon
  <2>4. ActorOK(a)'
    BY <2>1, <2>3, Zenon DEF ActorOK
  <2> QED  BY <2>1, <2>2, <2>4, Zenon DEF Asking
<1>5. CASE next # "run"
  <2> DEFINE r == [act[a] EXCEPT !.pc = next, !.todo = left, !.reply = None,
                                 !.at = 0, !.epoch = 0]
  <2>1. left \in SUBSET Page /\ next \in Pc /\ left \subseteq act[a].pages
    BY <1>1, <1>2, Zenon DEF Activity, ActorOK, Pc
  <2> HIDE DEF left
  <2>2. r \in Activity
    BY <1>1, <2>1, Zenon DEF Activity
  <2>3. /\ r.op = act[a].op /\ r.pc = next /\ r.todo = left /\ r.reply = None
        /\ r.pages = act[a].pages /\ r.cur = act[a].cur
    BY <1>1, Zenon DEF Activity
  <2>4. act' = [act EXCEPT ![a] = r]
    BY <1>3, <1>5, Zenon
  <2> HIDE DEF r
  <2>5. act'[a] = r
    BY <1>1, <2>4, Zenon
  <2>6. act[a].op \notin {"commit", "publish"} /\ act[a].cur \in Page
    BY <1>1, Zenon DEF ActorOK
  <2>7. ActorOK(a)'
    BY <1>2, <2>1, <2>3, <2>5, <2>6, Zenon DEF ActorOK
  <2> QED  BY <1>2, <1>5, <2>2, <2>3, <2>4, <2>6, <2>7, Zenon DEF Asking
<1> QED  BY <1>4, <1>5, Zenon

\* A refused operation leaves a vCPU failed and another actor idle.
LEMMA RefusedActivity ==
  ASSUME VisibilityInv, NEW a \in Actor, Refused(a)
  PROVE  /\ \E r \in Activity :
              /\ act' = [act EXCEPT ![a] = r]
              /\ r.op = "none" /\ r.pc \notin Asking
              /\ ActorOK(a)'
         /\ leased' \subseteq Vcpu /\ ring' \in {Host, None} /\ DOMAIN batch' = {Host, Owner}
         /\ \A b \in {Host, Owner} \ {a} : batch'[b] = batch[b]
<1> DEFINE r == [Idle EXCEPT !.pc = IF a = Owner THEN "failed" ELSE "idle"]
<1>1. act \in [Actor -> Activity] /\ leased \subseteq Vcpu /\ ring \in {Host, None}
      /\ DOMAIN batch = {Host, Owner}
  BY Zenon DEF VisibilityInv, Types
<1>2. /\ r \in Activity /\ r.op = "none" /\ r.pc \in {"failed", "idle"} /\ r.todo = {}
      /\ r.reply = None
  <2> DEFINE pc == IF a = Owner THEN "failed" ELSE "idle"
  <2>1. pc \in Pc /\ pc \in {"failed", "idle"} /\ r = [Idle EXCEPT !.pc = pc]
    BY Zenon DEF Pc
  <2> HIDE DEF pc, r
  <2> QED  BY <2>1, IdleActivity, Zenon
<1>3. act' = [act EXCEPT ![a] = r]
  BY Zenon DEF Refused
<1> HIDE DEF r
<1>4. act'[a] = r
  BY <1>1, <1>3, Zenon
<1>5. ActorOK(a)'
  BY <1>2, <1>4, Zenon DEF ActorOK
<1>6. leased' \subseteq Vcpu /\ ring' \in {Host, None}
  BY <1>1, Zenon DEF Refused
<1>7. /\ DOMAIN batch' = {Host, Owner}
      /\ \A b \in {Host, Owner} \ {a} : batch'[b] = batch[b]
  <2>1. batch' = IF a \in DOMAIN batch THEN [batch EXCEPT ![a] = <<>>] ELSE batch
    BY Zenon DEF Refused
  <2> QED  BY <1>1, <2>1, Zenon
<1> QED  BY <1>2, <1>3, <1>5, <1>6, <1>7, Zenon DEF Asking

\* A finished operation leaves its actor idle.
LEMMA FinishActivity ==
  ASSUME VisibilityInv, NEW a \in Actor, Finish(a)
  PROVE  /\ \E r \in Activity :
              /\ act' = [act EXCEPT ![a] = r]
              /\ r.op = "none" /\ r.pc \notin Asking
              /\ ActorOK(a)'
         /\ ring' \in {Host, None}
<1>1. act \in [Actor -> Activity] /\ ring \in {Host, None}
  BY Zenon DEF VisibilityInv, Types
<1>2. /\ Idle \in Activity /\ Idle.op = "none" /\ Idle.pc = "idle" /\ Idle.todo = {}
      /\ Idle.reply = None
  <2>1. Idle = [Idle EXCEPT !.pc = "idle"] /\ "idle" \in Pc
    BY DEF Idle, Pc
  <2> QED  BY <2>1, IdleActivity, Zenon
<1>3. act' = [act EXCEPT ![a] = Idle] /\ ring' \in {Host, None}
  BY <1>1, Zenon DEF Finish
<1>4. act'[a] = Idle
  BY <1>1, <1>3, Zenon
<1>5. ActorOK(a)'
  BY <1>2, <1>4, Zenon DEF ActorOK
<1> QED  BY <1>2, <1>3, <1>5, Zenon DEF Asking

\* How an actor that finishes its last page goes on.
LEMMA EndActivity ==
  ASSUME VisibilityInv, NEW a \in Actor,
         \/ Refused(a)
         \/ Finish(a) /\ UNCHANGED <<leased, batch>>
         \/ /\ act[a].pc \in {"look", "relock"} /\ UNCHANGED <<leased, ring, batch>>
            /\ \E p \in Page : act' = Visible(a, p)
  PROVE  /\ act' \in [Actor -> Activity]
         /\ \A b \in Actor \ {a} : act'[b] = act[b]
         /\ ActorOK(a)' /\ ReadBackOK(a)' /\ (a \in {Host, Owner} => StagedOK(a)')
         /\ a = Owner => PublishOK'
         /\ leased' \subseteq Vcpu /\ ring' \in {Host, None} /\ DOMAIN batch' = {Host, Owner}
         /\ \A b \in {Host, Owner} \ {a} : batch'[b] = batch[b]
<1>1. /\ leased \subseteq Vcpu /\ ring \in {Host, None}
      /\ DOMAIN batch = {Host, Owner} /\ act \in [Actor -> Activity] /\ PublishOK
  BY Zenon DEF VisibilityInv, Types
<1>2. /\ \E r \in Activity :
           /\ act' = [act EXCEPT ![a] = r]
           /\ r.op \notin {"commit", "publish"} /\ r.pc \notin Asking
           /\ r.op = "prepare" => act[a].op = "prepare" /\ r.pages = act[a].pages
           /\ ActorOK(a)'
      /\ leased' \subseteq Vcpu /\ ring' \in {Host, None} /\ DOMAIN batch' = {Host, Owner}
      /\ \A b \in {Host, Owner} \ {a} : batch'[b] = batch[b]
  BY <1>1, VisibleActivity, RefusedActivity, FinishActivity, Zenon
<1>3. PICK r \in Activity :
           /\ act' = [act EXCEPT ![a] = r]
           /\ r.op \notin {"commit", "publish"} /\ r.pc \notin Asking
           /\ r.op = "prepare" => act[a].op = "prepare" /\ r.pages = act[a].pages
           /\ ActorOK(a)'
  BY <1>2, Zenon
<1>4. /\ act'[a] = r /\ act' \in [Actor -> Activity]
      /\ \A b \in Actor \ {a} : act'[b] = act[b]
  BY <1>1, <1>3, Zenon
<1>5. ReadBackOK(a)' /\ (a \in {Host, Owner} => StagedOK(a)')
  BY <1>3, <1>4, Zenon DEF ReadBackOK, StagedOK
<1>6. a = Owner => PublishOK'
  BY <1>1, <1>3, <1>4, Zenon DEF PublishOK
<1> QED  BY <1>2, <1>3, <1>4, <1>5, <1>6, Zenon

-----------------------------------------------------------------------------
(* Preparing a resource for a device write, and publishing the write.       *)

\* The protection of an alias is one of three.
LEMMA ProtectionOK ==
  ASSUME NEW vis \in Visibility, NEW armed \in BOOLEAN
  PROVE  /\ protection(vis, armed) \in {"None", "Read", "ReadWrite"}
         /\ protection(vis, armed) # "None" => vis \in CpuVisible
         /\ protection(vis, armed) = "ReadWrite" => vis = "CpuNewer" /\ ~armed
  BY Zenon DEF protection, Visibility, CpuVisible

\* Publishing a visibility starts a new epoch and fits the alias to it.
LEMMA PublishVisibility ==
  ASSUME NEW g \in PageState, NEW vis \in Visibility, NEW h,
         h = publish_visibility(g, vis)
  PROVE  /\ h \in PageState /\ AliasOK(h)
         /\ h.vis = vis /\ h.at = g.at /\ h.epoch = g.epoch + 1 /\ h.gen = g.gen
         /\ h.armed = g.armed /\ h.dirty = g.dirty /\ h.bytes = g.bytes
<1> DEFINE q == protection(vis, g.armed)
           e == g.epoch + 1
<1>1. g.armed \in BOOLEAN /\ e \in Nat
  BY DEF PageState
<1>2. /\ q \in {"None", "Read", "ReadWrite"}
      /\ q # "None" => vis \in CpuVisible
      /\ q = "ReadWrite" => vis = "CpuNewer" /\ ~g.armed
  BY <1>1, ProtectionOK, Zenon
<1>3. h = [g EXCEPT !.vis = vis, !.epoch = e, !.prot = q]
  BY Zenon DEF publish_visibility
<1> HIDE DEF q, e
<1>4. h \in PageState
  BY <1>1, <1>2, <1>3, Zenon DEF PageState
<1>5. /\ h.vis = vis /\ h.at = g.at /\ h.epoch = e /\ h.gen = g.gen /\ h.prot = q
      /\ h.armed = g.armed /\ h.dirty = g.dirty /\ h.bytes = g.bytes
  BY <1>3, Zenon DEF PageState
<1> QED  BY <1>2, <1>4, <1>5, Zenon DEF AliasOK, e

\* Revoking direct access closes the alias and changes nothing else.
LEMMA RevokeDirectAccess ==
  ASSUME NEW g \in PageState, NEW h, h = revoke_direct_access(g)
  PROVE  /\ h \in PageState /\ AliasOK(h)
         /\ h.vis = g.vis /\ h.at = g.at /\ h.epoch = g.epoch + 1 /\ h.gen = g.gen
         /\ h.armed = g.armed /\ h.dirty = g.dirty /\ h.bytes = g.bytes
<1> DEFINE e == g.epoch + 1
<1>1. e \in Nat
  BY DEF PageState
<1>2. h = [g EXCEPT !.prot = "None", !.epoch = e]
  BY Zenon DEF revoke_direct_access
<1> HIDE DEF e
<1>3. h \in PageState
  BY <1>1, <1>2, Zenon DEF PageState
<1>4. /\ h.vis = g.vis /\ h.at = g.at /\ h.epoch = e /\ h.gen = g.gen
      /\ h.prot = "None" /\ h.armed = g.armed /\ h.dirty = g.dirty
      /\ h.bytes = g.bytes
  BY <1>2, Zenon DEF PageState
<1> QED  BY <1>3, <1>4, Zenon DEF AliasOK, e

\* Preparing a page for the device.
LEMMA PrepareResident ==
  ASSUME NEW g \in PageState, AliasOK(g), NEW writing \in BOOLEAN, NEW h,
         h = prepare_resident(g, writing), NEW free
  PROVE  /\ h \in PageState /\ AliasOK(h) /\ Moves(g, h, free)
         /\ h.at = g.at /\ h.bytes = g.bytes
         /\ h.vis = IF g.vis \in CpuVisible THEN "Clean" ELSE g.vis
<1>1. CASE g.vis = "Clean" /\ ~writing
  BY <1>1 DEF prepare_resident, CpuVisible, Moves, PageState
<1>2. CASE g.vis = "Conflicting"
  <2>1. h = publish_visibility(g, "Conflicting")
    BY <1>2, Zenon DEF prepare_resident, CpuVisible
  <2>2. /\ h \in PageState /\ AliasOK(h)
        /\ h.vis = "Conflicting" /\ h.at = g.at /\ h.epoch = g.epoch + 1
        /\ h.gen = g.gen /\ h.armed = g.armed /\ h.dirty = g.dirty
        /\ h.bytes = g.bytes
    BY <2>1, PublishVisibility DEF Visibility
  <2> QED  BY <1>2, <2>2 DEF CpuVisible, Moves, PageState
<1>3. CASE g.vis \in CpuVisible /\ (writing \/ g.vis = "CpuNewer")
  <2> DEFINE k == revoke_direct_access(g)
  <2>1. h = publish_visibility(k, "Clean")
    BY <1>3, Zenon DEF prepare_resident, CpuVisible
  <2>2. /\ k \in PageState /\ k.at = g.at /\ k.epoch = g.epoch + 1 /\ k.gen = g.gen
        /\ k.armed = g.armed /\ k.dirty = g.dirty /\ k.bytes = g.bytes
    BY RevokeDirectAccess, Zenon
  <2> HIDE DEF k
  <2>3. /\ h \in PageState /\ AliasOK(h)
        /\ h.vis = "Clean" /\ h.at = k.at /\ h.epoch = k.epoch + 1
        /\ h.gen = k.gen /\ h.armed = k.armed /\ h.dirty = k.dirty
        /\ h.bytes = k.bytes
    BY <2>1, <2>2, PublishVisibility DEF Visibility
  <2> QED  BY <1>3, <2>2, <2>3 DEF CpuVisible, Moves, PageState
<1>4. CASE g.vis \in {"GpuNewer", "Invalid"}
  <2>1. h = g
    BY <1>4, Zenon DEF prepare_resident, CpuVisible
  <2> QED  BY <1>4, <2>1 DEF CpuVisible, Moves, PageState
<1> QED  BY <1>1, <1>2, <1>3, <1>4, Zenon DEF CpuVisible, PageState, Visibility

\* Preparing a device write uploads the pages the device does not have.
LEMMA PrepareWriteStep ==
  ASSUME PageConfiguration, VisibilityInv, PrepareWrite
  PROVE  VisibilityInv'
<1> DEFINE o == act[Owner]
           ps == o.pages
           w == writes + 1
<1>1. /\ Types /\ Owner \in Actor /\ act \in [Actor -> Activity] /\ o \in Activity
      /\ page \in [Page -> PageState] /\ point \in Nat /\ writes \in 0 .. MaxWrites
      /\ unread \in [Resource -> Bytes] /\ mirror \in [Page -> Mirror \cup {None}]
      /\ ActorOK(Owner) /\ MaxWrites \in Nat /\ loose \subseteq 1 .. writes
  BY DEF VisibilityInv, Types, Actor, PageConfiguration
<1>2. /\ o.pc = "gate" /\ o.op = "prepare" /\ pending' = None /\ writes < MaxWrites
      /\ point' = point + 1
      /\ UNCHANGED <<requests, dep, truth, loose>>
  BY Zenon DEF PrepareWrite, Exclusive
<1>3. /\ page' = [p \in Page |-> IF p \in ps THEN prepare_resident(page[p], TRUE) ELSE page[p]]
      /\ mirror' = [p \in Page |-> IF p \in ps /\ page[p].vis \in CpuVisible
                                   THEN [bytes |-> page[p].bytes, completed |-> 0]
                                   ELSE mirror[p]]
  BY Zenon DEF PrepareWrite
<1>4. ps \in Resource /\ ps \subseteq Page
  BY <1>1, <1>2, Zenon DEF VisibilityInv, PublishOK, Activity
<1>5. /\ point' \in Nat /\ point <= point' /\ point < point' /\ w \in 1 .. MaxWrites
  BY <1>1, <1>2
<1>6. \/ Refused(Owner) /\ UNCHANGED <<unread, writes>>
      \/ /\ unread' = [unread EXCEPT ![ps] = @ \cup {w}] /\ writes' = w
         /\ act' = [act EXCEPT ![Owner].op = "publish", ![Owner].at = w]
         /\ UNCHANGED <<leased, ring, batch>>
  BY Zenon DEF PrepareWrite
<1>7. /\ unread' \in [Resource -> Bytes] /\ writes' \in 0 .. MaxWrites
      /\ 1 .. writes \subseteq 1 .. writes'
      /\ \A d \in Resource : unread[d] \subseteq unread'[d]
  <2>1. unread[ps] \cup {w} \in Bytes
    BY <1>1, <1>4, <1>5, Zenon DEF Bytes
  <2>2. CASE UNCHANGED <<unread, writes>>
    BY <1>1, <2>2, Zenon
  <2>3. CASE unread' = [unread EXCEPT ![ps] = @ \cup {w}] /\ writes' = w
    BY <1>1, <1>4, <1>5, <2>1, <2>3
  <2> QED  BY <1>6, <2>2, <2>3, Zenon
<1>8. ASSUME NEW p \in Page
      PROVE  /\ page'[p] \in PageState /\ AliasOK(page'[p]) /\ Moves(page[p], page'[p], loose')
             /\ page'[p].at = page[p].at /\ page'[p].bytes = page[p].bytes
             /\ p \in ps => page'[p].vis = IF page[p].vis \in CpuVisible THEN "Clean" ELSE page[p].vis
             /\ p \notin ps => page'[p] = page[p]
  <2> DEFINE g == page[p]
             h == prepare_resident(g, TRUE)
  <2>1. g \in PageState /\ AliasOK(g)
    BY <1>1, Zenon DEF VisibilityInv, PageOK, AliasOK
  <2>2. CASE p \in ps
    <3>1. page'[p] = h
      BY <1>3, <2>2, Zenon
    <3>2. /\ h \in PageState /\ AliasOK(h) /\ Moves(g, h, loose')
          /\ h.at = g.at /\ h.bytes = g.bytes
          /\ h.vis = IF g.vis \in CpuVisible THEN "Clean" ELSE g.vis
      BY <2>1, PrepareResident, Zenon
    <3> HIDE DEF h
    <3> QED  BY <2>2, <3>1, <3>2, Zenon
  <2>3. CASE p \notin ps
    <3>1. page'[p] = g
      BY <1>3, <2>3, Zenon
    <3>2. Moves(g, g, loose')
      BY <2>1 DEF Moves, PageState
    <3> QED  BY <2>1, <2>3, <3>1, <3>2, Zenon
  <2> QED  BY <2>2, <2>3, Zenon
<1>9. page' \in [Page -> PageState]
  <2>1. page' = [p \in Page |-> page'[p]]
    BY <1>3, Zenon
  <2> QED  BY <1>8, <2>1, Zenon
<1>10. ASSUME NEW p \in Page
       PROVE  /\ mirror'[p] \in Mirror \cup {None}
              /\ p \in ps /\ page[p].vis \in CpuVisible =>
                   mirror'[p].bytes = page[p].bytes /\ mirror'[p].completed = 0
              /\ ~(p \in ps /\ page[p].vis \in CpuVisible) => mirror'[p] = mirror[p]
  <2>1. page[p].bytes \in Bytes
    BY <1>1, Zenon DEF PageState
  <2> QED  BY <1>1, <1>3, <2>1, Zenon DEF Mirror
<1>11. mirror' \in [Page -> Mirror \cup {None}]
  <2>1. mirror' = [p \in Page |-> mirror'[p]]
    BY <1>3, Zenon
  <2> QED  BY <1>10, <2>1, Zenon
<1>12. /\ act' \in [Actor -> Activity]
       /\ \A b \in Actor \ {Owner} : act'[b] = act[b]
       /\ ActorOK(Owner)' /\ ReadBackOK(Owner)' /\ StagedOK(Owner)'
       /\ \/ PublishOK'
          \/ /\ act'[Owner].op = "publish" /\ act'[Owner].pages = ps /\ act'[Owner].at = w
             /\ unread' = [unread EXCEPT ![ps] = @ \cup {w}]
       /\ leased' \subseteq Vcpu /\ ring' \in {Host, None} /\ DOMAIN batch' = {Host, Owner}
       /\ \A b \in {Host, Owner} \ {Owner} : batch'[b] = batch[b]
  <2>1. CASE Refused(Owner)
    BY <1>1, <2>1, EndActivity, Zenon
  <2>2. CASE /\ unread' = [unread EXCEPT ![ps] = @ \cup {w}]
             /\ act' = [act EXCEPT ![Owner].op = "publish", ![Owner].at = w]
             /\ UNCHANGED <<leased, ring, batch>>
    <3> DEFINE r == [o EXCEPT !.op = "publish", !.at = w]
    <3>1. act' = [act EXCEPT ![Owner] = r]
      BY <1>1, <2>2, Zenon
    <3>2. "publish" \in Op /\ w \in Nat
      BY <1>5 DEF Op
    <3> HIDE DEF w
    <3>3. r \in Activity
      BY <1>1, <3>2, Zenon DEF Activity
    <3>4. /\ r.op = "publish" /\ r.at = w /\ r.pages = ps /\ r.pc = o.pc /\ r.todo = o.todo
          /\ r.cur = o.cur /\ r.reply = o.reply
      BY <1>1, Zenon DEF Activity
    <3> HIDE DEF r
    <3>5. /\ act'[Owner] = r /\ act' \in [Actor -> Activity]
          /\ \A b \in Actor \ {Owner} : act'[b] = act[b]
      BY <1>1, <3>1, <3>3, Zenon
    <3>6. ActorOK(Owner)' /\ ReadBackOK(Owner)' /\ StagedOK(Owner)'
      BY <1>1, <1>2, <3>4, <3>5, Zenon DEF ActorOK, ReadBackOK, StagedOK, Asking
    <3> QED  BY <1>1, <2>2, <3>4, <3>5, <3>6, Zenon DEF Types
  <2> QED  BY <1>6, <2>1, <2>2, Zenon
<1>13. Types'
  BY <1>1, <1>2, <1>5, <1>7, <1>9, <1>11, <1>12, Zenon DEF Types
<1>14. ASSUME NEW p \in Page
       PROVE  /\ DeviceBytes(p) \subseteq DeviceBytes(p)'
  BY <1>7, Zenon DEF DeviceBytes
<1>15. ASSUME NEW p \in Page PROVE PageOK(p)'
  <2> DEFINE g == page[p]
             m == mirror[p]
  <2>1. /\ PageOK(p) /\ g.at \in Nat /\ m \in Mirror \cup {None}
    BY <1>1, Zenon DEF VisibilityInv, PageState
  <2>2. m # None => m.completed \in Nat /\ m.completed <= point
    BY <2>1, Zenon DEF PageOK, Mirror
  <2>3. page'[p].at <= point' /\ (mirror'[p] # None => mirror'[p].completed <= point')
    BY <1>1, <1>5, <1>8, <1>10, <2>1, <2>2 DEF PageOK
  <2>4. CASE p \in ps /\ g.vis \in CpuVisible
    <3>1. page'[p].vis = "Clean" /\ page'[p].bytes = g.bytes /\ truth[p] \ loose \subseteq g.bytes
      BY <1>8, <2>1, <2>4, Zenon DEF PageOK
    <3> QED  BY <1>2, <1>8, <2>3, <3>1, Zenon DEF PageOK, AliasOK, CpuVisible
  <2>5. CASE ~(p \in ps /\ g.vis \in CpuVisible)
    <3>1. mirror'[p] = m /\ page'[p].vis = g.vis /\ page'[p].at = g.at /\ page'[p].bytes = g.bytes
          /\ AliasOK(page'[p])
      BY <1>8, <1>10, <2>5, Zenon
    <3>2. DeviceBytes(p) \subseteq DeviceBytes(p)'
      BY <1>14, Zenon
    <3>3. /\ g.vis \in CpuVisible => truth[p] \ loose \subseteq g.bytes
          /\ g.vis = "GpuNewer" /\ m # None => truth[p] \ loose \subseteq m.bytes \cup DeviceBytes(p)
          /\ g.vis = "GpuNewer" /\ m # None /\ m.completed >= g.at => truth[p] \ loose \subseteq m.bytes
      BY <2>1, Zenon DEF PageOK
    <3> QED  BY <1>2, <2>3, <3>1, <3>2, <3>3, Zenon DEF PageOK, AliasOK
  <2> QED  BY <2>4, <2>5, Zenon
<1>16. PagesMove
  BY <1>8, Zenon DEF PagesMove
<1>17. DeviceKeeps
  BY <1>2, <1>10, Zenon DEF DeviceKeeps, CpuVisible
<1>18. PublishOK'
  <2>1. CASE /\ act'[Owner].op = "publish" /\ act'[Owner].pages = ps /\ act'[Owner].at = w
             /\ unread' = [unread EXCEPT ![ps] = @ \cup {w}]
    <3>1. w \in unread'[ps]
      BY <1>1, <1>4, <2>1, Zenon
    <3>2. ASSUME NEW p \in ps, mirror'[p] # None
          PROVE  /\ mirror'[p].completed < point'
                 /\ page'[p].vis = "Clean" =>
                      truth[p] \ loose \subseteq mirror'[p].bytes
      <4> DEFINE g == page[p]
                 m == mirror[p]
      <4>1. p \in Page /\ PageOK(p) /\ m \in Mirror \cup {None}
        BY <1>1, <1>4, Zenon DEF VisibilityInv
      <4>2. CASE g.vis \in CpuVisible
        <5>1. truth[p] \ loose \subseteq g.bytes
          BY <4>1, <4>2, Zenon DEF PageOK
        <5>2. mirror'[p].bytes = g.bytes /\ mirror'[p].completed = 0
          BY <1>10, <4>1, <4>2, Zenon
        <5> QED  BY <1>2, <1>1, <5>1, <5>2
      <4>3. CASE g.vis \notin CpuVisible
        <5>1. mirror'[p] = m /\ page'[p].vis = g.vis
          BY <1>8, <1>10, <4>1, <4>3, Zenon
        <5>2. m.completed \in Nat /\ m.completed <= point
          BY <3>2, <4>1, <5>1, Zenon DEF PageOK, Mirror
        <5>3. m.completed < point'
          BY <1>1, <1>5, <5>2
        <5> QED  BY <4>3, <5>1, <5>3, Zenon DEF CpuVisible
      <4> QED  BY <4>2, <4>3, Zenon
    <3> HIDE DEF w, ps
    <3> QED  BY <1>2, <1>4, <2>1, <3>1, <3>2, Zenon DEF PublishOK
  <2> QED  BY <1>12, <2>1, Zenon
<1>19. RequestsOK'
  BY <1>1, <1>2, <1>12, RequestsFrame, Zenon
<1>20. DependencyOK'
  BY <1>1, <1>2, <1>13, <1>16, DependencyFrame, Zenon DEF VisibilityInv
<1>21. loose \subseteq loose'
  BY <1>2, Zenon
<1> QED  BY <1>1, <1>5, <1>12, <1>13, <1>15, <1>16, <1>17, <1>18, <1>19, <1>20, <1>21, StepOf, Zenon

\* What a step owes a page when the device resources stay as they are.
Kept(p) ==
  /\ PageOK(p)' /\ Moves(page[p], page'[p], loose') /\ mirror'[p] \in {mirror[p], None}
  /\ page[p].vis = "GpuNewer" /\ page'[p].epoch = page[p].epoch =>
       truth'[p] \ loose' \subseteq truth[p] \ loose
  /\ act'[Owner].op = "publish" /\ page'[p].vis = "Clean" =>
       \/ mirror'[p] = None
       \/ page[p].vis = "Clean" /\ truth'[p] \ loose' \subseteq truth[p] \ loose

\* A page no step touches is kept.
LEMMA UntouchedKept ==
  ASSUME VisibilityInv, Types', unread' = unread, point <= point', NEW p \in Page, Untouched(p)
  PROVE  Kept(p)
<1>1. Types
  BY Zenon DEF VisibilityInv
<1>2. PageOK(p)' /\ Moves(page[p], page'[p], loose')
  BY <1>1, PageFrame, UntouchedMoves, Zenon
<1> QED  BY <1>2, Zenon DEF Kept, Untouched

\* A step that keeps every page keeps the invariant.
LEMMA KeptStep ==
  ASSUME VisibilityInv, Types', NEW a \in Actor, \A p \in Page : Kept(p),
         unread' = unread, point <= point', loose \subseteq loose',
         \A b \in Actor \ {a} : act'[b] = act[b],
         \A b \in {Host, Owner} \ {a} : batch'[b] = batch[b],
         requests' = requests, act[a].pc # "asked",
         DependencyOK' \/ dep' = dep,
         ActorOK(a)', ReadBackOK(a)', a \in {Host, Owner} => StagedOK(a)',
         a = Owner => PublishOK'
  PROVE  VisibilityInv'
<1>1. PagesMove /\ DeviceKeeps
  BY Zenon DEF PagesMove, DeviceKeeps, Kept
<1>2. \A p \in Page : PageOK(p)'
  BY Zenon DEF Kept
<1>3. RequestsOK'
  BY RequestsFrame, Zenon
<1>4. Types /\ DependencyOK
  BY Zenon DEF VisibilityInv
<1>5. DependencyOK'
  BY <1>1, <1>4, DependencyFrame, Zenon
<1>6. PublishOK'
  <2>1. CASE a # Owner /\ act'[Owner].op = "publish"
    <3>1. act'[Owner] = act[Owner]
      BY <2>1, Zenon DEF Actor
    <3>2. /\ \A p \in Page : mirror'[p] \in {mirror[p], None}
          /\ \A p \in Page : page'[p].vis = "Clean" =>
               \/ mirror'[p] = None
               \/ page[p].vis = "Clean" /\ truth'[p] \ loose' \subseteq truth[p] \ loose
      BY <2>1, Zenon DEF Kept
    <3> QED  BY <3>1, <3>2, PublishFrame, Zenon
  <2>2. CASE a # Owner /\ act'[Owner].op # "publish"
    <3>1. act'[Owner] = act[Owner]
      BY <2>2, Zenon DEF Actor
    <3> QED  BY <2>2, <3>1, Zenon DEF PublishOK, VisibilityInv
  <2> QED  BY <2>1, <2>2, Zenon
<1> QED  BY <1>1, <1>2, <1>3, <1>5, <1>6, StepOf, Zenon

\* Publishing a device write on a page.
LEMMA PublishDeviceWrite ==
  ASSUME NEW g \in PageState, NEW at \in Nat, NEW h, h = publish_device_write(g, at),
         NEW free
  PROVE  /\ h \in PageState /\ AliasOK(h) /\ Moves(g, h, free)
         /\ h.epoch > g.epoch
         /\ IF g.vis \in {"Clean", "GpuNewer"}
            THEN h.vis = "GpuNewer" /\ h.at = at
            ELSE h.vis \in {"Conflicting", "Invalid"} /\ h.at = g.at
<1> DEFINE k == revoke_direct_access(g)
<1>1. /\ k \in PageState /\ AliasOK(k) /\ k.vis = g.vis /\ k.at = g.at
      /\ k.epoch = g.epoch + 1 /\ k.gen = g.gen
      /\ k.armed = g.armed /\ k.dirty = g.dirty /\ k.bytes = g.bytes
  BY RevokeDirectAccess, Zenon
<1>2. CASE g.vis \in {"Clean", "GpuNewer"}
  <2> DEFINE f == publish_visibility(k, "GpuNewer")
  <2>1. h = [f EXCEPT !.at = at]
    BY <1>2, Zenon DEF publish_device_write
  <2> HIDE DEF k
  <2>2. /\ f \in PageState /\ AliasOK(f) /\ f.vis = "GpuNewer"
        /\ f.epoch = k.epoch + 1 /\ f.gen = k.gen
        /\ f.armed = k.armed /\ f.dirty = k.dirty /\ f.bytes = k.bytes
    BY <1>1, PublishVisibility DEF Visibility
  <2> HIDE DEF f
  <2>3. h \in PageState
    BY <2>1, <2>2, Zenon DEF PageState
  <2>4. /\ h.vis = f.vis /\ h.epoch = f.epoch /\ h.gen = f.gen /\ h.prot = f.prot
        /\ h.at = at /\ h.armed = f.armed /\ h.dirty = f.dirty /\ h.bytes = f.bytes
    BY <2>1, <2>2, Zenon DEF PageState
  <2> QED  BY <1>1, <1>2, <2>2, <2>3, <2>4 DEF Moves, AliasOK, PageState
<1>3. CASE g.vis \in {"CpuNewer", "Conflicting"}
  <2>1. h = publish_visibility(k, "Conflicting")
    BY <1>3, Zenon DEF publish_device_write
  <2> HIDE DEF k
  <2>2. /\ h \in PageState /\ AliasOK(h)
        /\ h.vis = "Conflicting" /\ h.at = k.at /\ h.epoch = k.epoch + 1
        /\ h.gen = k.gen /\ h.armed = k.armed /\ h.dirty = k.dirty
        /\ h.bytes = k.bytes
    BY <1>1, <2>1, PublishVisibility DEF Visibility
  <2> QED  BY <1>1, <1>3, <2>2 DEF Moves, PageState
<1>4. CASE g.vis = "Invalid"
  <2>1. h = k
    BY <1>4, Zenon DEF publish_device_write
  <2> HIDE DEF k
  <2> QED  BY <1>1, <1>4, <2>1 DEF Moves, PageState
<1> QED  BY <1>2, <1>3, <1>4, Zenon DEF PageState, Visibility

\* Publishing a device write makes the pages of the resource newer on the device.
LEMMA PublishWriteStep ==
  ASSUME PageConfiguration, VisibilityInv, PublishWrite
  PROVE  VisibilityInv'
<1> DEFINE o == act[Owner]
           ps == o.pages
           w == o.at
<1>1. /\ Types /\ Owner \in Actor /\ act \in [Actor -> Activity] /\ o \in Activity
      /\ page \in [Page -> PageState] /\ point \in Nat /\ truth \in [Page -> Bytes]
      /\ unread \in [Resource -> Bytes] /\ mirror \in [Page -> Mirror \cup {None}]
      /\ ActorOK(Owner)
  BY Zenon DEF VisibilityInv, Types, Actor
<1>2. /\ o.pc = "gate" /\ o.op = "publish" /\ pending' = None
      /\ UNCHANGED <<mirror, unread, leased, ring, requests, batch, dep, point, writes, loose>>
  BY Zenon DEF PublishWrite, Exclusive
<1>3. /\ page' = [p \in Page |-> IF p \in ps THEN publish_device_write(page[p], point) ELSE page[p]]
      /\ truth' = [p \in Page |-> IF p \in ps THEN truth[p] \cup {w} ELSE truth[p]]
  BY Zenon DEF PublishWrite
<1>4. /\ ps \in Resource /\ w \in unread[ps]
      /\ \A p \in ps : mirror[p] # None =>
           /\ mirror[p].completed < point
           /\ page[p].vis = "Clean" =>
                truth[p] \ loose \subseteq mirror[p].bytes \cup DeviceBytes(p)
  BY <1>2, Zenon DEF VisibilityInv, PublishOK
<1>5. ps \subseteq Page /\ w \in 1 .. MaxWrites
  BY <1>1, <1>4, Zenon DEF Activity, Bytes
<1>6. truth' \in [Page -> Bytes]
  <2>1. \A p \in Page : truth[p] \cup {w} \in Bytes /\ truth[p] \in Bytes
    BY <1>1, <1>5, Zenon DEF Bytes
  <2> QED  BY <1>3, <2>1, Zenon
<1>7. ASSUME NEW p \in ps
      PROVE  /\ page'[p] \in PageState /\ AliasOK(page'[p]) /\ Moves(page[p], page'[p], loose')
             /\ page'[p].epoch # page[p].epoch /\ page'[p].vis \notin CpuVisible
             /\ page'[p].vis = "GpuNewer" =>
                  page[p].vis \in {"Clean", "GpuNewer"} /\ page'[p].at = point
             /\ page'[p].at <= point
  <2> DEFINE g == page[p]
             h == publish_device_write(g, point)
  <2>1. p \in Page /\ g \in PageState /\ g.epoch \in Nat /\ g.at <= point /\ page'[p] = h
    BY <1>1, <1>3, <1>5, Zenon DEF VisibilityInv, PageOK, PageState
  <2>2. /\ h \in PageState /\ AliasOK(h) /\ Moves(g, h, loose')
        /\ h.epoch > g.epoch
        /\ IF g.vis \in {"Clean", "GpuNewer"}
           THEN h.vis = "GpuNewer" /\ h.at = point
           ELSE h.vis \in {"Conflicting", "Invalid"} /\ h.at = g.at
    BY <1>1, <2>1, PublishDeviceWrite
  <2> HIDE DEF h
  <2>3. h.epoch \in Nat
    BY <2>2, Zenon DEF PageState
  <2> QED  BY <1>1, <2>1, <2>2, <2>3 DEF CpuVisible
<1>8. \A p \in Page \ ps : page'[p] = page[p] /\ truth'[p] = truth[p]
  BY <1>3, Zenon
<1>9. page' \in [Page -> PageState]
  <2>1. page' = [p \in Page |-> page'[p]]
    BY <1>3, Zenon
  <2> QED  BY <1>1, <1>5, <1>7, <1>8, <2>1, Zenon
<1>10. PICK r \in Activity :
         /\ act' = [act EXCEPT ![Owner] = r] /\ r.pc \in {"gate", "idle"}
         /\ r.op \in {"none", "invalidate"} /\ r.todo \subseteq r.pages /\ r.reply = None
         /\ r.pc = "gate" => r.cur \in Page
  <2>1. CASE act' = [act EXCEPT ![Owner] = Idle]
    <3>1. Idle = [Idle EXCEPT !.pc = "idle"] /\ "idle" \in Pc
      BY DEF Idle, Pc
    <3>2. Idle \in Activity /\ Idle.op = "none" /\ Idle.pc = "idle" /\ Idle.todo = {} /\ Idle.reply = None
      BY <3>1, IdleActivity, Zenon
    <3> QED  BY <2>1, <3>2, Zenon
  <2>2. CASE act' = [act EXCEPT ![Owner] = [@ EXCEPT !.op = "invalidate"]]
    <3> DEFINE r == [o EXCEPT !.op = "invalidate"]
    <3>1. r \in Activity
      <4>1. "invalidate" \in Op
        BY Zenon DEF Op
      <4> QED  BY <1>1, <4>1, Zenon DEF Activity
    <3>2. /\ r.pc = o.pc /\ r.op = "invalidate" /\ r.todo = o.todo /\ r.pages = o.pages
          /\ r.reply = o.reply /\ r.cur = o.cur
      BY <1>1, Zenon DEF Activity
    <3>3. act' = [act EXCEPT ![Owner] = r]
      BY <1>1, <2>2, Zenon
    <3> HIDE DEF r
    <3> QED  BY <1>1, <1>2, <3>1, <3>2, <3>3, Zenon DEF ActorOK
  <2> QED  BY <2>1, <2>2, Zenon DEF PublishWrite
<1>11. /\ act'[Owner] = r /\ act' \in [Actor -> Activity]
       /\ \A b \in Actor \ {Owner} : act'[b] = act[b]
  BY <1>1, <1>10, Zenon
<1>12. Types'
  BY <1>1, <1>2, <1>6, <1>9, <1>11, Zenon DEF Types
<1>13. ASSUME NEW p \in Page PROVE Kept(p)
  <2>1. CASE p \notin ps
    <3>1. Untouched(p)
      BY <1>2, <1>8, <2>1, Zenon DEF Untouched
    <3> QED  BY <1>1, <1>2, <1>12, <3>1, UntouchedKept
  <2>2. CASE p \in ps
    <3>1. truth'[p] = truth[p] \cup {w} /\ PageOK(p) /\ DeviceBytes(p)' = DeviceBytes(p)
          /\ mirror[p] \in Mirror \cup {None}
      BY <1>1, <1>2, <1>3, <2>2, Zenon DEF VisibilityInv, DeviceBytes
    <3>2. w \in DeviceBytes(p)
      BY <1>4, <2>2, Zenon DEF DeviceBytes
    <3>3. ASSUME page[p].vis \in {"Clean", "GpuNewer"}, mirror[p] # None
          PROVE  /\ truth[p] \ loose \subseteq mirror[p].bytes \cup DeviceBytes(p)
                 /\ ~(mirror[p].completed >= point)
      <4>1. mirror[p].completed \in Nat /\ mirror[p].completed < point
        BY <1>4, <2>2, <3>1, <3>3, Zenon DEF Mirror
      <4>2. truth[p] \ loose \subseteq mirror[p].bytes \cup DeviceBytes(p)
        BY <1>4, <2>2, <3>1, <3>3, Zenon DEF PageOK
      <4> QED  BY <1>1, <4>1, <4>2
    <3>4. mirror[p] # None => mirror[p].completed <= point
      BY <3>1, Zenon DEF PageOK
    <3>5. PageOK(p)'
      BY <1>2, <1>7, <2>2, <3>1, <3>2, <3>3, <3>4, Zenon DEF PageOK, AliasOK
    <3>6. page'[p].vis # "Clean"
      BY <1>7, <2>2, Zenon DEF CpuVisible
    <3> QED  BY <1>2, <1>7, <2>2, <3>5, <3>6, Zenon DEF Kept
  <2> QED  BY <2>1, <2>2, Zenon
<1>14. ActorOK(Owner)' /\ ReadBackOK(Owner)' /\ StagedOK(Owner)' /\ PublishOK'
  BY <1>10, <1>11, Zenon DEF ActorOK, ReadBackOK, StagedOK, PublishOK, Asking
<1> QED  BY <1>1, <1>2, <1>11, <1>12, <1>13, <1>14, KeptStep

=============================================================================
