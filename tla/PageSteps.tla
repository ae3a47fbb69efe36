----------------------------- MODULE PageSteps ------------------------------
(***************************************************************************)
(* The steps that move canonical bytes: committed batches, staging, read-backs*)
(* brought home, faults that take a page for the CPU, native stores and kernel*)
(* words.                                                                  *)
(***************************************************************************)
EXTENDS PageTransitions

-----------------------------------------------------------------------------
(* Committing and staging a batch.                                          *)

\* A page whose bytes and authority follow the rules of a transition is kept.
LEMMA PageKept ==
  ASSUME VisibilityInv, UNCHANGED <<mirror, unread>>, point' \in Nat, point <= point',
         NEW q \in Page, NEW h \in PageState, page'[q] = h,
         AliasOK(h), Moves(page[q], h, loose'), h.at = page[q].at,
         \/ /\ h.vis \notin {"GpuNewer", "Clean"}
            /\ h.vis \in CpuVisible => truth'[q] \ loose' \subseteq h.bytes
            /\ page[q].vis = "GpuNewer" => h.epoch # page[q].epoch
         \/ /\ truth'[q] \ loose' \subseteq truth[q] \ loose /\ page[q].bytes \subseteq h.bytes
            /\ \/ h.vis = page[q].vis
               \/ page[q].vis \in CpuVisible /\ h.vis = "Clean" /\ act'[Owner].op # "publish"
  PROVE  Kept(q)
<1> DEFINE g == page[q]
           m == mirror[q]
<1>1. /\ PageOK(q) /\ DeviceBytes(q)' = DeviceBytes(q) /\ point \in Nat /\ g.at \in Nat
      /\ m \in Mirror \cup {None}
  BY DEF VisibilityInv, DeviceBytes, Types, PageState
<1>2. /\ g.vis \in CpuVisible => truth[q] \ loose \subseteq g.bytes
      /\ g.vis = "GpuNewer" /\ m # None => truth[q] \ loose \subseteq m.bytes \cup DeviceBytes(q)
      /\ g.vis = "GpuNewer" /\ m # None /\ m.completed >= g.at => truth[q] \ loose \subseteq m.bytes
  BY <1>1, Zenon DEF PageOK
<1>3. h.at <= point' /\ (m # None => m.completed <= point')
  <2>1. g.at <= point /\ (m # None => m.completed <= point)
    BY <1>1, Zenon DEF PageOK
  <2>2. m # None => m.completed \in Nat
    BY <1>1, Zenon DEF Mirror
  <2> QED  BY <1>1, <2>1, <2>2
<1>4. mirror'[q] = m
  BY Zenon
<1>5. PageOK(q)'
  <2>1. /\ h.vis \in CpuVisible => truth'[q] \ loose' \subseteq h.bytes
        /\ h.vis = "GpuNewer" => truth'[q] \ loose' \subseteq truth[q] \ loose /\ g.vis = "GpuNewer"
    BY <1>2, Zenon DEF CpuVisible
  <2> QED  BY <1>1, <1>2, <1>3, <1>4, <2>1, Zenon DEF PageOK, AliasOK
<1> QED  BY <1>4, <1>5, Zenon DEF Kept

\* Recording a CPU write on a page.
LEMMA PublishCpuDirty ==
  ASSUME NEW g \in PageState, AliasOK(g), NEW h, h = publish_cpu_dirty(g)
  PROVE  /\ h \in PageState /\ AliasOK(h)
         /\ h.vis = g.vis /\ h.at = g.at /\ h.epoch = g.epoch /\ h.gen = g.gen
         /\ h.bytes = g.bytes /\ ~h.armed
         /\ h.dirty = IF g.armed THEN g.dirty + 1 ELSE g.dirty
<1>1. CASE ~g.armed
  BY <1>1, Zenon DEF publish_cpu_dirty, PageState
<1>2. CASE g.armed
  <2> DEFINE q == protection(g.vis, FALSE)
             d == g.dirty + 1
  <2>1. g.vis \in Visibility /\ d \in Nat
    BY DEF PageState
  <2>2. /\ q \in {"None", "Read", "ReadWrite"}
        /\ q # "None" => g.vis \in CpuVisible
        /\ q = "ReadWrite" => g.vis = "CpuNewer"
    BY <2>1, ProtectionOK, Zenon
  <2>3. h = [g EXCEPT !.armed = FALSE, !.dirty = d, !.prot = q]
    BY <1>2, Zenon DEF publish_cpu_dirty
  <2> HIDE DEF q, d
  <2>4. h \in PageState
    BY <2>1, <2>2, <2>3, Zenon DEF PageState
  <2>5. /\ h.vis = g.vis /\ h.at = g.at /\ h.epoch = g.epoch /\ h.gen = g.gen
        /\ h.prot = q /\ h.armed = FALSE /\ h.dirty = d /\ h.bytes = g.bytes
    BY <2>3, Zenon DEF PageState
  <2> QED  BY <1>2, <2>2, <2>4, <2>5, Zenon DEF AliasOK, d
<1> QED  BY <1>1, <1>2, Zenon

\* The page a commit leaves.
Committed(g, new) ==
  [publish_cpu_dirty([g EXCEPT !.vis = "CpuNewer"]) EXCEPT
     !.bytes = new, !.gen = @ + 1, !.epoch = @ + 1]

\* Committing staged bytes to a page.
LEMMA CommittedPage ==
  ASSUME NEW g \in PageState, AliasOK(g), g.vis \in CpuVisible, NEW new \in Bytes,
         NEW h, h = Committed(g, new), NEW free
  PROVE  /\ h \in PageState /\ AliasOK(h) /\ Moves(g, h, free)
         /\ h.vis = "CpuNewer" /\ h.at = g.at /\ h.epoch > g.epoch /\ h.bytes = new
<1> DEFINE f == [g EXCEPT !.vis = "CpuNewer"]
           k == publish_cpu_dirty(f)
           n == k.gen + 1
           e == k.epoch + 1
<1>1. f \in PageState
  BY Zenon DEF PageState, Visibility
<1>2. /\ f.vis = "CpuNewer" /\ f.at = g.at /\ f.epoch = g.epoch /\ f.gen = g.gen
      /\ f.prot = g.prot /\ f.armed = g.armed /\ f.dirty = g.dirty /\ f.bytes = g.bytes
  BY Zenon DEF PageState
<1>3. AliasOK(f)
  BY <1>2, Zenon DEF AliasOK, CpuVisible
<1> HIDE DEF f
<1>4. /\ k \in PageState /\ AliasOK(k)
      /\ k.vis = f.vis /\ k.at = f.at /\ k.epoch = f.epoch /\ k.gen = f.gen
      /\ ~k.armed /\ k.dirty = IF f.armed THEN f.dirty + 1 ELSE f.dirty
  BY <1>1, <1>3, PublishCpuDirty, Zenon
<1>5. n \in Nat /\ e \in Nat
  BY <1>4 DEF PageState
<1>6. h = [k EXCEPT !.bytes = new, !.gen = n, !.epoch = e]
  BY Zenon DEF Committed, f
<1> HIDE DEF k, n, e
<1>7. h \in PageState
  BY <1>4, <1>5, <1>6, Zenon DEF PageState
<1>8. /\ h.vis = k.vis /\ h.at = k.at /\ h.epoch = e /\ h.gen = n
      /\ h.prot = k.prot /\ h.armed = k.armed /\ h.dirty = k.dirty /\ h.bytes = new
  BY <1>4, <1>6, Zenon DEF PageState
<1> QED  BY <1>2, <1>4, <1>7, <1>8 DEF Moves, AliasOK, PageState, n, e

\* A retry starts the same operation over.
LEMMA AgainActivity ==
  ASSUME VisibilityInv, NEW a \in Actor, act[a].pc = "gate",
         act[a].op \notin {"commit", "publish"}, Again(a)
  PROVE  \E r \in Activity :
           /\ act' = [act EXCEPT ![a] = r]
           /\ r.op = act[a].op /\ r.pages = act[a].pages /\ r.pc \notin Asking
           /\ ActorOK(a)'
<1> DEFINE r == [act[a] EXCEPT !.pc = "look", !.todo = act[a].pages]
<1>1. act[a] \in Activity /\ act \in [Actor -> Activity] /\ ActorOK(a)
  BY Zenon DEF VisibilityInv, Types
<1>2. act' = [act EXCEPT ![a] = r]
  BY <1>1, Zenon DEF Again
<1>3. /\ r.op = act[a].op /\ r.pages = act[a].pages /\ r.pc = "look"
      /\ r.todo = act[a].pages /\ r.cur = act[a].cur /\ r.reply = act[a].reply
  BY <1>1, Zenon DEF Activity
<1>6. r \in Activity
  <2>1. "look" \in Pc /\ act[a].pages \in SUBSET Page
    BY <1>1, Zenon DEF Activity, Pc
  <2> QED  BY <1>1, <2>1, Zenon DEF Activity
<1> HIDE DEF r
<1>4. act'[a] = r
  BY <1>1, <1>2, Zenon
<1>5. ActorOK(a)'
  BY <1>1, <1>3, <1>4, Zenon DEF ActorOK
<1> QED  BY <1>2, <1>3, <1>5, <1>6, Zenon DEF Asking

\* Ending, refusing or retrying an operation while every page stays as it is.
LEMMA QuietEnd ==
  ASSUME VisibilityInv,
         UNCHANGED <<page, mirror, unread, dep, point, writes, truth, loose, requests>>,
         NEW a \in Actor, act[a].pc # "asked", pending' \in {Host, Owner, None},
         \/ Refused(a)
         \/ Finish(a) /\ UNCHANGED <<leased, batch>>
         \/ /\ act[a].pc = "gate" /\ act[a].op \notin {"commit", "publish"}
            /\ Again(a) /\ UNCHANGED <<leased, ring, batch>>
         \/ /\ act[a].pc \in {"look", "relock"} /\ UNCHANGED <<leased, ring, batch>>
            /\ \E p \in Page : act' = Visible(a, p)
  PROVE  VisibilityInv'
<1>1. /\ leased \subseteq Vcpu /\ ring \in {Host, None} /\ requests \in Seq(Actor)
      /\ DOMAIN batch = {Host, Owner} /\ act \in [Actor -> Activity] /\ PublishOK
  BY Zenon DEF VisibilityInv, Types
<1>2. /\ \E r \in Activity :
           /\ act' = [act EXCEPT ![a] = r]
           /\ r.op \notin {"commit", "publish"} /\ r.pc \notin Asking
           /\ r.op = "prepare" => act[a].op = "prepare" /\ r.pages = act[a].pages
           /\ ActorOK(a)'
      /\ leased' \subseteq Vcpu /\ ring' \in {Host, None} /\ DOMAIN batch' = {Host, Owner}
      /\ \A b \in {Host, Owner} \ {a} : batch'[b] = batch[b]
  BY <1>1, VisibleActivity, RefusedActivity, FinishActivity, AgainActivity, Zenon
<1>3. PICK r \in Activity :
           /\ act' = [act EXCEPT ![a] = r]
           /\ r.op \notin {"commit", "publish"} /\ r.pc \notin Asking
           /\ r.op = "prepare" => act[a].op = "prepare" /\ r.pages = act[a].pages
           /\ ActorOK(a)'
  BY <1>2, Zenon
<1>4. act'[a] = r /\ \A b \in Actor \ {a} : act'[b] = act[b]
  BY <1>1, <1>3, Zenon
<1>5. ReadBackOK(a)'
  BY <1>3, <1>4, Zenon DEF ReadBackOK
<1>6. RequestsOK'
  BY <1>4, RequestsFrame, Zenon
<1>7. a = Owner /\ r.op = "prepare" => r.pages \in Resource
  BY <1>1, <1>3, Zenon DEF PublishOK
<1> QED  BY <1>1, <1>2, <1>3, <1>5, <1>6, <1>7, QuietStep, Zenon

\* A batch is committed only where no page moved since it was staged.
LEMMA CommitStep ==
  ASSUME PageConfiguration, VisibilityInv, NEW a \in {Host, Owner}, Commit(a)
  PROVE  VisibilityInv'
<1> DEFINE ps == act[a].pages
<1>1. /\ Types /\ a \in Actor /\ act \in [Actor -> Activity] /\ act[a] \in Activity
      /\ page \in [Page -> PageState] /\ MaxWrites \in Nat
      /\ act[a].pc = "gate" /\ act[a].op = "commit" /\ pending' = None
      /\ UNCHANGED <<mirror, unread, requests, dep, point, loose>>
  <2>1. /\ Types /\ a \in Actor /\ act \in [Actor -> Activity] /\ act[a] \in Activity
        /\ page \in [Page -> PageState] /\ MaxWrites \in Nat
    BY DEF VisibilityInv, Types, Actor, PageConfiguration
  <2>2. /\ act[a].pc = "gate" /\ act[a].op = "commit" /\ pending' = None
        /\ UNCHANGED <<mirror, unread, requests, dep, point, loose>>
    BY Zenon DEF Commit, Exclusive
  <2> QED  BY <2>1, <2>2, Zenon
<1>2. CASE Refused(a) /\ UNCHANGED <<page, writes, truth>>
  BY <1>1, <1>2, QuietEnd, Zenon
<1>3. CASE /\ Unmoved(a) /\ writes < MaxWrites
           /\ writes' = writes + 1
           /\ truth' = [p \in Page |-> IF p \in ps THEN truth[p] \cup {writes + 1} ELSE truth[p]]
           /\ page' = [p \in Page |->
                         IF p \notin ps THEN page[p]
                         ELSE Committed(page[p], batch[a][p].bytes \cup {writes + 1})]
           /\ batch' = [batch EXCEPT ![a] = <<>>]
           /\ Finish(a)
           /\ UNCHANGED leased
  <2>1. ps \subseteq Page /\ point \in Nat /\ writes \in 0 .. MaxWrites /\ truth \in [Page -> Bytes]
        /\ DOMAIN batch = {Host, Owner} /\ ring \in {Host, None} /\ leased \subseteq Vcpu
        /\ batch[a] \in [ps -> StagedPage] /\ loose \subseteq 1 .. writes
    BY <1>1, Zenon DEF Activity, Types, VisibilityInv, StagedOK
  <2>2. /\ writes + 1 \in 1 .. MaxWrites /\ writes' \in 0 .. MaxWrites
        /\ 1 .. writes \subseteq 1 .. writes'
    BY <1>1, <1>3, <2>1
  <2>3. truth' \in [Page -> Bytes] /\ loose' \subseteq 1 .. writes'
    <3>1. \A p \in Page : truth[p] \cup {writes + 1} \in Bytes /\ truth[p] \in Bytes
      BY <2>1, <2>2, Zenon DEF Bytes
    <3> QED  BY <1>1, <1>3, <2>1, <2>2, <3>1, Zenon
  <2>4. ASSUME NEW p \in ps
        PROVE  /\ page[p].vis \in CpuVisible /\ truth[p] \ loose \subseteq batch[a][p].bytes
               /\ batch[a][p].bytes \in Bytes
    <3>1. /\ page[p].gen = batch[a][p].gen /\ page[p].epoch = batch[a][p].epoch
          /\ page[p].dirty = batch[a][p].dirty /\ page[p].vis \in CpuVisible
      BY <1>3, Zenon DEF Unmoved
    <3>2. page[p].bytes \ loose \subseteq batch[a][p].bytes
      BY <1>1, <3>1, Zenon DEF VisibilityInv, StagedOK
    <3>3. truth[p] \ loose \subseteq page[p].bytes
      BY <2>1, <3>1, Zenon DEF VisibilityInv, PageOK
    <3>4. batch[a][p] \in StagedPage
      BY <2>1, Zenon
    <3> QED  BY <3>1, <3>2, <3>3, <3>4, Zenon DEF StagedPage
  <2>5. ASSUME NEW p \in ps
        PROVE  /\ page'[p] \in PageState /\ AliasOK(page'[p]) /\ Moves(page[p], page'[p], loose')
               /\ page'[p].at = page[p].at /\ page'[p].vis = "CpuNewer"
               /\ truth'[p] \ loose' \subseteq page'[p].bytes
    <3> DEFINE g == page[p]
               new == batch[a][p].bytes \cup {writes + 1}
               h == Committed(g, new)
    <3>1. p \in Page /\ g \in PageState /\ AliasOK(g)
      BY <1>1, <2>1, Zenon DEF VisibilityInv, PageOK, AliasOK
    <3>2. new \in Bytes
      BY <2>2, <2>4, Zenon DEF Bytes
    <3>3. page'[p] = h /\ truth'[p] = truth[p] \cup {writes + 1}
      BY <1>3, <3>1, Zenon
    <3>4. truth'[p] \ loose' \subseteq new
      BY <1>1, <2>4, <3>3, Zenon
    <3> HIDE DEF new
    <3>5. /\ h \in PageState /\ AliasOK(h) /\ Moves(g, h, loose')
          /\ h.vis = "CpuNewer" /\ h.at = g.at /\ h.epoch > g.epoch /\ h.bytes = new
      BY <2>4, <3>1, <3>2, CommittedPage
    <3> HIDE DEF h
    <3> QED  BY <3>3, <3>4, <3>5, Zenon
  <2>6. ASSUME NEW p \in Page \ ps
        PROVE  page'[p] = page[p] /\ truth'[p] = truth[p]
    BY <1>3, Zenon
  <2>7. page' \in [Page -> PageState]
    <3>1. page' = [p \in Page |-> page'[p]]
      BY <1>3, Zenon
    <3> QED  BY <1>1, <2>1, <2>5, <2>6, <3>1, Zenon
  <2>8. PICK r \in Activity :
              /\ act' = [act EXCEPT ![a] = r]
              /\ r.op = "none" /\ r.pc \notin Asking
              /\ ActorOK(a)'
    BY <1>1, <1>3, FinishActivity, Zenon
  <2>9. /\ act'[a] = r /\ act' \in [Actor -> Activity]
        /\ \A b \in Actor \ {a} : act'[b] = act[b]
    BY <1>1, <2>8, Zenon
  <2>10. /\ DOMAIN batch' = {Host, Owner} /\ ring' \in {Host, None}
         /\ \A b \in {Host, Owner} \ {a} : batch'[b] = batch[b]
    BY <1>3, <2>1, Zenon DEF Finish
  <2>11. Types'
    BY <1>1, <1>3, <2>1, <2>2, <2>3, <2>7, <2>9, <2>10, Zenon DEF Types
  <2>12. ASSUME NEW p \in Page PROVE Kept(p)
    <3>1. CASE p \in ps
      <4>1. page[p].vis # "GpuNewer"
        BY <2>4, <3>1, Zenon DEF CpuVisible
      <4> QED  BY <1>1, <2>1, <2>5, <3>1, <4>1, PageKept
    <3>2. CASE p \notin ps
      <4>1. Untouched(p)
        BY <1>1, <2>6, <3>2, Zenon DEF Untouched
      <4> QED  BY <1>1, <2>1, <2>11, <4>1, UntouchedKept
    <3> QED  BY <3>1, <3>2, Zenon
  <2>13. ReadBackOK(a)' /\ StagedOK(a)' /\ (a = Owner => PublishOK')
    BY <2>8, <2>9, Zenon DEF ReadBackOK, StagedOK, PublishOK
  <2> QED  BY <1>1, <2>1, <2>8, <2>9, <2>10, <2>11, <2>12, <2>13, KeptStep
<1> QED  BY <1>2, <1>3, Zenon DEF Commit, Committed

\* Arming the observer of a page write-protects its alias.
LEMMA ArmObserver ==
  ASSUME NEW g \in PageState, AliasOK(g), NEW h, h = arm_cpu_dirty_observer(g)
  PROVE  /\ h \in PageState /\ AliasOK(h)
         /\ h.vis = g.vis /\ h.at = g.at /\ h.epoch = g.epoch /\ h.gen = g.gen
         /\ h.bytes = g.bytes /\ h.armed /\ h.dirty = g.dirty
<1>1. CASE g.armed
  BY <1>1, Zenon DEF arm_cpu_dirty_observer, PageState
<1>2. CASE ~g.armed
  <2> DEFINE q == protection(g.vis, TRUE)
  <2>1. g.vis \in Visibility
    BY Zenon DEF PageState
  <2>2. /\ q \in {"None", "Read", "ReadWrite"}
        /\ q # "None" => g.vis \in CpuVisible
        /\ q # "ReadWrite"
    BY <2>1, ProtectionOK, Zenon
  <2>3. h = [g EXCEPT !.armed = TRUE, !.prot = q]
    BY <1>2, Zenon DEF arm_cpu_dirty_observer
  <2> HIDE DEF q
  <2>4. h \in PageState
    BY <2>2, <2>3, Zenon DEF PageState
  <2>5. /\ h.vis = g.vis /\ h.at = g.at /\ h.epoch = g.epoch /\ h.gen = g.gen
        /\ h.prot = q /\ h.armed = TRUE /\ h.dirty = g.dirty /\ h.bytes = g.bytes
    BY <2>3, Zenon DEF PageState
  <2> QED  BY <2>2, <2>4, <2>5, Zenon DEF AliasOK
<1> QED  BY <1>1, <1>2, Zenon

\* Staging copies the pages of a batch and arms their observers.
LEMMA StageStep ==
  ASSUME VisibilityInv, NEW a \in {Host, Owner}, Stage(a)
  PROVE  VisibilityInv'
<1> DEFINE ps == act[a].pages
<1>1. /\ Types /\ a \in Actor /\ act \in [Actor -> Activity] /\ act[a] \in Activity
      /\ page \in [Page -> PageState] /\ ActorOK(a)
      /\ act[a].pc = "gate" /\ act[a].op = "stage" /\ pending' = None
      /\ UNCHANGED <<mirror, unread, requests, dep, point, writes, truth, loose>>
  BY Zenon DEF VisibilityInv, Types, Stage, Exclusive, Actor
<1>2. CASE Refused(a) /\ UNCHANGED page
  BY <1>1, <1>2, QuietEnd, Zenon
<1>3. CASE Again(a) /\ UNCHANGED <<page, leased, ring, batch>>
  BY <1>1, <1>3, QuietEnd, Zenon
<1>4. CASE /\ batch' = [batch EXCEPT ![a] = [p \in ps |-> Staged(page[p])]]
           /\ page' = [p \in Page |-> IF p \in ps THEN arm_cpu_dirty_observer(page[p])
                                      ELSE page[p]]
           /\ act' = [act EXCEPT ![a].op = "commit"]
           /\ UNCHANGED <<leased, ring>>
  <2> DEFINE r == [act[a] EXCEPT !.op = "commit"]
  <2>1. act' = [act EXCEPT ![a] = r]
    BY <1>1, <1>4, Zenon
  <2>2. r \in Activity
    <3>1. "commit" \in Op
      BY Zenon DEF Op
    <3> QED  BY <1>1, <3>1, Zenon DEF Activity
  <2>3. /\ r.pc = "gate" /\ r.op = "commit" /\ r.pages = ps /\ r.todo = act[a].todo
        /\ r.cur = act[a].cur /\ r.reply = act[a].reply
    BY <1>1, Zenon DEF Activity
  <2> HIDE DEF r
  <2>4. /\ act'[a] = r /\ act' \in [Actor -> Activity]
        /\ \A b \in Actor \ {a} : act'[b] = act[b]
    BY <1>1, <2>1, <2>2, Zenon
  <2>5. ps \subseteq Page /\ point \in Nat
    BY <1>1, Zenon DEF Activity, Types
  <2>6. ASSUME NEW p \in Page
        PROVE  /\ page'[p] \in PageState /\ AliasOK(page'[p]) /\ Moves(page[p], page'[p], loose')
               /\ page'[p].at = page[p].at /\ page'[p].bytes = page[p].bytes
               /\ page'[p].vis = page[p].vis
               /\ p \in ps => /\ page'[p].armed /\ page'[p].gen = page[p].gen
                              /\ page'[p].epoch = page[p].epoch /\ page'[p].dirty = page[p].dirty
    <3> DEFINE g == page[p]
    <3>1. g \in PageState /\ AliasOK(g)
      BY <1>1, Zenon DEF VisibilityInv, PageOK, AliasOK
    <3>2. CASE p \notin ps
      <4>1. page'[p] = g
        BY <1>4, <3>2, Zenon
      <4>2. Moves(g, g, loose')
        BY <3>1 DEF Moves, PageState
      <4> QED  BY <3>1, <3>2, <4>1, <4>2, Zenon
    <3>3. CASE p \in ps
      <4> DEFINE h == arm_cpu_dirty_observer(g)
      <4>1. page'[p] = h
        BY <1>4, <3>3, Zenon
      <4>2. /\ h \in PageState /\ AliasOK(h)
            /\ h.vis = g.vis /\ h.at = g.at /\ h.epoch = g.epoch /\ h.gen = g.gen
            /\ h.bytes = g.bytes /\ h.armed /\ h.dirty = g.dirty
        BY <3>1, ArmObserver, Zenon
      <4> HIDE DEF h
      <4>3. Moves(g, h, loose')
        BY <3>1, <4>2 DEF Moves, PageState
      <4> QED  BY <4>1, <4>2, <4>3, Zenon
    <3> QED  BY <3>2, <3>3, Zenon
  <2>7. page' \in [Page -> PageState]
    <3>1. page' = [p \in Page |-> page'[p]]
      BY <1>4, Zenon
    <3> QED  BY <2>6, <3>1, Zenon
  <2>8. /\ DOMAIN batch' = {Host, Owner} /\ batch'[a] = [p \in ps |-> Staged(page[p])]
        /\ \A b \in {Host, Owner} \ {a} : batch'[b] = batch[b]
    BY <1>1, <1>4, Zenon DEF Types
  <2>9. Types'
    BY <1>1, <1>4, <2>4, <2>7, <2>8, Zenon DEF Types
  <2>10. \A p \in Page : Kept(p)
    BY <1>1, <2>5, <2>6, PageKept
  <2>11. ActorOK(a)' /\ ReadBackOK(a)'
    BY <1>1, <2>3, <2>4, Zenon DEF ActorOK, ReadBackOK, Asking
  <2>12. StagedOK(a)'
    <3>1. ASSUME NEW p \in ps
          PROVE  /\ batch'[a][p] \in StagedPage
                 /\ LET s == batch'[a][p]  g == page'[p]
                    IN /\ s.gen = g.gen /\ s.epoch = g.epoch /\ s.dirty = g.dirty /\ g.armed
                       /\ s.bytes = g.bytes /\ s.gen \in Nat /\ s.epoch \in Nat /\ s.dirty \in Nat
      <4> DEFINE g == page[p]
      <4>1. /\ p \in Page /\ batch'[a][p] = Staged(g) /\ g \in PageState
        BY <1>1, <2>5, <2>8, Zenon
      <4>2. /\ Staged(g) = [gen |-> g.gen, epoch |-> g.epoch, dirty |-> g.dirty, bytes |-> g.bytes]
            /\ g.gen \in Nat /\ g.epoch \in Nat /\ g.dirty \in Nat /\ g.bytes \in Bytes
        BY <4>1, Zenon DEF Staged, PageState
      <4>3. Staged(g) \in StagedPage
        BY <4>2 DEF StagedPage
      <4> HIDE DEF g
      <4>4. /\ Staged(g).gen = g.gen /\ Staged(g).epoch = g.epoch /\ Staged(g).dirty = g.dirty
            /\ Staged(g).bytes = g.bytes
        BY <4>2
      <4>5. /\ page'[p].armed /\ page'[p].gen = g.gen /\ page'[p].epoch = g.epoch
            /\ page'[p].dirty = g.dirty /\ page'[p].bytes = g.bytes
        BY <2>6, <4>1, Zenon DEF g
      <4> QED  BY <4>1, <4>2, <4>3, <4>4, <4>5, Zenon
    <3>2. batch'[a] \in [ps -> StagedPage]
      <4>1. batch'[a] = [p \in ps |-> batch'[a][p]]
        BY <2>8, Zenon
      <4> QED  BY <3>1, <4>1, Zenon
    <3>3. act'[a].pages = ps
      BY <2>3, <2>4, Zenon
    <3>4. ASSUME NEW p \in ps
          PROVE  LET s == batch'[a][p]  g == page'[p]
                 IN /\ s.gen <= g.gen /\ s.epoch <= g.epoch /\ s.dirty <= g.dirty
                    /\ g.armed /\ g.bytes \ loose' \subseteq s.bytes
      BY <3>1
    <3> HIDE DEF ps
    <3> QED  BY <3>2, <3>3, <3>4, Zenon DEF StagedOK
  <2>13. PublishOK' \/ a # Owner
    BY <2>3, <2>4, Zenon DEF PublishOK
  <2> QED  BY <1>1, <2>4, <2>5, <2>8, <2>9, <2>10, <2>11, <2>12, <2>13, KeptStep
<1> QED  BY <1>2, <1>3, <1>4, Zenon DEF Stage

-----------------------------------------------------------------------------
(* Bringing a read-back home, and taking a page for the CPU.                *)

\* A step that moves one page keeps the others.
LEMMA OnePageMoves ==
  ASSUME VisibilityInv, Types', NEW q \in Page, NEW h \in PageState,
         page' = [page EXCEPT ![q] = h], UNCHANGED <<mirror, unread, point>>,
         AliasOK(h), Moves(page[q], h, loose'),
         \A p \in Page \ {q} : truth'[p] \ loose' \subseteq truth[p] \ loose,
         h.vis \in CpuVisible => truth'[q] \ loose' \subseteq h.bytes,
         h.vis # "GpuNewer", h.at <= point,
         act'[Owner].op = "publish" /\ h.vis = "Clean" => mirror[q] = None,
         page[q].vis = "GpuNewer" => h.epoch # page[q].epoch
  PROVE  \A p \in Page : Kept(p)
<1>1. /\ Types /\ page \in [Page -> PageState] /\ PageOK(q) /\ point \in Nat
  BY Zenon DEF VisibilityInv, Types
<1>2. page'[q] = h /\ \A p \in Page \ {q} : page'[p] = page[p]
  BY <1>1, Zenon
<1>3. ASSUME NEW p \in Page \ {q} PROVE Kept(p)
  <2>1. Untouched(p)
    BY <1>2, Zenon DEF Untouched
  <2> QED  BY <1>1, <2>1, UntouchedKept
<1>4. Kept(q)
  <2>1. mirror[q] # None => mirror[q].completed <= point
    BY <1>1, Zenon DEF PageOK
  <2>2. PageOK(q)'
    BY <1>2, <2>1, Zenon DEF PageOK, AliasOK, CpuVisible
  <2> QED  BY <1>2, <2>2, Zenon DEF Kept
<1> QED  BY <1>3, <1>4, Zenon

\* Publishing the bytes of a read-back on a page.
LEMMA WriteBack ==
  ASSUME NEW g \in PageState, AliasOK(g), g.vis \notin CpuVisible, NEW new \in Bytes,
         NEW h, h = write_back(g, new), NEW free
  PROVE  /\ h \in PageState /\ AliasOK(h) /\ Moves(g, h, free)
         /\ h.at = g.at /\ h.bytes = new /\ h.vis = "Clean" /\ h.epoch = g.epoch + 1
<1> DEFINE n == g.gen + 1
           f == [g EXCEPT !.bytes = new, !.gen = n]
           k == publish_cpu_dirty(f)
<1>1. n \in Nat
  BY DEF PageState
<1>2. h = publish_visibility(k, "Clean")
  BY Zenon DEF write_back
<1>3. f \in PageState
  <2> HIDE DEF n
  <2> QED  BY <1>1, Zenon DEF PageState
<1>4. /\ f.vis = g.vis /\ f.at = g.at /\ f.epoch = g.epoch /\ f.gen = n
      /\ f.prot = g.prot /\ f.armed = g.armed /\ f.dirty = g.dirty /\ f.bytes = new
  BY Zenon DEF PageState
<1> HIDE DEF f, n
<1>5. AliasOK(f)
  BY <1>4, Zenon DEF AliasOK
<1>6. /\ k \in PageState
      /\ k.vis = f.vis /\ k.at = f.at /\ k.epoch = f.epoch /\ k.gen = f.gen
      /\ k.bytes = f.bytes /\ k.dirty = IF f.armed THEN f.dirty + 1 ELSE f.dirty
  BY <1>3, <1>5, PublishCpuDirty, Zenon
<1> HIDE DEF k
<1>7. /\ h \in PageState /\ AliasOK(h)
      /\ h.vis = "Clean" /\ h.at = k.at /\ h.epoch = k.epoch + 1 /\ h.gen = k.gen
      /\ h.armed = k.armed /\ h.dirty = k.dirty /\ h.bytes = k.bytes
  BY <1>2, <1>6, PublishVisibility DEF Visibility
<1> QED  BY <1>4, <1>6, <1>7 DEF Moves, PageState, n

\* The bytes of a read-back are published unless the page changed hands meanwhile.
LEMMA RelockStep ==
  ASSUME VisibilityInv, NEW a \in Actor, Relock(a)
  PROVE  VisibilityInv'
<1> DEFINE p == act[a].cur
           g == page[p]
<1>1. /\ Types /\ ActorOK(a) /\ ReadBackOK(a) /\ act[a] \in Activity /\ act[a].pc = "relock"
      /\ act \in [Actor -> Activity] /\ page \in [Page -> PageState]
  BY Zenon DEF VisibilityInv, Types, Relock
<1>2. p \in Page /\ PageOK(p) /\ g \in PageState /\ AliasOK(g) /\ g.at <= point /\ point \in Nat
      /\ g.epoch \in Nat
  BY <1>1, Zenon DEF ActorOK, VisibilityInv, PageOK, AliasOK, Types, PageState
<1>3. UNCHANGED <<mirror, unread, pending, requests, dep, point, writes, truth, loose>>
  BY Zenon DEF Relock
<1>4. /\ pending' \in {Host, Owner, None} /\ requests' \in Seq(Actor)
      /\ DOMAIN batch = {Host, Owner} /\ leased \subseteq Vcpu /\ ring \in {Host, None}
  BY <1>1, <1>3, Zenon DEF Types
<1>5. act[a].op \notin {"commit", "publish"} /\ act[a].pc # "asked"
  BY <1>1, Zenon DEF ActorOK
<1>6. CASE act' = Visible(a, p) /\ UNCHANGED <<page, leased, ring, batch>>
  BY <1>1, <1>2, <1>3, <1>4, <1>6, QuietEnd, Zenon
<1>7. CASE Refused(a) /\ UNCHANGED page
  BY <1>1, <1>3, <1>4, <1>7, QuietEnd, Zenon
<1>8. CASE act' = [act EXCEPT ![a].pc = "look", ![a].reply = None]
           /\ UNCHANGED <<page, leased, ring, batch>>
  <2> DEFINE r == [act[a] EXCEPT !.pc = "look", !.reply = None]
  <2>1. act' = [act EXCEPT ![a] = r]
    BY <1>1, <1>8, Zenon
  <2>2. r \in Activity
    <3>1. "look" \in Pc /\ None \in Bytes \cup {None}
      BY Zenon DEF Pc
    <3> QED  BY <1>1, <3>1, Zenon DEF Activity
  <2>3. /\ r.pc = "look" /\ r.reply = None /\ r.cur = p /\ r.op = act[a].op
        /\ r.pages = act[a].pages /\ r.todo = act[a].todo
    BY <1>1, Zenon DEF Activity
  <2> HIDE DEF r
  <2>4. act'[a] = r /\ \A b \in Actor \ {a} : act'[b] = act[b]
    BY <1>1, <2>1, Zenon
  <2>5. ActorOK(a)' /\ ReadBackOK(a)'
    BY <1>1, <1>2, <1>5, <2>3, <2>4, Zenon DEF ActorOK, ReadBackOK, Asking
  <2>6. RequestsOK'
    BY <1>3, <1>5, <2>4, RequestsFrame, Zenon
  <2>7. a = Owner /\ r.op = "prepare" => r.pages \in Resource
    BY <2>3, Zenon DEF VisibilityInv, PublishOK
  <2> QED  BY <1>3, <1>4, <1>5, <1>8, <2>1, <2>2, <2>3, <2>5, <2>6, <2>7, QuietStep, Zenon
<1>9. ASSUME NEW h \in PageState, page' = [page EXCEPT ![p] = h], AliasOK(h),
             Moves(g, h, loose), h.at = g.at, h.epoch = g.epoch + 1,
             \/ h.vis = "Invalid" /\ Refused(a)
             \/ /\ h.vis = "Clean" /\ truth[p] \ loose \subseteq h.bytes /\ mirror[p] = None
                /\ act' = Visible(a, p) /\ UNCHANGED <<leased, ring, batch>>
      PROVE  VisibilityInv'
  <2>1. /\ act' \in [Actor -> Activity]
        /\ \A b \in Actor \ {a} : act'[b] = act[b]
        /\ ActorOK(a)' /\ ReadBackOK(a)' /\ (a \in {Host, Owner} => StagedOK(a)')
        /\ a = Owner => PublishOK'
        /\ leased' \subseteq Vcpu /\ ring' \in {Host, None} /\ DOMAIN batch' = {Host, Owner}
        /\ \A b \in {Host, Owner} \ {a} : batch'[b] = batch[b]
    BY <1>1, <1>2, <1>9, EndActivity, Zenon
  <2>2. page' \in [Page -> PageState]
    BY <1>1, <1>9, Zenon
  <2>3. Types'
    BY <1>1, <1>3, <2>1, <2>2, Zenon DEF Types
  <2>4. h.epoch # g.epoch
    BY <1>2, <1>9
  <2>5. \A q \in Page : Kept(q)
    BY <1>2, <1>3, <1>9, <2>3, <2>4, OnePageMoves, Zenon DEF CpuVisible
  <2>6. point <= point' /\ loose \subseteq loose'
    BY <1>2, <1>3
  <2> QED  BY <1>3, <1>5, <2>1, <2>3, <2>5, <2>6, KeptStep, Zenon
<1>10. CASE /\ page' = [page EXCEPT ![p] = publish_visibility(g, "Invalid")]
            /\ Refused(a)
  <2> DEFINE h == publish_visibility(g, "Invalid")
  <2>1. /\ h \in PageState /\ AliasOK(h)
        /\ h.vis = "Invalid" /\ h.at = g.at /\ h.epoch = g.epoch + 1 /\ h.gen = g.gen
        /\ h.armed = g.armed /\ h.dirty = g.dirty /\ h.bytes = g.bytes
    BY <1>2, PublishVisibility DEF Visibility
  <2> HIDE DEF h
  <2>2. Moves(g, h, loose)
    BY <1>2, <2>1 DEF Moves, PageState
  <2> QED  BY <1>9, <1>10, <2>1, <2>2, Zenon DEF h
<1>11. CASE /\ g.epoch = act[a].epoch /\ act[a].reply # None
            /\ page' = [page EXCEPT ![p] = write_back(g, act[a].reply)]
            /\ act' = Visible(a, p)
            /\ UNCHANGED <<leased, ring, batch>>
  <2> DEFINE h == write_back(g, act[a].reply)
  <2>1. /\ g.vis = "GpuNewer" /\ truth[p] \ loose \subseteq act[a].reply /\ mirror[p] = None
        /\ act[a].reply \in Bytes
    BY <1>1, <1>11, Zenon DEF ReadBackOK, Asking, Activity
  <2>2. /\ h \in PageState /\ AliasOK(h) /\ Moves(g, h, loose)
        /\ h.at = g.at /\ h.bytes = act[a].reply /\ h.vis = "Clean" /\ h.epoch = g.epoch + 1
    BY <1>2, <2>1, WriteBack DEF CpuVisible
  <2> HIDE DEF h
  <2> QED  BY <1>9, <1>11, <2>1, <2>2, Zenon DEF h
<1> QED  BY <1>6, <1>7, <1>8, <1>10, <1>11, Zenon DEF Relock

\* Taking a page for the CPU.
LEMMA TakeCpuAuthority ==
  ASSUME NEW g \in PageState, AliasOK(g), NEW h, h = take_cpu_authority(g), NEW free
  PROVE  /\ h \in PageState /\ AliasOK(h) /\ Moves(g, h, free)
         /\ h.at = g.at /\ h.bytes = g.bytes
         /\ h.vis = IF g.vis \in CpuVisible THEN "CpuNewer"
                    ELSE IF g.vis = "Invalid" THEN "Invalid" ELSE "Conflicting"
<1>1. CASE g.vis = "Invalid"
  BY <1>1 DEF take_cpu_authority, CpuVisible, Moves, PageState
<1>2. CASE g.vis \notin CpuVisible /\ g.vis # "Invalid"
  <2>1. h = publish_visibility(g, "Conflicting")
    BY <1>2, Zenon DEF take_cpu_authority
  <2>2. /\ h \in PageState /\ AliasOK(h)
        /\ h.vis = "Conflicting" /\ h.at = g.at /\ h.epoch = g.epoch + 1
        /\ h.gen = g.gen /\ h.armed = g.armed /\ h.dirty = g.dirty
        /\ h.bytes = g.bytes
    BY <2>1, PublishVisibility DEF Visibility
  <2> QED  BY <1>2, <2>2 DEF Moves, PageState
<1>3. CASE g.vis = "CpuNewer"
  <2>1. h = publish_cpu_dirty(g)
    BY <1>3, Zenon DEF take_cpu_authority, CpuVisible
  <2> QED  BY <1>3, <2>1, PublishCpuDirty DEF CpuVisible, Moves, PageState
<1>4. CASE g.vis = "Clean"
  <2> DEFINE k == publish_visibility(g, "CpuNewer")
  <2>1. h = publish_cpu_dirty(k)
    BY <1>4, Zenon DEF take_cpu_authority, CpuVisible
  <2>2. /\ k \in PageState /\ AliasOK(k)
        /\ k.vis = "CpuNewer" /\ k.at = g.at /\ k.epoch = g.epoch + 1 /\ k.gen = g.gen
        /\ k.armed = g.armed /\ k.dirty = g.dirty /\ k.bytes = g.bytes
    BY PublishVisibility DEF Visibility
  <2> HIDE DEF k
  <2> QED  BY <1>4, <2>1, <2>2, PublishCpuDirty DEF CpuVisible, Moves, PageState
<1> QED  BY <1>1, <1>2, <1>3, <1>4, Zenon DEF CpuVisible

\* A store or a kernel word takes the page for the CPU.
LEMMA OwnStep ==
  ASSUME VisibilityInv, NEW a \in Actor, Own(a), Owner \notin Vcpu
  PROVE  VisibilityInv'
<1> DEFINE p == act[a].cur
           g == page[p]
           h == take_cpu_authority(g)
<1>1. /\ Types /\ ActorOK(a) /\ act[a] \in Activity /\ act[a].pc = "own" /\ PublishOK
      /\ act \in [Actor -> Activity] /\ page \in [Page -> PageState]
  BY Zenon DEF VisibilityInv, Types, Own
<1>2. p \in Page /\ PageOK(p) /\ g \in PageState /\ AliasOK(g) /\ g.at <= point /\ point \in Nat
  BY <1>1, Zenon DEF ActorOK, VisibilityInv, PageOK, AliasOK, Types
<1>3. UNCHANGED <<mirror, unread, pending, requests, dep, point, writes, truth, loose>>
  BY Zenon DEF Own
<1>4. page' = [page EXCEPT ![p] = h]
  BY Zenon DEF Own
<1>5. /\ h \in PageState /\ AliasOK(h) /\ Moves(g, h, loose')
      /\ h.at = g.at /\ h.bytes = g.bytes
      /\ h.vis = IF g.vis \in CpuVisible THEN "CpuNewer"
                 ELSE IF g.vis = "Invalid" THEN "Invalid" ELSE "Conflicting"
  BY <1>2, TakeCpuAuthority, Zenon
<1> HIDE DEF h
<1>6. /\ act' \in [Actor -> Activity]
      /\ \A b \in Actor \ {a} : act'[b] = act[b]
      /\ ActorOK(a)' /\ ReadBackOK(a)' /\ (a \in {Host, Owner} => StagedOK(a)')
      /\ a = Owner => PublishOK'
      /\ leased' \subseteq Vcpu /\ ring' \in {Host, None} /\ DOMAIN batch' = {Host, Owner}
      /\ \A b \in {Host, Owner} \ {a} : batch'[b] = batch[b]
  <2>1. CASE g.vis \notin CpuVisible
    BY <2>1, EndActivity, Zenon DEF Own
  <2>2. CASE g.vis \in CpuVisible
    <3> DEFINE r == IF a \in Vcpu THEN [Idle EXCEPT !.pc = "run"] ELSE [act[a] EXCEPT !.pc = "word"]
    <3>1. act' = [act EXCEPT ![a] = r] /\ UNCHANGED <<leased, ring, batch>>
      BY <1>1, <2>2, Zenon DEF Own
    <3>2. /\ r \in Activity /\ r.pc \in {"run", "word"} /\ r.op \in {"none", act[a].op}
          /\ r.todo \subseteq r.pages /\ r.reply = None /\ (r.pc = "word" => r.cur \in Page)
          /\ a = Owner => r.op = act[a].op /\ r.pages = act[a].pages
      <4>1. CASE a \in Vcpu
        <5>1. r = [Idle EXCEPT !.pc = "run"] /\ "run" \in Pc
          BY <4>1, Zenon DEF Pc
        <5> HIDE DEF r
        <5> QED  BY <4>1, <5>1, IdleActivity, Zenon
      <4>2. CASE a \notin Vcpu
        <5>1. r = [act[a] EXCEPT !.pc = "word"] /\ "word" \in Pc
          BY <4>2, Zenon DEF Pc
        <5> HIDE DEF r
        <5>2. r \in Activity
          BY <1>1, <5>1, Zenon DEF Activity
        <5>3. /\ r.pc = "word" /\ r.op = act[a].op /\ r.todo = act[a].todo /\ r.reply = act[a].reply
              /\ r.pages = act[a].pages /\ r.cur = act[a].cur
          BY <1>1, <5>1, Zenon DEF Activity
        <5> QED  BY <1>1, <1>2, <5>2, <5>3, Zenon DEF ActorOK
      <4> QED  BY <4>1, <4>2, Zenon
    <3> HIDE DEF r
    <3>3. /\ act'[a] = r /\ act' \in [Actor -> Activity]
          /\ \A b \in Actor \ {a} : act'[b] = act[b]
      BY <1>1, <3>1, <3>2, Zenon
    <3>4. act[a].op \notin {"commit", "publish"}
      BY <1>1, Zenon DEF ActorOK
    <3>5. ActorOK(a)' /\ ReadBackOK(a)' /\ (a \in {Host, Owner} => StagedOK(a)')
      BY <3>2, <3>3, <3>4, Zenon DEF ActorOK, ReadBackOK, StagedOK, Asking
    <3>6. a = Owner => PublishOK'
      BY <1>1, <3>2, <3>3, <3>4, Zenon DEF PublishOK
    <3> QED  BY <1>1, <3>1, <3>3, <3>5, <3>6, Zenon DEF Types
  <2> QED  BY <2>1, <2>2, Zenon
<1>7. page' \in [Page -> PageState]
  BY <1>1, <1>4, <1>5, Zenon
<1>8. Types'
  BY <1>1, <1>3, <1>6, <1>7, Zenon DEF Types
<1>9. /\ h.vis \in CpuVisible => truth[p] \ loose \subseteq h.bytes
      /\ h.vis \notin {"GpuNewer", "Clean"}
      /\ g.vis = "GpuNewer" => h.epoch # g.epoch
  BY <1>2, <1>5, Zenon DEF PageOK, CpuVisible, Moves
<1>10. \A q \in Page : Kept(q)
  BY <1>2, <1>3, <1>4, <1>5, <1>8, <1>9, OnePageMoves, Zenon
<1> QED  BY <1>1, <1>2, <1>3, <1>6, <1>8, <1>10, KeptStep

\* A vCPU takes bytes another read-back already brought to the mirror.
LEMMA TakeStep ==
  ASSUME VisibilityInv, NEW a \in Actor, Take(a)
  PROVE  VisibilityInv'
<1> DEFINE p == act[a].cur
           got == IF Complete(p, act[a].at) THEN mirror[p].bytes ELSE None
           r == [act[a] EXCEPT !.pc = "relock", !.reply = got]
<1>1. /\ Types /\ ActorOK(a) /\ ReadBackOK(a) /\ act[a] \in Activity /\ act[a].pc = "take"
      /\ act \in [Actor -> Activity] /\ mirror \in [Page -> Mirror \cup {None}]
  BY Zenon DEF VisibilityInv, Types, Take
<1>2. p \in Page /\ PageOK(p)
  BY <1>1, Zenon DEF ActorOK, VisibilityInv
<1>3. act' = [act EXCEPT ![a] = r]
  BY <1>1, Zenon DEF Take
<1>4. mirror' = IF Complete(p, act[a].at) THEN [mirror EXCEPT ![p] = None] ELSE mirror
  BY Zenon DEF Take
<1>5. /\ UNCHANGED <<page, unread, requests, dep, point, truth, loose, batch>>
      /\ UNCHANGED <<leased, pending, ring, writes>>
  BY Zenon DEF Take
<1>6. got \in Bytes \cup {None}
  BY <1>1, <1>2, Zenon DEF Complete, Mirror
<1>7. /\ r.pc = "relock" /\ r.reply = got /\ r.cur = p /\ r.at = act[a].at
      /\ r.epoch = act[a].epoch /\ r.op = act[a].op /\ r.pages = act[a].pages
      /\ r.todo = act[a].todo
  BY <1>1, Zenon DEF Activity
<1>8. r \in Activity
  <2>1. "relock" \in Pc
    BY Zenon DEF Pc
  <2> HIDE DEF got
  <2> QED  BY <1>1, <1>6, <2>1, Zenon DEF Activity
<1> HIDE DEF r
<1>9. act'[a] = r /\ (\A b \in Actor \ {a} : act'[b] = act[b]) /\ act' \in [Actor -> Activity]
  BY <1>1, <1>3, <1>8, Zenon
<1>10. /\ mirror' \in [Page -> Mirror \cup {None}]
       /\ \A q \in Page : mirror'[q] \in {mirror[q], None}
       /\ Complete(p, act[a].at) => mirror'[p] = None
  BY <1>1, <1>2, <1>4, Zenon
<1>11. Types'
  BY <1>1, <1>5, <1>9, <1>10, Zenon DEF Types
<1>12. point \in Nat
  BY <1>1, Zenon DEF Types
<1>13. \A q \in Page : Kept(q)
  <2>1. \A q \in Page : Untouched(q)
    BY <1>5, <1>10, Zenon DEF Untouched
  <2> QED  BY <1>5, <1>11, <1>12, <2>1, UntouchedKept
<1>14. ActorOK(a)'
  BY <1>1, <1>2, <1>7, <1>9, Zenon DEF ActorOK
<1>15. ReadBackOK(a)'
  <2>1. /\ act[a].at <= point /\ act[a].epoch <= page[p].epoch
        /\ act[a].epoch = page[p].epoch => page[p].vis = "GpuNewer" /\ page[p].at = act[a].at
    BY <1>1, Zenon DEF ReadBackOK, Asking
  <2>2. ASSUME act[a].epoch = page[p].epoch, got # None
        PROVE  truth[p] \ loose \subseteq got /\ mirror'[p] = None
    <3>1. mirror[p] # None /\ mirror[p].completed >= act[a].at /\ got = mirror[p].bytes
      BY <2>2, Zenon DEF Complete
    <3>2. mirror'[p] = None
      BY <1>10, <3>1, Zenon DEF Complete
    <3> QED  BY <1>2, <2>1, <2>2, <3>1, <3>2, Zenon DEF PageOK
  <2> HIDE DEF got
  <2> QED  BY <1>5, <1>7, <1>9, <2>1, <2>2, Zenon DEF ReadBackOK
<1>16. act[a].op \notin {"commit", "publish"}
  BY <1>1, Zenon DEF ActorOK
<1>17. a \in {Host, Owner} => StagedOK(a)'
  BY <1>7, <1>9, <1>16, Zenon DEF StagedOK
<1>18. a = Owner => PublishOK'
  <2>1. SUFFICES ASSUME a = Owner PROVE PublishOK'
    BY Zenon
  <2>2. act'[Owner].op = act[Owner].op /\ act'[Owner].pages = act[Owner].pages
        /\ act[Owner].op # "publish" /\ PublishOK
    BY <1>7, <1>9, <1>16, <2>1, Zenon DEF VisibilityInv
  <2> QED  BY <2>2, Zenon DEF PublishOK
<1> QED  BY <1>1, <1>5, <1>9, <1>11, <1>12, <1>13, <1>14, <1>15, <1>17, <1>18, KeptStep

-----------------------------------------------------------------------------
(* Native stores and kernel words.                                          *)

\* A new write is numbered after all earlier ones.
LEMMA WrittenTypes ==
  ASSUME MaxWrites \in Nat, Types, NEW p \in Page, Written(p)
  PROVE  /\ writes + 1 \in 1 .. MaxWrites /\ writes' \in 0 .. MaxWrites /\ writes + 1 \in 1 .. writes'
         /\ 1 .. writes \subseteq 1 .. writes' /\ truth' \in [Page -> Bytes]
         /\ truth'[p] = truth[p] \cup {writes + 1}
         /\ \A q \in Page \ {p} : truth'[q] = truth[q]
<1>1. writes \in 0 .. MaxWrites /\ truth \in [Page -> Bytes]
  BY Zenon DEF Types
<1>2. writes < MaxWrites /\ writes' = writes + 1 /\ truth' = [truth EXCEPT ![p] = @ \cup {writes + 1}]
  BY Zenon DEF Written
<1>3. writes + 1 \in 1 .. MaxWrites
  BY <1>1, <1>2
<1>4. /\ writes' \in 0 .. MaxWrites /\ writes + 1 \in 1 .. writes' /\ 1 .. writes \subseteq 1 .. writes'
  BY <1>1, <1>2
<1>5. truth[p] \cup {writes + 1} \in Bytes
  BY <1>1, <1>3, Zenon DEF Bytes
<1> QED  BY <1>1, <1>2, <1>3, <1>4, <1>5, Zenon

\* A native store writes the canonical bytes of a page it may write.
LEMMA StoreStep ==
  ASSUME PageConfiguration, VisibilityInv, NEW v \in Vcpu, Store(v)
  PROVE  VisibilityInv'
<1>1. /\ Types /\ v \in Actor /\ v \notin {Host, Owner} /\ act[v].pc = "run"
      /\ page \in [Page -> PageState] /\ MaxWrites \in Nat
  BY DEF VisibilityInv, Types, Store, Actor, PageConfiguration
<1>2. PICK p \in Page :
        /\ page[p].prot = "ReadWrite"
        /\ Written(p)
        /\ page' = [page EXCEPT ![p].bytes = @ \cup {writes + 1}]
  BY Zenon DEF Store
<1> DEFINE g == page[p]
           new == g.bytes \cup {writes + 1}
           h == [g EXCEPT !.bytes = new]
<1>3. /\ writes + 1 \in 1 .. MaxWrites /\ writes' \in 0 .. MaxWrites
      /\ 1 .. writes \subseteq 1 .. writes' /\ truth' \in [Page -> Bytes]
      /\ truth'[p] = truth[p] \cup {writes + 1}
      /\ \A q \in Page \ {p} : truth'[q] = truth[q]
  BY <1>1, <1>2, WrittenTypes, Zenon
<1>4. UNCHANGED <<mirror, unread, act, leased, pending, ring, requests, batch, dep, point, loose>>
  BY Zenon DEF Store
<1>5. g \in PageState /\ PageOK(p) /\ point \in Nat /\ new \in Bytes
  BY <1>1, <1>3, Zenon DEF VisibilityInv, Types, PageState, Bytes
<1>6. g.vis = "CpuNewer" /\ ~g.armed /\ truth[p] \ loose \subseteq g.bytes /\ g.at <= point
  BY <1>2, <1>5, Zenon DEF PageOK, CpuVisible
<1>7. page' = [page EXCEPT ![p] = h]
  BY <1>1, <1>2, Zenon
<1>8. truth'[p] \ loose' \subseteq new
  BY <1>3, <1>4, <1>6, Zenon
<1> HIDE DEF new
<1>9. h \in PageState
  BY <1>5, Zenon DEF PageState
<1>10. /\ h.vis = g.vis /\ h.at = g.at /\ h.epoch = g.epoch /\ h.gen = g.gen
       /\ h.prot = g.prot /\ h.armed = g.armed /\ h.dirty = g.dirty /\ h.bytes = new
  BY <1>5, Zenon DEF PageState
<1> HIDE DEF h
<1>11. AliasOK(h) /\ Moves(g, h, loose')
  BY <1>5, <1>6, <1>10 DEF AliasOK, Moves, CpuVisible, PageState
<1>12. page' \in [Page -> PageState]
  BY <1>1, <1>7, <1>9, Zenon
<1>13. loose' \subseteq 1 .. writes'
  BY <1>1, <1>3, <1>4, Zenon DEF Types
<1>14. Types'
  BY <1>1, <1>3, <1>4, <1>12, <1>13, Zenon DEF Types
<1>15. \A q \in Page : Kept(q)
  BY <1>3, <1>4, <1>6, <1>7, <1>8, <1>9, <1>10, <1>11, <1>14, OnePageMoves, Zenon
<1>16. ActorOK(v)' /\ ReadBackOK(v)'
  BY <1>1, <1>4, Zenon DEF VisibilityInv, ActorOK, ReadBackOK, Asking
<1> QED  BY <1>1, <1>4, <1>5, <1>14, <1>15, <1>16, KeptStep

\* A kernel word is written without a lease.
LEMMA WordStep ==
  ASSUME PageConfiguration, VisibilityInv, Word
  PROVE  VisibilityInv'
<1> DEFINE p == act[Host].cur
           g == page[p]
           new == g.bytes \cup {writes + 1}
           h == [g EXCEPT !.bytes = new]
<1>1. /\ Types /\ Host \in Actor /\ act[Host].pc = "word" /\ MaxWrites \in Nat /\ Host # Owner
      /\ page \in [Page -> PageState] /\ act \in [Actor -> Activity] /\ p \in Page
  BY Zenon DEF VisibilityInv, Types, Word, Actor, PageConfiguration, ActorOK
<1>2. /\ Written(p) /\ page' = [page EXCEPT ![p].bytes = @ \cup {writes + 1}]
      /\ loose' = loose \cup {writes + 1} /\ act' = [act EXCEPT ![Host] = Idle]
      /\ UNCHANGED <<mirror, unread, leased, pending, ring, requests, batch, dep, point>>
  BY Zenon DEF Word
<1>3. /\ writes + 1 \in 1 .. MaxWrites /\ writes' \in 0 .. MaxWrites /\ writes + 1 \in 1 .. writes'
      /\ 1 .. writes \subseteq 1 .. writes' /\ truth' \in [Page -> Bytes]
      /\ truth'[p] = truth[p] \cup {writes + 1}
      /\ \A q \in Page \ {p} : truth'[q] = truth[q]
  BY <1>1, <1>2, WrittenTypes, Zenon
<1>4. g \in PageState /\ AliasOK(g) /\ point \in Nat /\ new \in Bytes
  BY <1>1, <1>3, Zenon DEF VisibilityInv, Types, PageState, Bytes, PageOK, AliasOK
<1>5. page' = [page EXCEPT ![p] = h]
  BY <1>1, <1>2, Zenon
<1>6. new \ loose' = g.bytes \ loose' /\ g.bytes \subseteq new
  BY <1>2, Zenon
<1> HIDE DEF new
<1>7. h \in PageState
  BY <1>4, Zenon DEF PageState
<1>8. /\ h.vis = g.vis /\ h.at = g.at /\ h.epoch = g.epoch /\ h.gen = g.gen
      /\ h.prot = g.prot /\ h.armed = g.armed /\ h.dirty = g.dirty /\ h.bytes = new
  BY <1>4, Zenon DEF PageState
<1> HIDE DEF h
<1>9. AliasOK(h) /\ Moves(g, h, loose')
  BY <1>4, <1>6, <1>8 DEF AliasOK, Moves, PageState
<1>10. page' \in [Page -> PageState] /\ page'[p] = h /\ \A q \in Page \ {p} : page'[q] = page[q]
  BY <1>1, <1>5, <1>7, Zenon
<1>11. loose' \subseteq 1 .. writes'
  BY <1>1, <1>2, <1>3, Zenon DEF Types
<1>12. Finish(Host) \/ ring = Host
  BY <1>2, Zenon DEF Finish
<1>13. /\ Idle \in Activity /\ Idle.op = "none" /\ Idle.pc = "idle" /\ Idle.todo = {}
       /\ Idle.reply = None
  <2>1. Idle = [Idle EXCEPT !.pc = "idle"] /\ "idle" \in Pc
    BY DEF Idle, Pc
  <2> QED  BY <2>1, IdleActivity, Zenon
<1>14. /\ act'[Host] = Idle /\ act' \in [Actor -> Activity]
       /\ \A b \in Actor \ {Host} : act'[b] = act[b]
  BY <1>1, <1>2, <1>13, Zenon
<1>15. Types'
  BY <1>1, <1>2, <1>3, <1>10, <1>11, <1>14, Zenon DEF Types
<1>16. ActorOK(Host)' /\ ReadBackOK(Host)' /\ StagedOK(Host)'
  BY <1>13, <1>14, Zenon DEF ActorOK, ReadBackOK, StagedOK, Asking
<1>17. \A q \in Page : truth'[q] \ loose' \subseteq truth[q] \ loose
  BY <1>2, <1>3, Zenon
<1>18. ASSUME NEW q \in Page PROVE Kept(q)
  <2>1. CASE q = p
    <3>1. /\ UNCHANGED <<mirror, unread>> /\ point' \in Nat /\ point <= point'
          /\ page'[q] = h /\ Moves(page[q], h, loose') /\ h.at = page[q].at
          /\ truth'[q] \ loose' \subseteq truth[q] \ loose /\ page[q].bytes \subseteq h.bytes
          /\ h.vis = page[q].vis
      <4>1. UNCHANGED <<mirror, unread>> /\ point' = point
        BY <1>2, Zenon
      <4>2. point' \in Nat /\ point <= point'
        BY <1>4, <4>1
      <4>3. page[q] = g /\ page'[q] = h
        BY <1>10, <2>1, Zenon
      <4>4. g.bytes \subseteq h.bytes /\ h.vis = g.vis /\ h.at = g.at
        BY <1>6, <1>8, Zenon
      <4> QED  BY <1>9, <1>17, <4>1, <4>2, <4>3, <4>4, Zenon
    <3> QED  BY <1>7, <1>9, <3>1, PageKept, Zenon
  <2>2. CASE q # p
    <3>1. Untouched(q)
      BY <1>2, <1>10, <1>17, <2>2, Zenon DEF Untouched
    <3> QED  BY <1>2, <1>4, <1>15, <3>1, UntouchedKept
  <2> QED  BY <2>1, <2>2, Zenon
<1> QED  BY <1>1, <1>2, <1>4, <1>14, <1>15, <1>16, <1>18, KeptStep

=============================================================================
