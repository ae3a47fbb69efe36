------------------------ MODULE PageVisibilityProofs ------------------------
(***************************************************************************)
(* No write is lost when a page changes hands between CPU and GPU, for any *)
(* pages, vCPUs, writes and any resources that do not overlap.             *)
(***************************************************************************)
EXTENDS PageSteps

-----------------------------------------------------------------------------
(* Resources read or observed by the device.                                *)

\* Invalidating a page whose device bytes are gone.
LEMMA InvalidatePage ==
  ASSUME NEW g \in PageState, NEW h,
         h = publish_visibility(revoke_direct_access(g), "Invalid"), NEW free
  PROVE  /\ h \in PageState /\ AliasOK(h) /\ Moves(g, h, free)
         /\ h.vis = "Invalid" /\ h.at = g.at /\ h.epoch > g.epoch
<1> DEFINE k == revoke_direct_access(g)
<1>1. /\ k \in PageState /\ k.at = g.at /\ k.epoch = g.epoch + 1 /\ k.gen = g.gen
      /\ k.armed = g.armed /\ k.dirty = g.dirty /\ k.bytes = g.bytes
  BY RevokeDirectAccess, Zenon
<1>2. h = publish_visibility(k, "Invalid")
  BY Zenon
<1> HIDE DEF k
<1>3. /\ h \in PageState /\ AliasOK(h)
      /\ h.vis = "Invalid" /\ h.at = k.at /\ h.epoch = k.epoch + 1
      /\ h.gen = k.gen /\ h.armed = k.armed /\ h.dirty = k.dirty
      /\ h.bytes = k.bytes
  BY <1>1, <1>2, PublishVisibility DEF Visibility
<1> QED  BY <1>1, <1>3 DEF Moves, PageState

\* Releasing a resource makes its unread pages invalid.
LEMMA InvalidateStep ==
  ASSUME VisibilityInv, Invalidate
  PROVE  VisibilityInv'
<1> DEFINE ps == act[Owner].pages
<1>1. /\ Types /\ Owner \in Actor /\ act[Owner].pc = "gate" /\ page \in [Page -> PageState]
      /\ pending' = None /\ Refused(Owner) /\ point \in Nat
      /\ UNCHANGED <<mirror, unread, requests, dep, point, writes, truth, loose>>
  BY Zenon DEF VisibilityInv, Types, Invalidate, Exclusive, Actor
<1>2. /\ act' \in [Actor -> Activity]
      /\ \A b \in Actor \ {Owner} : act'[b] = act[b]
      /\ ActorOK(Owner)' /\ ReadBackOK(Owner)' /\ StagedOK(Owner)'
      /\ PublishOK'
      /\ leased' \subseteq Vcpu /\ ring' \in {Host, None} /\ DOMAIN batch' = {Host, Owner}
      /\ \A b \in {Host, Owner} \ {Owner} : batch'[b] = batch[b]
  BY <1>1, EndActivity, Zenon
<1>3. page' = [p \in Page |-> IF p \in ps
                              THEN publish_visibility(revoke_direct_access(page[p]), "Invalid")
                              ELSE page[p]]
  BY Zenon DEF Invalidate
<1>4. ASSUME NEW p \in Page \cap ps
      PROVE  /\ page'[p] \in PageState /\ AliasOK(page'[p]) /\ Moves(page[p], page'[p], loose')
             /\ page'[p].vis = "Invalid" /\ page'[p].at = page[p].at
             /\ page'[p].epoch # page[p].epoch
  <2> DEFINE g == page[p]
             h == publish_visibility(revoke_direct_access(g), "Invalid")
  <2>1. g \in PageState /\ g.epoch \in Nat /\ page'[p] = h
    BY <1>1, <1>3, Zenon DEF PageState
  <2>2. /\ h \in PageState /\ AliasOK(h) /\ Moves(g, h, loose')
        /\ h.vis = "Invalid" /\ h.at = g.at /\ h.epoch > g.epoch
    BY <2>1, InvalidatePage, Zenon
  <2> HIDE DEF h
  <2>3. h.epoch \in Nat
    BY <2>2, Zenon DEF PageState
  <2> QED  BY <2>1, <2>2, <2>3
<1>5. \A p \in Page \ ps : page'[p] = page[p]
  BY <1>3, Zenon
<1>6. page' \in [Page -> PageState]
  <2>1. page' = [p \in Page |-> page'[p]]
    BY <1>3, Zenon
  <2> QED  BY <1>1, <1>4, <1>5, <2>1, Zenon
<1>7. Types'
  BY <1>1, <1>2, <1>6, Zenon DEF Types
<1>8. ASSUME NEW p \in Page PROVE Kept(p)
  <2>1. CASE p \in ps
    <3>1. page'[p].vis \notin CpuVisible
      BY <1>4, <2>1, Zenon DEF CpuVisible
    <3> QED  BY <1>1, <1>4, <2>1, <3>1, PageKept
  <2>2. CASE p \notin ps
    <3>1. Untouched(p)
      BY <1>1, <1>5, <2>2, Zenon DEF Untouched
    <3> QED  BY <1>1, <1>7, <3>1, UntouchedKept
  <2> QED  BY <2>1, <2>2, Zenon
<1> QED  BY <1>1, <1>2, <1>7, <1>8, KeptStep

\* Preparing a resource for a device read uploads what the CPU has newer.
LEMMA PrepareReadStep ==
  ASSUME VisibilityInv, PrepareRead
  PROVE  VisibilityInv'
<1> DEFINE ps == act[Owner].pages
<1>1. /\ Types /\ Owner \in Actor /\ act[Owner].pc = "gate" /\ page \in [Page -> PageState]
      /\ pending' = None /\ point \in Nat /\ point' = point + 1
      /\ UNCHANGED <<mirror, unread, requests, dep, writes, truth, loose>>
  BY Zenon DEF VisibilityInv, Types, PrepareRead, Exclusive, Actor
<1>2. /\ act' \in [Actor -> Activity]
      /\ \A b \in Actor \ {Owner} : act'[b] = act[b]
      /\ ActorOK(Owner)' /\ ReadBackOK(Owner)' /\ StagedOK(Owner)'
      /\ PublishOK'
      /\ leased' \subseteq Vcpu /\ ring' \in {Host, None} /\ DOMAIN batch' = {Host, Owner}
      /\ \A b \in {Host, Owner} \ {Owner} : batch'[b] = batch[b]
  <2>1. \/ Refused(Owner)
        \/ Finish(Owner) /\ UNCHANGED <<leased, batch>>
    BY Zenon DEF PrepareRead
  <2> QED  BY <1>1, <2>1, EndActivity, Zenon
<1>3. act'[Owner].op # "publish"
  BY DEF PrepareRead, Refused, Finish, Idle, VisibilityInv, Types, Actor
<1>4. page' = [p \in Page |-> IF p \in ps THEN prepare_resident(page[p], FALSE) ELSE page[p]]
  BY Zenon DEF PrepareRead
<1>5. ASSUME NEW p \in Page \cap ps
      PROVE  /\ page'[p] \in PageState /\ AliasOK(page'[p]) /\ Moves(page[p], page'[p], loose')
             /\ page'[p].at = page[p].at /\ page'[p].bytes = page[p].bytes
             /\ page'[p].vis = IF page[p].vis \in CpuVisible THEN "Clean" ELSE page[p].vis
  <2> DEFINE g == page[p]
             h == prepare_resident(g, FALSE)
  <2>1. g \in PageState /\ AliasOK(g) /\ page'[p] = h
    BY <1>1, <1>4, Zenon DEF VisibilityInv, PageOK, AliasOK
  <2>2. /\ h \in PageState /\ AliasOK(h) /\ Moves(g, h, loose')
        /\ h.at = g.at /\ h.bytes = g.bytes
        /\ h.vis = IF g.vis \in CpuVisible THEN "Clean" ELSE g.vis
    BY <2>1, PrepareResident, Zenon
  <2> HIDE DEF h
  <2> QED  BY <2>1, <2>2, Zenon
<1>6. \A p \in Page \ ps : page'[p] = page[p]
  BY <1>4, Zenon
<1>7. page' \in [Page -> PageState] /\ point' \in Nat /\ point <= point'
  <2>1. page' = [p \in Page |-> page'[p]]
    BY <1>4, Zenon
  <2> QED  BY <1>1, <1>5, <1>6, <2>1
<1>8. Types'
  BY <1>1, <1>2, <1>7, Zenon DEF Types
<1>9. ASSUME NEW p \in Page PROVE Kept(p)
  <2>1. CASE p \in ps
    BY <1>1, <1>3, <1>5, <1>7, <2>1, PageKept, Zenon
  <2>2. CASE p \notin ps
    <3>1. Untouched(p)
      BY <1>1, <1>6, <2>2, Zenon DEF Untouched
    <3> QED  BY <1>1, <1>7, <1>8, <3>1, UntouchedKept, Zenon
  <2> QED  BY <2>1, <2>2, Zenon
<1> QED  BY <1>1, <1>2, <1>7, <1>8, <1>9, KeptStep, Zenon

\* Arming the observers of several pages keeps them.
LEMMA AllArmed ==
  ASSUME VisibilityInv, page' = [p \in Page |-> arm_cpu_dirty_observer(page[p])],
         UNCHANGED <<mirror, unread, point, truth, loose>>
  PROVE  /\ page' \in [Page -> PageState]
         /\ \A p \in Page : Kept(p)
         /\ \A p \in Page : /\ page'[p].armed /\ page'[p].dirty = page[p].dirty
                            /\ page'[p].bytes = page[p].bytes
<1>1. page \in [Page -> PageState] /\ point \in Nat
  BY Zenon DEF VisibilityInv, Types
<1>2. ASSUME NEW p \in Page
      PROVE  /\ page'[p] \in PageState /\ AliasOK(page'[p]) /\ Moves(page[p], page'[p], loose')
             /\ page'[p].at = page[p].at /\ page'[p].vis = page[p].vis
             /\ page'[p].armed /\ page'[p].dirty = page[p].dirty /\ page'[p].bytes = page[p].bytes
  <2> DEFINE g == page[p]
             h == arm_cpu_dirty_observer(g)
  <2>1. g \in PageState /\ AliasOK(g) /\ page'[p] = h
    BY <1>1, Zenon DEF VisibilityInv, PageOK, AliasOK
  <2>2. /\ h \in PageState /\ AliasOK(h)
        /\ h.vis = g.vis /\ h.at = g.at /\ h.epoch = g.epoch /\ h.gen = g.gen
        /\ h.bytes = g.bytes /\ h.armed /\ h.dirty = g.dirty
    BY <2>1, ArmObserver, Zenon
  <2> HIDE DEF h
  <2>3. Moves(g, h, loose')
    BY <2>1, <2>2 DEF Moves, PageState
  <2> QED  BY <2>1, <2>2, <2>3, Zenon
<1>3. page' \in [Page -> PageState]
  <2>1. page' = [p \in Page |-> page'[p]]
    BY Zenon
  <2> QED  BY <1>2, <2>1, Zenon
<1>4. \A p \in Page : Kept(p)
  BY <1>1, <1>2, PageKept
<1> QED  BY <1>2, <1>3, <1>4, Zenon

\* A step that captures or follows a dependency.
LEMMA DependencyStep ==
  ASSUME VisibilityInv, act[Owner].pc = "gate", pending' = None,
         UNCHANGED <<mirror, unread, requests, point, writes, truth, loose>>,
         \/ UNCHANGED page
         \/ page' = [p \in Page |-> arm_cpu_dirty_observer(page[p])],
         Finish(Owner), UNCHANGED <<leased, batch>>,
         dep' \in Dependency \cup {None}, DependencyOK'
  PROVE  VisibilityInv'
<1>1. Types /\ Owner \in Actor /\ page \in [Page -> PageState] /\ point \in Nat
  BY Zenon DEF VisibilityInv, Types, Actor
<1>2. /\ act' \in [Actor -> Activity]
      /\ \A b \in Actor \ {Owner} : act'[b] = act[b]
      /\ ActorOK(Owner)' /\ ReadBackOK(Owner)' /\ StagedOK(Owner)'
      /\ PublishOK'
      /\ leased' \subseteq Vcpu /\ ring' \in {Host, None} /\ DOMAIN batch' = {Host, Owner}
      /\ \A b \in {Host, Owner} \ {Owner} : batch'[b] = batch[b]
  BY <1>1, EndActivity, Zenon
<1>3. page' \in [Page -> PageState]
  BY <1>1, AllArmed, Zenon
<1>4. Types'
  BY <1>1, <1>2, <1>3, Zenon DEF Types
<1>5. \A p \in Page : Kept(p)
  <2>1. CASE UNCHANGED page
    <3>1. \A p \in Page : Untouched(p)
      BY <2>1, Zenon DEF Untouched
    <3> QED  BY <1>1, <1>4, <3>1, UntouchedKept
  <2> QED  BY <2>1, AllArmed, Zenon
<1> QED  BY <1>1, <1>2, <1>4, <1>5, KeptStep

\* Capturing a dependency copies the pages it depends on.
LEMMA CaptureStep ==
  ASSUME VisibilityInv, Capture
  PROVE  VisibilityInv'
<1>1. /\ act[Owner].pc = "gate" /\ pending' = None /\ Finish(Owner)
      /\ UNCHANGED <<mirror, unread, requests, point, writes, truth, loose>>
      /\ UNCHANGED <<leased, batch>>
  BY Zenon DEF Capture, Exclusive
<1>2. Types /\ DependencyOK /\ page \in [Page -> PageState] /\ dep \in Dependency \cup {None}
  BY Zenon DEF VisibilityInv, Types
<1>3. CASE UNCHANGED <<page, dep>>
  <2>1. DependencyOK'
    BY <1>1, <1>2, <1>3, Zenon DEF DependencyOK
  <2> QED  BY <1>1, <1>2, <1>3, <2>1, DependencyStep, Zenon
<1>4. CASE /\ page' = [p \in Page |-> arm_cpu_dirty_observer(page[p])]
           /\ dep' = [seen |-> [p \in Page |-> page[p].dirty], copied |-> FALSE,
                      bytes |-> [p \in Page |-> {}], streak |-> 0, volatile |-> FALSE]
  <2>1. dep' \in Dependency
    <3>1. [p \in Page |-> page[p].dirty] \in [Page -> Nat] /\ [p \in Page |-> {}] \in [Page -> Bytes]
      BY <1>2, Zenon DEF PageState, Bytes
    <3> QED  BY <1>4, <3>1, Zenon DEF Dependency
  <2>2. /\ dep'.copied = FALSE
        /\ \A p \in Page : dep'.seen[p] = page[p].dirty /\ page[p].dirty \in Nat
    BY <1>2, <1>4, Zenon DEF PageState
  <2>3. \A p \in Page : page'[p].armed /\ page'[p].dirty = page[p].dirty
    BY <1>1, <1>4, AllArmed, Zenon
  <2>4. DependencyOK'
    BY <2>2, <2>3 DEF DependencyOK
  <2> QED  BY <1>1, <1>4, <2>1, <2>4, DependencyStep, Zenon
<1> QED  BY <1>3, <1>4, Zenon DEF Capture

\* Following a dependency copies again what changed since.
LEMMA FollowStep ==
  ASSUME VisibilityInv, FollowOK, Follow
  PROVE  VisibilityInv'
<1> DEFINE streak == IF Changed = {} THEN 0 ELSE dep.streak + 1
           copies == IF dep.copied /\ ~dep.volatile THEN Changed ELSE Page
           new == [p \in Page |-> IF p \in copies THEN page[p].bytes ELSE dep.bytes[p]]
           copied == [dep EXCEPT !.copied = TRUE, !.bytes = new]
           seen == [p \in Page |-> page[p].dirty]
           armed == [p \in Page |-> arm_cpu_dirty_observer(page[p])]
<1>1. /\ act[Owner].pc = "gate" /\ act[Owner].op = "follow" /\ pending' = None
      /\ UNCHANGED <<mirror, unread, requests, point, writes, truth, loose>>
  BY Zenon DEF Follow, Exclusive
<1>2. Types /\ DependencyOK /\ page \in [Page -> PageState] /\ dep \in Dependency /\ dep # None
      /\ Owner \in Actor
  BY <1>1, Zenon DEF VisibilityInv, Types, FollowOK, Actor
<1>3. CASE Refused(Owner) /\ UNCHANGED <<page, dep>>
  BY <1>1, <1>2, <1>3, QuietEnd, Zenon
<1>4. CASE Again(Owner) /\ UNCHANGED <<page, dep, leased, ring, batch>>
  BY <1>1, <1>2, <1>4, QuietEnd, Zenon
<1>5. /\ seen \in [Page -> Nat] /\ streak \in Nat /\ new \in [Page -> Bytes]
      /\ \A p \in Page : page[p].dirty \in Nat
  BY <1>2 DEF PageState, Dependency
<1>6. /\ dep.volatile \in BOOLEAN /\ dep.copied \in BOOLEAN /\ dep.streak \in Nat
      /\ dep.seen \in [Page -> Nat] /\ dep.bytes \in [Page -> Bytes]
  BY <1>2, Zenon DEF Dependency
<1>7. /\ copied \in Dependency
      /\ copied.seen = dep.seen /\ copied.copied = TRUE /\ copied.bytes = new
      /\ copied.streak = dep.streak /\ copied.volatile = dep.volatile
  <2> HIDE DEF new
  <2> QED  BY <1>2, <1>5, Zenon DEF Dependency
<1>8. \A p \in Page : dep.seen[p] <= page[p].dirty
  BY <1>2, <1>6, Zenon DEF DependencyOK
<1>9. ASSUME Finish(Owner), UNCHANGED <<leased, batch>>, UNCHANGED page,
             dep' \in Dependency, dep'.seen = dep.seen,
             \/ dep'.volatile
             \/ dep'.volatile = dep.volatile /\ dep'.copied = dep.copied /\ dep'.bytes = dep.bytes
      PROVE  VisibilityInv'
  <2>1. DependencyOK'
    BY <1>1, <1>2, <1>8, <1>9, Zenon DEF DependencyOK
  <2> QED  BY <1>1, <1>9, <2>1, DependencyStep, Zenon
<1>10. CASE /\ dep' = [dep EXCEPT !.streak = 0]
            /\ Finish(Owner)
            /\ UNCHANGED <<page, leased, batch>>
  <2>1. /\ dep' \in Dependency /\ dep'.seen = dep.seen /\ dep'.copied = dep.copied
        /\ dep'.bytes = dep.bytes /\ dep'.volatile = dep.volatile
    BY <1>2, <1>10, Zenon DEF Dependency
  <2> QED  BY <1>9, <1>10, <2>1, Zenon
<1>11. CASE /\ dep.volatile /\ dep' = copied /\ UNCHANGED page
            /\ Finish(Owner) /\ UNCHANGED <<leased, batch>>
  <2> HIDE DEF copied
  <2> QED  BY <1>7, <1>9, <1>11, Zenon
<1>12. CASE /\ dep' = [copied EXCEPT !.streak = streak, !.volatile = TRUE] /\ UNCHANGED page
            /\ Finish(Owner) /\ UNCHANGED <<leased, batch>>
  <2> HIDE DEF copied, streak, new
  <2>1. dep' \in Dependency /\ dep'.seen = copied.seen /\ dep'.volatile
    BY <1>5, <1>7, <1>12, Zenon DEF Dependency
  <2> QED  BY <1>7, <1>9, <1>12, <2>1, Zenon
<1>13. CASE /\ ~dep.volatile
            /\ dep' = [copied EXCEPT !.streak = streak, !.seen = seen] /\ page' = armed
            /\ Finish(Owner) /\ UNCHANGED <<leased, batch>>
  <2>1. ASSUME NEW p \in Page
        PROVE  new[p] \ loose = page[p].bytes \ loose
    <3>1. CASE p \in copies
      BY <3>1, Zenon
    <3>2. CASE p \notin copies
      <4>1. dep.copied /\ dep.seen[p] = page[p].dirty /\ new[p] = dep.bytes[p]
        BY <1>13, <3>2, Zenon DEF Changed
      <4>2. dep.bytes[p] \ loose = page[p].bytes \ loose
        BY <1>2, <1>13, <4>1, Zenon DEF DependencyOK
      <4> QED  BY <4>1, <4>2, Zenon
    <3> QED  BY <3>1, <3>2, Zenon
  <2>2. \A p \in Page : seen[p] = page[p].dirty
    BY Zenon
  <2> HIDE DEF copied, streak, new, seen
  <2>3. /\ dep' \in Dependency /\ dep'.seen = seen /\ dep'.bytes = new /\ dep'.volatile = FALSE
    BY <1>5, <1>7, <1>13, Zenon DEF Dependency
  <2>4. \A p \in Page : /\ page'[p].armed /\ page'[p].dirty = page[p].dirty
                        /\ page'[p].bytes = page[p].bytes
    BY <1>1, <1>13, AllArmed, Zenon
  <2>5. DependencyOK'
    BY <1>1, <1>5, <2>1, <2>2, <2>3, <2>4 DEF DependencyOK
  <2> QED  BY <1>1, <1>13, <2>3, <2>5, DependencyStep, Zenon
<1> QED  BY <1>3, <1>4, <1>10, <1>11, <1>12, <1>13, Zenon DEF Follow

-----------------------------------------------------------------------------
(* Steps that move only what an actor is doing.                             *)

\* Looking at the visibility of the next page.
LEMMA LookStep ==
  ASSUME VisibilityInv, NEW a \in Actor, Look(a)
  PROVE  VisibilityInv'
<1>1. Types /\ ActorOK(a) /\ act[a] \in Activity /\ act[a].pc = "look"
  BY Zenon DEF VisibilityInv, Types, Look
<1>2. PICK p \in act[a].todo :
        LET g == page[p]
        IN \/ /\ act' = Visible(a, p)
              /\ UNCHANGED <<leased, ring, batch>>
           \/ Refused(a)
           \/ /\ g.vis = "GpuNewer"
              /\ act' = [act EXCEPT ![a].pc = "ask", ![a].cur = p,
                                    ![a].epoch = g.epoch, ![a].at = g.at]
              /\ UNCHANGED <<leased, ring, batch>>
  BY Zenon DEF Look
<1>3. p \in Page
  BY <1>1, Zenon DEF ActorOK, Activity
<1>4. /\ UNCHANGED <<page, mirror, unread, dep, point, writes, truth, loose, requests>>
      /\ pending' \in {Host, Owner, None}
  BY <1>1, Zenon DEF Look, Types
<1>5. CASE act' = Visible(a, p) /\ UNCHANGED <<leased, ring, batch>>
  BY <1>1, <1>3, <1>4, <1>5, QuietEnd, Zenon
<1>6. CASE Refused(a)
  BY <1>1, <1>4, <1>6, QuietEnd, Zenon
<1>7. CASE /\ page[p].vis = "GpuNewer"
           /\ act' = [act EXCEPT ![a].pc = "ask", ![a].cur = p,
                                 ![a].epoch = page[p].epoch, ![a].at = page[p].at]
           /\ UNCHANGED <<leased, ring, batch>>
  <2> DEFINE r == [act[a] EXCEPT !.pc = "ask", !.cur = p, !.epoch = page[p].epoch,
                                 !.at = page[p].at]
  <2>1. act \in [Actor -> Activity] /\ act' = [act EXCEPT ![a] = r]
    BY <1>1, <1>7, Zenon DEF Types
  <2>2. /\ page[p].epoch \in Nat /\ page[p].at \in Nat /\ "ask" \in Pc
        /\ page[p].at <= point /\ p \in Page \cup {None}
    BY <1>1, <1>3, Zenon DEF Types, PageState, Pc, VisibilityInv, PageOK
  <2>3. /\ r.pc = "ask" /\ r.cur = p /\ r.epoch = page[p].epoch /\ r.at = page[p].at
        /\ r.op = act[a].op /\ r.pages = act[a].pages /\ r.todo = act[a].todo
        /\ r.reply = act[a].reply
    BY <1>1, Zenon DEF Activity
  <2>4. r \in Activity
    BY <1>1, <2>2, Zenon DEF Activity
  <2> HIDE DEF r
  <2>5. act'[a] = r /\ \A b \in Actor \ {a} : act'[b] = act[b]
    BY <2>1, Zenon
  <2>6. act[a].reply = None /\ act[a].op \notin {"commit", "publish"}
    BY <1>1, Zenon DEF ActorOK
  <2>7. ActorOK(a)'
    BY <1>1, <1>3, <2>3, <2>5, <2>6, Zenon DEF ActorOK
  <2>8. ReadBackOK(a)'
    BY <1>4, <1>7, <2>2, <2>3, <2>5, <2>6 DEF ReadBackOK
  <2>9. RequestsOK'
    BY <1>1, <1>4, <2>5, RequestsFrame, Zenon
  <2>10. a = Owner /\ r.op = "prepare" => r.pages \in Resource
    BY <2>3, Zenon DEF VisibilityInv, PublishOK
  <2>11. /\ leased' \subseteq Vcpu /\ ring' \in {Host, None} /\ requests' \in Seq(Actor)
         /\ DOMAIN batch' = {Host, Owner} /\ batch' = batch
    BY <1>1, <1>4, <1>7, Zenon DEF Types
  <2> QED  BY <1>4, <2>1, <2>3, <2>4, <2>6, <2>7, <2>8, <2>9, <2>10, <2>11, QuietStep, Zenon
<1> QED  BY <1>2, <1>5, <1>6, <1>7, Zenon

\* A step that only moves an actor to another place of its code.
LEMMA PcStep ==
  ASSUME VisibilityInv, NEW a \in Actor, NEW pc \in Pc, act' = [act EXCEPT ![a].pc = pc],
         UNCHANGED <<page, mirror, unread, dep, point, writes, truth, loose, batch, pending>>,
         leased' \subseteq Vcpu, ring' \in {Host, None}, requests' \in Seq(Actor), RequestsOK',
         act[a].op \notin {"commit", "publish"}, act[a].reply = None,
         act[a].cur \notin Page => pc \in {"idle", "enter", "run", "failed"},
         act[a].pc \notin Asking => pc \notin Asking
  PROVE  VisibilityInv'
<1> DEFINE r == [act[a] EXCEPT !.pc = pc]
<1>1. Types /\ act[a] \in Activity /\ act \in [Actor -> Activity] /\ ActorOK(a) /\ ReadBackOK(a)
  BY Zenon DEF VisibilityInv, Types
<1>2. r \in Activity
  BY <1>1, Zenon DEF Activity
<1>3. /\ r.pc = pc /\ r.cur = act[a].cur /\ r.epoch = act[a].epoch /\ r.at = act[a].at
      /\ r.op = act[a].op /\ r.pages = act[a].pages /\ r.todo = act[a].todo
      /\ r.reply = act[a].reply
  BY <1>1, Zenon DEF Activity
<1>4. act' = [act EXCEPT ![a] = r]
  BY <1>1, Zenon
<1> HIDE DEF r
<1>5. act'[a] = r
  BY <1>1, <1>4, Zenon
<1>6. ActorOK(a)'
  BY <1>1, <1>3, <1>5, Zenon DEF ActorOK
<1>7. ReadBackOK(a)'
  BY <1>1, <1>3, <1>5 DEF ReadBackOK
<1>8. a = Owner /\ r.op = "prepare" => r.pages \in Resource
  BY <1>3, Zenon DEF VisibilityInv, PublishOK
<1>9. DOMAIN batch' = {Host, Owner} /\ pending' \in {Host, Owner, None}
  BY <1>1, Zenon DEF Types
<1> QED  BY <1>2, <1>3, <1>4, <1>6, <1>7, <1>8, <1>9, QuietStep, Zenon

\* Queueing a read-back for the owner.
LEMMA AskStep ==
  ASSUME VisibilityInv, NEW a \in Actor, Ask(a)
  PROVE  VisibilityInv'
<1>1. /\ Types /\ ActorOK(a) /\ act[a].pc = "ask" /\ act \in [Actor -> Activity] /\ RequestsOK
      /\ requests \in Seq(Actor)
  BY Zenon DEF VisibilityInv, Types, Ask
<1>2. /\ act[a].op \notin {"commit", "publish"} /\ act[a].reply = None /\ act[a].cur \in Page
      /\ act[a].pc \in Asking
  BY <1>1, Zenon DEF ActorOK, Asking
<1>3. /\ UNCHANGED <<page, mirror, unread, dep, point, writes, truth, loose, batch, pending>>
      /\ leased' \subseteq Vcpu /\ ring' \in {Host, None}
  BY <1>1, Zenon DEF Ask, Types
<1>4. ASSUME NEW pc \in Pc, act' = [act EXCEPT ![a].pc = pc], requests' = requests
      PROVE  VisibilityInv'
  <2>1. \A b \in Actor \ {a} : act'[b] = act[b]
    BY <1>1, <1>4, Zenon
  <2>2. RequestsOK'
    BY <1>1, <1>4, <2>1, RequestsFrame, Zenon
  <2> QED  BY <1>1, <1>2, <1>3, <1>4, <2>2, PcStep, Zenon
<1>5. ASSUME act' = [act EXCEPT ![a].pc = "asked"], requests' = Append(requests, a)
      PROVE  VisibilityInv'
  <2>1. requests' \in Seq(Actor) /\ Len(requests') = Len(requests) + 1 /\ Len(requests) \in Nat
    BY <1>1, <1>5
  <2>2. /\ act'[a].pc = "asked"
        /\ \A b \in Actor : act[b].pc = "asked" => act'[b].pc = "asked"
    BY <1>1, <1>5, Zenon DEF Activity
  <2>3. ASSUME NEW i \in 1 .. Len(requests')
        PROVE  /\ requests'[i] \in Actor
               /\ i = Len(requests) + 1 => requests'[i] = a
               /\ i # Len(requests) + 1 => /\ i \in 1 .. Len(requests)
                                           /\ requests'[i] = requests[i]
                                           /\ requests'[i] # a
                                           /\ act[requests'[i]].pc = "asked"
    <3>1. requests'[i] \in Actor /\ (i = Len(requests) + 1 => requests'[i] = a)
      BY <1>1, <1>5, <2>1
    <3>2. ASSUME i # Len(requests) + 1
          PROVE  i \in 1 .. Len(requests) /\ requests'[i] = requests[i]
      BY <1>1, <1>5, <2>1, <3>2
    <3> QED  BY <1>1, <3>1, <3>2, Zenon DEF RequestsOK
  <2>4. RequestsOK'
    <3>1. \A i \in 1 .. Len(requests') : act'[requests'[i]].pc = "asked"
      BY <2>2, <2>3, Zenon
    <3>2. ASSUME NEW i \in 1 .. Len(requests'), NEW j \in 1 .. Len(requests'),
                 requests'[i] = requests'[j]
          PROVE  i = j
      <4>1. CASE i = Len(requests) + 1 \/ j = Len(requests) + 1
        BY <2>3, <3>2, <4>1, Zenon
      <4>2. CASE i # Len(requests) + 1 /\ j # Len(requests) + 1
        <5>1. i \in 1 .. Len(requests) /\ j \in 1 .. Len(requests) /\ requests[i] = requests[j]
          BY <2>3, <3>2, <4>2, Zenon
        <5> QED  BY <1>1, <5>1, Zenon DEF RequestsOK
      <4> QED  BY <4>1, <4>2, Zenon
    <3> QED  BY <3>1, <3>2, Zenon DEF RequestsOK
  <2>5. "asked" \in Pc
    BY Zenon DEF Pc
  <2> QED  BY <1>2, <1>3, <1>5, <2>1, <2>4, <2>5, PcStep, Zenon
<1> QED  BY <1>4, <1>5, Zenon DEF Ask, Pc

\* The owner refuses a read-back when it stops.
LEMMA ServeStoppedStep ==
  ASSUME VisibilityInv, ServeStopped
  PROVE  VisibilityInv'
<1> DEFINE a == Head(requests)
<1>1. /\ Types /\ requests \in Seq(Actor) /\ requests # <<>> /\ RequestsOK
      /\ act \in [Actor -> Activity]
  BY Zenon DEF VisibilityInv, Types, ServeStopped
<1>2. a \in Actor /\ a = requests[1] /\ 1 \in 1 .. Len(requests)
  BY <1>1
<1>3. act[a].pc = "asked" /\ ActorOK(a)
  BY <1>1, <1>2, Zenon DEF RequestsOK, VisibilityInv
<1>4. act' = [act EXCEPT ![a].pc = "relock"] /\ requests' = Tail(requests)
  BY Zenon DEF ServeStopped
<1>5. /\ UNCHANGED <<page, mirror, unread, dep, point, writes, truth, loose, batch, pending>>
      /\ leased' \subseteq Vcpu /\ ring' \in {Host, None}
  BY <1>1, Zenon DEF ServeStopped, Types
<1> HIDE DEF a
<1>6. \A b \in Actor \ {a} : act'[b] = act[b]
  BY <1>1, <1>2, <1>4, Zenon
<1>7. RequestsOK' /\ requests' \in Seq(Actor)
  BY <1>1, <1>4, <1>6, RequestsServed, Zenon DEF a
<1>9. /\ act[a].op \notin {"commit", "publish"} /\ act[a].reply = None /\ act[a].cur \in Page
      /\ act[a].pc \in Asking /\ "relock" \in Pc
  BY <1>3, Zenon DEF ActorOK, Asking, Pc
<1> QED  BY <1>2, <1>4, <1>5, <1>7, <1>9, PcStep, Zenon

\* A vCPU takes a lease.
LEMMA AcquireStep ==
  ASSUME VisibilityInv, NEW v \in Vcpu, Acquire(v)
  PROVE  VisibilityInv'
<1>1. /\ Types /\ v \in Actor /\ act \in [Actor -> Activity] /\ ActorOK(v) /\ act[v].pc = "idle"
  BY Zenon DEF VisibilityInv, Types, Acquire, Actor
<1>2. act' = [act EXCEPT ![v].pc = "enter"] /\ requests' = requests
  BY Zenon DEF Acquire
<1>3. \A b \in Actor \ {v} : act'[b] = act[b]
  BY <1>1, <1>2, Zenon
<1>4. RequestsOK'
  BY <1>1, <1>2, <1>3, RequestsFrame, Zenon
<1>5. /\ UNCHANGED <<page, mirror, unread, dep, point, writes, truth, loose, batch, pending>>
      /\ leased' \subseteq Vcpu /\ ring' \in {Host, None} /\ requests' \in Seq(Actor)
  BY <1>1, Zenon DEF Acquire, Types
<1>6. /\ act[v].op \notin {"commit", "publish"} /\ act[v].reply = None
      /\ "enter" \in Pc /\ "enter" \notin Asking
  BY <1>1, Zenon DEF ActorOK, Pc, Asking
<1> QED  BY <1>1, <1>2, <1>4, <1>5, <1>6, PcStep, Zenon

\* A leased vCPU enters native code.
LEMMA EnterStep ==
  ASSUME VisibilityInv, NEW v \in Vcpu, Enter(v)
  PROVE  VisibilityInv'
<1>1. /\ Types /\ v \in Actor /\ act \in [Actor -> Activity] /\ ActorOK(v) /\ act[v].pc = "enter"
  BY Zenon DEF VisibilityInv, Types, Enter, Actor
<1>2. act' = [act EXCEPT ![v].pc = "run"] /\ requests' = requests
  BY Zenon DEF Enter
<1>3. \A b \in Actor \ {v} : act'[b] = act[b]
  BY <1>1, <1>2, Zenon
<1>4. RequestsOK'
  BY <1>1, <1>2, <1>3, RequestsFrame, Zenon
<1>5. /\ UNCHANGED <<page, mirror, unread, dep, point, writes, truth, loose, batch, pending>>
      /\ leased' \subseteq Vcpu /\ ring' \in {Host, None} /\ requests' \in Seq(Actor)
  BY <1>1, Zenon DEF Enter, Types
<1>6. /\ act[v].op \notin {"commit", "publish"} /\ act[v].reply = None
      /\ "run" \in Pc /\ "run" \notin Asking
  BY <1>1, Zenon DEF ActorOK, Pc, Asking
<1> QED  BY <1>1, <1>2, <1>4, <1>5, <1>6, PcStep, Zenon

\* The owner reserves the gate.
LEMMA ReserveStep ==
  ASSUME VisibilityInv, Reserve
  PROVE  VisibilityInv'
<1>1. /\ Types /\ Host \in Actor /\ act \in [Actor -> Activity] /\ ActorOK(Host)
      /\ act[Host].pc = "ring"
  BY Zenon DEF VisibilityInv, Types, Reserve, Actor
<1>2. act' = [act EXCEPT ![Host].pc = "look"] /\ requests' = requests
  BY Zenon DEF Reserve
<1>3. \A b \in Actor \ {Host} : act'[b] = act[b]
  BY <1>1, <1>2, Zenon
<1>4. RequestsOK'
  BY <1>1, <1>2, <1>3, RequestsFrame, Zenon
<1>5. /\ UNCHANGED <<page, mirror, unread, dep, point, writes, truth, loose, batch, pending>>
      /\ leased' \subseteq Vcpu /\ ring' \in {Host, None} /\ requests' \in Seq(Actor)
  BY <1>1, Zenon DEF Reserve, Types
<1>6. /\ act[Host].op \notin {"commit", "publish"} /\ act[Host].reply = None
      /\ act[Host].cur \in Page /\ "look" \in Pc /\ "look" \notin Asking
  BY <1>1, Zenon DEF ActorOK, Pc, Asking
<1> QED  BY <1>1, <1>2, <1>4, <1>5, <1>6, PcStep, Zenon

\* A vCPU gives its lease back.
LEMMA ReleaseStep ==
  ASSUME VisibilityInv, NEW v \in Vcpu, Release(v)
  PROVE  VisibilityInv'
<1>1. /\ Types /\ v \in Actor /\ act \in [Actor -> Activity] /\ act[v].pc = "run"
  BY Zenon DEF VisibilityInv, Types, Release, Actor
<1>2. act' = [act EXCEPT ![v] = Idle] /\ requests' = requests
  BY Zenon DEF Release
<1>3. /\ Idle \in Activity /\ Idle.op = "none" /\ Idle.pc = "idle" /\ Idle.todo = {}
      /\ Idle.reply = None
  <2>1. Idle = [Idle EXCEPT !.pc = "idle"] /\ "idle" \in Pc
    BY DEF Idle, Pc
  <2> QED  BY <2>1, IdleActivity, Zenon
<1>4. act'[v] = Idle /\ \A b \in Actor \ {v} : act'[b] = act[b]
  BY <1>1, <1>2, Zenon
<1>5. ActorOK(v)' /\ ReadBackOK(v)'
  BY <1>3, <1>4, Zenon DEF ActorOK, ReadBackOK, Asking
<1>6. RequestsOK'
  BY <1>1, <1>2, <1>4, RequestsFrame, Zenon
<1>7. /\ UNCHANGED <<page, mirror, unread, dep, point, writes, truth, loose>> /\ batch' = batch
      /\ leased' \subseteq Vcpu /\ ring' \in {Host, None} /\ requests' \in Seq(Actor)
      /\ pending' \in {Host, Owner, None} /\ DOMAIN batch' = {Host, Owner}
  BY <1>1, Zenon DEF Release, Types
<1> QED  BY <1>1, <1>2, <1>3, <1>5, <1>6, <1>7, QuietStep, Zenon

\* A native access faults on a page the CPU does not have.
LEMMA FaultStep ==
  ASSUME VisibilityInv, NEW v \in Vcpu, Fault(v), Owner \notin Vcpu
  PROVE  VisibilityInv'
<1>1. /\ Types /\ v \in Actor /\ act \in [Actor -> Activity] /\ act[v] \in Activity
      /\ act[v].pc = "run" /\ ActorOK(v)
  BY Zenon DEF VisibilityInv, Types, Fault, Actor
<1>2. PICK p \in Page, op \in {"load", "store"} :
        act' = [act EXCEPT ![v] = [@ EXCEPT !.pc = "look", !.op = op, !.pages = {p},
                                            !.todo = {p}, !.cur = p]]
  BY Zenon DEF Fault
<1> DEFINE r == [act[v] EXCEPT !.pc = "look", !.op = op, !.pages = {p}, !.todo = {p}, !.cur = p]
<1>3. act' = [act EXCEPT ![v] = r]
  BY <1>1, <1>2, Zenon
<1>4. r \in Activity
  <2>1. "look" \in Pc /\ op \in Op /\ {p} \in SUBSET Page /\ p \in Page \cup {None}
    BY Zenon DEF Pc, Op
  <2> QED  BY <1>1, <2>1, Zenon DEF Activity
<1>5. /\ r.pc = "look" /\ r.op = op /\ r.pages = {p} /\ r.todo = {p} /\ r.cur = p
      /\ r.reply = act[v].reply
  BY <1>1, Zenon DEF Activity
<1> HIDE DEF r
<1>6. act'[v] = r /\ \A b \in Actor \ {v} : act'[b] = act[b]
  BY <1>1, <1>3, Zenon
<1>7. ActorOK(v)' /\ ReadBackOK(v)'
  BY <1>1, <1>5, <1>6, Zenon DEF ActorOK, ReadBackOK, Asking
<1>8. requests' = requests
  BY Zenon DEF Fault
<1>9. RequestsOK'
  BY <1>1, <1>6, <1>8, RequestsFrame, Zenon
<1>10. /\ UNCHANGED <<page, mirror, unread, dep, point, writes, truth, loose>> /\ batch' = batch
      /\ leased' \subseteq Vcpu /\ ring' \in {Host, None} /\ requests' \in Seq(Actor)
      /\ pending' \in {Host, Owner, None} /\ DOMAIN batch' = {Host, Owner}
  BY <1>1, Zenon DEF Fault, Types
<1>11. r.op \notin {"commit", "publish"} /\ v # Owner
  BY <1>5, Zenon
<1> QED  BY <1>1, <1>3, <1>4, <1>7, <1>9, <1>10, <1>11, QuietStep, Zenon

\* The host or the owner starts an operation.
LEMMA StartStep ==
  ASSUME PageConfiguration, VisibilityInv, NEW a \in {Host, Owner}, Start(a)
  PROVE  VisibilityInv'
<1>1. /\ Types /\ a \in Actor /\ act \in [Actor -> Activity] /\ act[a] \in Activity
      /\ act[a].pc = "idle" /\ ActorOK(a)
  BY Zenon DEF VisibilityInv, Types, Start, Actor
<1>2. PICK op \in (IF a = Host THEN HostOps ELSE OwnerOps) : \E ps \in PagesOf(op) :
        act' = [act EXCEPT ![a] = [@ EXCEPT !.pc = FirstPc(a, op, ps), !.op = op,
                                            !.pages = ps, !.todo = ps,
                                            !.cur = CHOOSE p \in ps : TRUE]]
  BY Zenon DEF Start
<1>3. PICK ps \in PagesOf(op) :
        act' = [act EXCEPT ![a] = [@ EXCEPT !.pc = FirstPc(a, op, ps), !.op = op,
                                            !.pages = ps, !.todo = ps,
                                            !.cur = CHOOSE p \in ps : TRUE]]
  BY <1>2, Zenon
<1>4. /\ op \in {"read", "stage", "word", "prepare", "sample", "capture", "follow"}
  BY Zenon DEF PageConfiguration
<1>5. ps \in (SUBSET Page) \ {{}} /\ (op = "prepare" => ps \in Resource)
  BY <1>4 DEF PagesOf, PageConfiguration
<1> DEFINE pc == FirstPc(a, op, ps)
           c == CHOOSE p \in ps : TRUE
           r == [act[a] EXCEPT !.pc = pc, !.op = op, !.pages = ps, !.todo = ps, !.cur = c]
<1>6. pc \in {"gate", "ring", "look"} /\ c \in Page
  BY <1>5, Zenon DEF FirstPc
<1>7. act' = [act EXCEPT ![a] = r]
  BY <1>1, <1>3, Zenon
<1> HIDE DEF pc, c
<1>8. r \in Activity
  <2>1. pc \in Pc /\ op \in Op /\ ps \in SUBSET Page /\ c \in Page \cup {None}
    BY <1>4, <1>5, <1>6, Zenon DEF Pc, Op
  <2> QED  BY <1>1, <2>1, Zenon DEF Activity
<1>9. /\ r.pc = pc /\ r.op = op /\ r.pages = ps /\ r.todo = ps /\ r.cur = c
      /\ r.reply = act[a].reply
  BY <1>1, Zenon DEF Activity
<1> HIDE DEF r
<1>10. act'[a] = r /\ \A b \in Actor \ {a} : act'[b] = act[b]
  BY <1>1, <1>7, Zenon
<1>11. ActorOK(a)' /\ ReadBackOK(a)'
  BY <1>1, <1>4, <1>6, <1>9, <1>10, Zenon DEF ActorOK, ReadBackOK, Asking
<1>12. requests' = requests
  BY Zenon DEF Start
<1>13. RequestsOK'
  BY <1>1, <1>10, <1>12, RequestsFrame, Zenon
<1>14. /\ UNCHANGED <<page, mirror, unread, dep, point, writes, truth, loose>> /\ batch' = batch
       /\ leased' \subseteq Vcpu /\ ring' \in {Host, None} /\ requests' \in Seq(Actor)
       /\ pending' \in {Host, Owner, None} /\ DOMAIN batch' = {Host, Owner}
  BY <1>1, Zenon DEF Start, Types
<1>15. r.op \notin {"commit", "publish"} /\ (r.op = "prepare" => r.pages \in Resource)
  BY <1>4, <1>5, <1>9, Zenon
<1> QED  BY <1>1, <1>7, <1>8, <1>11, <1>13, <1>14, <1>15, QuietStep, Zenon

\* A refused or finished exclusive section opens the gate.
LEMMA CloseStep ==
  ASSUME VisibilityInv, NEW a \in {Host, Owner}, Close(a)
  PROVE  VisibilityInv'
<1>1. UNCHANGED <<page, mirror, unread, act, leased, ring, requests, batch, dep, point, writes,
                  truth, loose>> /\ pending' \in {Host, Owner, None}
  BY Zenon DEF Close
<1>2. Types'
  BY <1>1, Zenon DEF VisibilityInv, Types
<1>3. /\ \A p \in Page : PageOK(p)'
      /\ \A b \in Actor : ActorOK(b)' /\ ReadBackOK(b)'
  BY <1>1 DEF VisibilityInv, PageOK, DeviceBytes, ActorOK, ReadBackOK
<1>4. RequestsOK' /\ PublishOK' /\ StagedOK(Host)' /\ StagedOK(Owner)' /\ DependencyOK'
  BY <1>1 DEF VisibilityInv, RequestsOK, PublishOK, StagedOK, DependencyOK, DeviceBytes
<1> QED  BY <1>2, <1>3, <1>4, Zenon DEF VisibilityInv

\* The host or the owner reads visible pages.
LEMMA ReadRangeStep ==
  ASSUME VisibilityInv, NEW a \in {Host, Owner}, ReadRange(a)
  PROVE  VisibilityInv'
<1>1. /\ act[a].pc = "gate" /\ act[a].op = "read" /\ a \in Actor
      /\ pending' \in {Host, Owner, None}
      /\ UNCHANGED <<page, mirror, unread, dep, point, writes, truth, loose, requests>>
  BY Zenon DEF ReadRange, Exclusive, Actor
<1>2. \/ Refused(a)
      \/ Finish(a) /\ UNCHANGED <<leased, batch>>
      \/ Again(a) /\ UNCHANGED <<leased, ring, batch>>
  BY Zenon DEF ReadRange
<1> QED  BY <1>1, <1>2, QuietEnd, Zenon

-----------------------------------------------------------------------------
(* The invariant and what follows from it.                                  *)

\* The invariant holds initially.
LEMMA VisibilityInit ==
  ASSUME PageConfiguration, Init
  PROVE  VisibilityInv /\ FollowOK
<1>1. /\ Idle \in Activity /\ Idle.op = "none" /\ Idle.pc = "idle" /\ Idle.todo = {}
      /\ Idle.reply = None
  <2>1. Idle = [Idle EXCEPT !.pc = "idle"] /\ "idle" \in Pc
    BY DEF Idle, Pc
  <2> QED  BY <2>1, IdleActivity, Zenon
<1> DEFINE g == [vis |-> "Clean", at |-> 0, epoch |-> 0, gen |-> 0, armed |-> FALSE, dirty |-> 0,
                 prot |-> "Read", bytes |-> {}]
<1>2. g \in PageState /\ g.vis = "Clean" /\ g.at = 0 /\ g.prot = "Read" /\ g.bytes = {}
  BY Zenon DEF PageState, Visibility, Bytes
<1>3. page = [p \in Page |-> g]
  BY Zenon DEF Init
<1> HIDE DEF g
<1>4. /\ mirror = [p \in Page |-> None] /\ unread = [d \in Resource |-> {}]
      /\ act = [a \in Actor |-> Idle] /\ leased = {} /\ pending = None /\ ring = None
      /\ requests = <<>> /\ batch = [a \in {Host, Owner} |-> <<>>]
      /\ dep = None /\ point = 0 /\ writes = 0 /\ truth = [p \in Page |-> {}] /\ loose = {}
  BY Zenon DEF Init
<1>5. Types
  <2>1. page \in [Page -> PageState] /\ act \in [Actor -> Activity]
    BY <1>1, <1>2, <1>3, <1>4, Zenon
  <2>2. /\ mirror \in [Page -> Mirror \cup {None}] /\ unread \in [Resource -> Bytes]
        /\ truth \in [Page -> Bytes]
    BY <1>4, Zenon DEF Bytes
  <2>3. point \in Nat /\ writes \in 0 .. MaxWrites /\ loose \subseteq 1 .. writes
    BY <1>4 DEF PageConfiguration
  <2> QED  BY <1>4, <2>1, <2>2, <2>3 DEF Types
<1>6. \A p \in Page : PageOK(p)
  BY <1>2, <1>3, <1>4 DEF PageOK, CpuVisible
<1>7. \A a \in Actor : ActorOK(a) /\ ReadBackOK(a)
  BY <1>1, <1>4, Zenon DEF ActorOK, ReadBackOK, Asking
<1>8. act[Owner] = Idle /\ act[Host] = Idle
  BY <1>4, Zenon DEF Actor
<1>9. RequestsOK /\ PublishOK /\ StagedOK(Host) /\ StagedOK(Owner) /\ DependencyOK /\ FollowOK
  BY <1>1, <1>4, <1>8 DEF RequestsOK, PublishOK, StagedOK, DependencyOK, FollowOK
<1> QED  BY <1>5, <1>6, <1>7, <1>9, Zenon DEF VisibilityInv

\* Every action keeps the invariant.
LEMMA VisibilityStep ==
  ASSUME PageConfiguration, VisibilityInv, FollowOK, [Next]_vars
  PROVE  VisibilityInv' /\ FollowOK'
<1>1. CASE UNCHANGED vars
  <2>1. UNCHANGED <<page, mirror, unread, act, leased, ring, pending, requests, batch, dep, point,
                    writes, truth, loose>>
    BY <1>1, Zenon DEF vars
  <2>2. Types'
    BY <2>1, Zenon DEF VisibilityInv, Types
  <2>3. /\ \A p \in Page : PageOK(p)'
        /\ \A b \in Actor : ActorOK(b)' /\ ReadBackOK(b)'
    BY <2>1 DEF VisibilityInv, PageOK, DeviceBytes, ActorOK, ReadBackOK
  <2>4. RequestsOK' /\ PublishOK' /\ StagedOK(Host)' /\ StagedOK(Owner)' /\ DependencyOK'
    BY <2>1 DEF VisibilityInv, RequestsOK, PublishOK, StagedOK, DependencyOK, DeviceBytes
  <2>5. FollowOK'
    BY <2>1, Zenon DEF FollowOK
  <2> QED  BY <2>2, <2>3, <2>4, <2>5, Zenon DEF VisibilityInv
<1>2. CASE Next
  <2>1. FollowOK'
    BY <1>2, FollowKept, Zenon DEF VisibilityInv
  <2>2. Owner \notin Vcpu
    BY Zenon DEF PageConfiguration
  <2>3. ASSUME NEW a \in Actor, Look(a) \/ Ask(a) \/ Take(a) \/ Relock(a) \/ Own(a)
        PROVE  VisibilityInv'
    BY <2>2, <2>3, LookStep, AskStep, TakeStep, RelockStep, OwnStep, Zenon
  <2>4. CASE Serve \/ ServeStopped
    BY <2>1, <2>4, ServeStep, ServeStoppedStep, Zenon
  <2>5. ASSUME NEW v \in Vcpu, Acquire(v) \/ Enter(v) \/ Release(v) \/ Store(v) \/ Fault(v)
        PROVE  VisibilityInv'
    BY <2>2, <2>5, AcquireStep, EnterStep, ReleaseStep, StoreStep, FaultStep, Zenon
  <2>6. ASSUME NEW a \in {Host, Owner},
               Start(a) \/ Close(a) \/ ReadRange(a) \/ Stage(a) \/ Commit(a)
        PROVE  VisibilityInv'
    BY <2>6, StartStep, CloseStep, ReadRangeStep, StageStep, CommitStep, Zenon
  <2>7. CASE Reserve \/ Word \/ PrepareWrite \/ PublishWrite
    BY <2>1, <2>7, ReserveStep, WordStep, PrepareWriteStep, PublishWriteStep, Zenon
  <2>8. CASE Invalidate \/ PrepareRead \/ Capture \/ Follow
    BY <2>1, <2>8, InvalidateStep, PrepareReadStep, CaptureStep, FollowStep, Zenon
  <2> QED  BY <1>2, <2>1, <2>3, <2>4, <2>5, <2>6, <2>7, <2>8, Zenon DEF Next
<1> QED  BY <1>1, <1>2, Zenon

\* The inductive invariant holds in every reachable state.
LEMMA VisibilityInvariant == ASSUME PageConfiguration PROVE Spec => [](VisibilityInv /\ FollowOK)
  BY VisibilityInit, VisibilityStep, PTL DEF Spec

\* No update is lost: whenever the CPU has a page, the canonical bytes hold
\* every write of native stores, committed batches and published device work,
\* for any number of pages, resources, vCPUs and writes.
THEOREM NoWriteLostSafety == ASSUME PageConfiguration PROVE Spec => []NoWriteLost
<1>1. VisibilityInv => NoWriteLost
  BY Zenon DEF VisibilityInv, PageOK, NoWriteLost
<1> QED  BY <1>1, VisibilityInvariant, PTL

\* Authority over a page, its host aliases, its mirror and what a consumer
\* remembers of it agree.
THEOREM AuthoritySafety == ASSUME PageConfiguration PROVE Spec => []AuthorityConsistent
<1>1. VisibilityInv => AuthorityConsistent
  <2> SUFFICES ASSUME VisibilityInv PROVE AuthorityConsistent
    BY Zenon
  <2>1. Types
    BY Zenon DEF VisibilityInv
  <2>2. TypeOK
    <3>1. page \in [Page -> PageState]
      BY <2>1, Zenon DEF Types
    <3>2. \A a \in Actor : act[a].pages \subseteq Page /\ act[a].todo \subseteq act[a].pages
      BY <2>1, Zenon DEF Types, Activity, VisibilityInv, ActorOK
    <3> QED  BY <2>1, <3>1, <3>2, Zenon DEF TypeOK, Types, PageState, Visibility, Bytes
  <2>3. DeviceHasAllWrites
    BY Zenon DEF VisibilityInv, PageOK, DeviceHasAllWrites, DeviceBytes
  <2>4. AliasFollowsAuthority
    BY Zenon DEF VisibilityInv, PageOK, AliasFollowsAuthority
  <2>5. DependencyIsExact
    BY <2>1, Zenon DEF VisibilityInv, DependencyOK, DependencyIsExact, Types, Dependency
  <2> QED  BY <2>2, <2>3, <2>4, <2>5, Zenon DEF AuthorityConsistent
<1> QED  BY <1>1, VisibilityInvariant, PTL

=============================================================================
