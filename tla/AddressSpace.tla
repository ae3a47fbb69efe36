---------------------------- MODULE AddressSpace ----------------------------
(***************************************************************************)
(* The mappings of one guest process and the system calls that change      *)
(* them: ExecutionMemory (cpu/memory/execution.rs), the host arena behind  *)
(* native accesses (memory/direct.rs, memory/backing.rs), the memory       *)
(* system calls (svc_dispatch/memory.rs), the physical-memory accounting   *)
(* and the thread-local pages (runtime/process).                           *)
(*                                                                         *)
(* Every mapping change runs on the system-call thread under the exclusive *)
(* execution gate, so a call is one step.  A refused call changes nothing  *)
(* and is no step.  Addresses, sizes and TLS blocks are whole pages: heap  *)
(* pages come first, then one page of mutable module data, then the stack  *)
(* region, whose top holds the thread-local pages.  A physical page is its *)
(* slot: identities map to slots one to one.  Mapping generations, which   *)
(* only grow, are left out.                                                *)
(***************************************************************************)
EXTENDS Integers, FiniteSets, SequencesExt

CONSTANTS HeapPages,     \* size of the heap region
          StackPages,    \* size of the stack region
          MemoryLimit,   \* pages the process may commit beyond its image
          Masks,         \* attributes the guest changes: Uncached, PermissionLocked
          MaxThreads,    \* bound on the live threads created by the guest
          SharedAt,      \* pages at which the guest maps shared memory
          Foreign,       \* physical slots whose page the GPU also uses
          None

DataPage   == HeapPages
StackBase  == HeapPages + 1
StackTop   == HeapPages + StackPages + 1
VirtualPage == 0..(StackTop - 1)
Slot        == 0..(StackTop - 1)

VARIABLES
  mem,        \* ExecutionMemoryInner: table and slots
  arena,      \* DirectArena: page -> [slot, prot], or None
  registry,   \* direct_aliases of each backing page: page -> maximum protection
  vis,        \* visibility of each backing page
  failed,     \* direct_failure is set
  heap_size,  \* committed heap, in pages
  normal,     \* normal_memory_size
  tls,        \* thread-local pages of live threads
  free_tls,   \* free_thread_tls
  next_tls    \* next_thread_tls

vars == <<mem, arena, registry, vis, failed, heap_size, normal, tls, free_tls,
          next_tls>>

Permission == {"None", "Read", "ReadWrite"}
Attribute  == {"Uncached", "PermissionLocked"}
Purpose    == {"Heap", "CodeMutable", "Stack", "SharedMemory", "ThreadLocal"}

observes_executable_content(mapping) == mapping.purpose = "CodeMutable"

-----------------------------------------------------------------------------
(* The page table and the physical slots.                                  *)

mapped(m, p) == m.table[p] # None

push_page(m, slot) ==
  [m EXCEPT !.slots[slot] = [mapping_count |-> 0, exec_count |-> 0, aliases |-> {}]]

remove_page(m, slot) == [m EXCEPT !.slots[slot] = None]

register_mapping(m, p, mapping) ==
  [m EXCEPT !.slots[mapping.slot] =
     [@ EXCEPT !.mapping_count = @ + 1,
               !.exec_count = IF observes_executable_content(mapping) THEN @ + 1 ELSE @,
               !.aliases = @ \cup {p}]]

unregister_mapping(m, p, mapping) ==
  [m EXCEPT !.slots[mapping.slot] =
     [@ EXCEPT !.mapping_count = @ - 1,
               !.exec_count = IF observes_executable_content(mapping) THEN @ - 1 ELSE @,
               !.aliases = @ \ {p}]]

insert_mapping(m, p, mapping) ==
  register_mapping([m EXCEPT !.table[p] = mapping], p, mapping)

\* remove_mapping_unpublished, and the release of a page nobody maps.
remove_mapping(m, p) ==
  LET mapping == m.table[p]
      without == unregister_mapping([m EXCEPT !.table[p] = None], p, mapping)
  IN IF without.slots[mapping.slot].mapping_count = 0
     THEN remove_page(without, mapping.slot) ELSE without

\* set_mapping_permissions and set_mapping_properties: no system call changes
\* a purpose, so the executable count of the slot stays.
set_mapping_properties(m, p, permissions, attributes) ==
  [m EXCEPT !.table[p] = [@ EXCEPT !.permissions = permissions,
                                   !.attributes = attributes]]

\* A free slot and a fresh identity; which one it is does not matter.
free_physical_slot(m) == Min({slot \in Slot : m.slots[slot] = None})

map_zeroed(m, p, permissions, purpose) ==
  LET slot == free_physical_slot(m)
  IN insert_mapping(push_page(m, slot), p,
                    [slot |-> slot, permissions |-> permissions, purpose |-> purpose,
                     attributes |-> {}])

\* A range operation: page by page, in address order.
EachPage(op(_, _), m, first, count) ==
  FoldLeft(op, m, [i \in 1..count |-> first + i - 1])

-----------------------------------------------------------------------------
(* The host arena.                                                         *)

\* Native code can only read before it can write.
maximum_direct_protection(mapping) == mapping.permissions

\* The alias rule of publish_direct_alias_protection, on an unarmed page.
effective_direct_protection(maximum, visibility) ==
  CASE visibility = "GpuNewer" -> "None"
    [] visibility = "Clean" /\ maximum = "ReadWrite" -> "Read"
    [] OTHER -> maximum

\* Every registered alias of a page takes the protection its visibility allows.
publish_direct_aliases(a, reg, slot, visibility) ==
  [p \in VirtualPage |->
     IF p \in DOMAIN reg[slot]
     THEN [a[p] EXCEPT !.prot = effective_direct_protection(reg[slot][p], visibility)]
     ELSE a[p]]

\* publish_direct_mapping_range: reconcile the pages, then register them.
RegistryWith(m, reg, pages) ==
  [slot \in Slot |->
     LET here == {p \in pages : mapped(m, p) /\ m.table[p].slot = slot}
     IN [p \in DOMAIN reg[slot] \cup here |->
           IF p \in here THEN maximum_direct_protection(m.table[p]) ELSE reg[slot][p]]]

ArenaWith(m, a, pages) ==
  [p \in VirtualPage |->
     IF p \in pages
     THEN [slot |-> m.table[p].slot,
           prot |-> effective_direct_protection(maximum_direct_protection(m.table[p]),
                                                vis[m.table[p].slot])]
     ELSE a[p]]

\* Mutant: the host pages go, the backing page keeps its list of aliases.
RegistryWithoutForgetting(m, reg, pages) == reg

\* revoke_direct_mapping_range: unregister the pages, then unmap them.
RegistryWithout(m, reg, pages) ==
  [slot \in Slot |->
     [p \in {q \in DOMAIN reg[slot] : ~(q \in pages /\ m.table[q].slot = slot)} |-> reg[slot][p]]]

ArenaWithout(a, pages) == [p \in VirtualPage |-> IF p \in pages THEN None ELSE a[p]]

\* A mapping change from mem to after: revoke the gone pages, publish the
\* others.  A host mapping that fails poisons the arena, which becomes
\* inaccessible as a whole, and no vCPU runs again (process/execution.rs);
\* the table keeps the change.  The state of a backing page dies with it.
Publish(after, gone, changed) ==
  LET OfPages(reg) == [slot \in Slot |-> IF mem'.slots[slot] = None THEN <<>> ELSE reg[slot]]
  IN /\ mem' = after
     /\ vis' = [slot \in Slot |-> IF mem'.slots[slot] = None THEN "Clean" ELSE vis[slot]]
     /\ \/ /\ ~failed
           /\ registry' = OfPages(RegistryWith(mem', RegistryWithout(mem, registry, gone), changed))
           /\ arena' = ArenaWith(mem', ArenaWithout(arena, gone), changed)
           /\ UNCHANGED failed
        \/ /\ ~failed
           /\ failed' = TRUE
           /\ arena' = [p \in VirtualPage |-> None]
           /\ registry' = [slot \in Slot |-> <<>>]
        \/ /\ failed
           /\ UNCHANGED <<arena, registry, failed>>

-----------------------------------------------------------------------------
(* resize_zeroed_mapping, from old to new pages at first.                  *)

Pages(first, count) == first..(first + count - 1)

\* Mutant: a range is resized whatever the permissions of its pages are.
CanResizeUnchecked(first, old, new, permissions, purpose) ==
  /\ \A p \in Pages(first, old) : mapped(mem, p) /\ mem.table[p].purpose = purpose
  /\ \A p \in Pages(first, new) \ Pages(first, old) : ~mapped(mem, p)

CanResize(first, old, new, permissions, purpose) ==
  /\ \A p \in Pages(first, old) : /\ mapped(mem, p)
                                  /\ mem.table[p].purpose = purpose
                                  /\ mem.table[p].permissions = permissions
  /\ \A p \in Pages(first, new) \ Pages(first, old) : ~mapped(mem, p)

resized(first, old, new, permissions, purpose) ==
  IF new < old
  THEN EachPage(remove_mapping, mem, first + new, old - new)
  ELSE EachPage(LAMBDA m, p : map_zeroed(m, p, permissions, purpose),
                mem, first + old, new - old)

resize_zeroed_mapping(first, old, new, permissions, purpose) ==
  /\ CanResize(first, old, new, permissions, purpose)
  /\ Publish(resized(first, old, new, permissions, purpose),
             Pages(first, old) \ Pages(first, new), Pages(first, new) \ Pages(first, old))

\* query_memory: the whole range lies in one run of equal pages.
query_complete_range(pages) ==
  \A p, q \in pages : /\ mapped(mem, p) = mapped(mem, q)
                      /\ mapped(mem, p) =>
                           \A f \in {"permissions", "purpose", "attributes"} :
                             mem.table[p][f] = mem.table[q][f]

HasProperties(pages, permissions, purposes, attributes) ==
  \A p \in pages : /\ mapped(mem, p)
                   /\ mem.table[p].permissions = permissions
                   /\ mem.table[p].purpose \in purposes
                   /\ mem.table[p].attributes = attributes

allows_memory_alias_source == {"CodeMutable", "Heap"}
allows_reprotect           == {"CodeMutable", "Heap"}

-----------------------------------------------------------------------------
(* System calls.                                                           *)

can_commit(pages) == normal + pages =< MemoryLimit

SetHeapSize(new) ==
  /\ ~failed /\ new # heap_size
  /\ can_commit(new - heap_size)
  /\ resize_zeroed_mapping(0, heap_size, new, "ReadWrite", "Heap")
  /\ heap_size' = new
  /\ normal' = normal - heap_size + new
  /\ UNCHANGED <<tls, free_tls, next_tls>>

\* Mutant: a locked mapping can be reprotected.
SetMemoryPermissionLocked(pages, first, permissions) ==
  /\ ~failed
  /\ \A p \in pages : mapped(mem, p) /\ mem.table[p].purpose \in allows_reprotect
  /\ query_complete_range(pages)
  /\ \E p \in pages : mem.table[p].permissions # permissions
  /\ Publish(EachPage(LAMBDA m, p :
               set_mapping_properties(m, p, permissions, m.table[p].attributes),
               mem, first, Cardinality(pages)), {}, pages)
  /\ UNCHANGED <<heap_size, normal, tls, free_tls, next_tls>>

SetMemoryPermission(pages, first, permissions) ==
  /\ ~failed
  /\ \A p \in pages : mapped(mem, p) /\ mem.table[p].purpose \in allows_reprotect
  /\ query_complete_range(pages)
  /\ \A p \in pages : "PermissionLocked" \in mem.table[p].attributes =>
                        mem.table[p].permissions = permissions
  /\ \E p \in pages : mem.table[p].permissions # permissions
  /\ Publish(EachPage(LAMBDA m, p :
               set_mapping_properties(m, p, permissions, m.table[p].attributes),
               mem, first, Cardinality(pages)), {}, pages)
  /\ UNCHANGED <<heap_size, normal, tls, free_tls, next_tls>>

\* The uncached bit may be set and cleared, the lock only be set.
SetMemoryAttribute(pages, first, mask, value) ==
  LET attributes(p) == (mem.table[p].attributes \ {mask}) \cup value
  IN /\ ~failed
     /\ value \subseteq {mask} /\ (mask = "PermissionLocked" => value = {mask})
     /\ \A p \in pages : mapped(mem, p) /\ mem.table[p].purpose \in allows_reprotect
     /\ query_complete_range(pages)
     /\ \E p \in pages : mem.table[p].attributes # attributes(p)
     /\ Publish(EachPage(LAMBDA m, p :
                  set_mapping_properties(m, p, m.table[p].permissions, attributes(p)),
                  mem, first, Cardinality(pages)), {}, pages)
     /\ UNCHANGED <<heap_size, normal, tls, free_tls, next_tls>>

\* svcMapMemory: the pages move to the stack region, the source is locked.
MapMemory(destination, source, count) ==
  LET from == Pages(source, count)
      to   == Pages(destination, count)
      lend(m, p) ==
        insert_mapping(set_mapping_properties(m, p, "None", {"PermissionLocked"}),
                       destination + (p - source),
                       [m.table[p] EXCEPT !.permissions = "ReadWrite",
                                          !.purpose = "Stack", !.attributes = {}])
  IN /\ ~failed
     /\ HasProperties(from, "ReadWrite", allows_memory_alias_source, {})
     /\ query_complete_range(from)
     /\ \A p \in to : ~mapped(mem, p)
     /\ Publish(EachPage(lend, mem, source, count), {}, from \cup to)
     /\ UNCHANGED <<heap_size, normal, tls, free_tls, next_tls>>

\* svcUnmapMemory: the exact pages lent return to their locked source.
UnmapMemory(destination, source, count) ==
  LET from == Pages(source, count)
      to   == Pages(destination, count)
      restore(m, p) ==
        set_mapping_properties(remove_mapping(m, destination + (p - source)), p, "ReadWrite", {})
  IN /\ ~failed
     /\ HasProperties(from, "None", allows_memory_alias_source, {"PermissionLocked"})
     /\ query_complete_range(from)
     /\ HasProperties(to, "ReadWrite", {"Stack"}, {})
     /\ query_complete_range(to)
     /\ \A p \in from : mem.table[p].slot = mem.table[destination + (p - source)].slot
     /\ Publish(EachPage(restore, mem, source, count), to, from)
     /\ UNCHANGED <<heap_size, normal, tls, free_tls, next_tls>>

\* svcMapSharedMemory of one page: the copy is mapped writable, filled, and
\* then narrowed; a copy that cannot be filled is unmapped again.
MapSharedMemory(p, permissions) ==
  LET writable == map_zeroed(mem, p, "ReadWrite", "SharedMemory")
  IN /\ ~failed
     /\ ~mapped(mem, p)
     /\ permissions # "None"
     /\ \/ Publish(set_mapping_properties(writable, p, permissions, {}), {}, {p})
        \/ Publish(remove_mapping(writable, p), {p}, {})
     /\ UNCHANGED <<heap_size, normal, tls, free_tls, next_tls>>

\* svcUnmapSharedMemory: the mapping must be one run of exactly its size.
UnmapSharedMemory(p) ==
  /\ ~failed
  /\ mapped(mem, p) /\ mem.table[p].purpose = "SharedMemory"
  /\ \A q \in {p - 1, p + 1} \cap VirtualPage : ~query_complete_range({p, q})
  /\ resize_zeroed_mapping(p, 1, 0, mem.table[p].permissions, "SharedMemory")
  /\ UNCHANGED <<heap_size, normal, tls, free_tls, next_tls>>

-----------------------------------------------------------------------------
(* Thread-local pages: commit_created_thread and reap_exited_thread.       *)

\* A base that cannot be mapped is a refused creation; the recycled base
\* it was taken from is not put back.
CreateThread ==
  LET recycled == free_tls # {}
      base     == IF recycled THEN Min(free_tls) ELSE next_tls - 1
  IN /\ ~failed /\ Cardinality(tls) < MaxThreads
     /\ can_commit(1)
     /\ base >= StackBase
     /\ \/ /\ resize_zeroed_mapping(base, 0, 1, "ReadWrite", "ThreadLocal")
           /\ tls' = tls \cup {base}
           /\ free_tls' = free_tls \ {base}
           /\ next_tls' = IF recycled THEN next_tls ELSE base
           /\ normal' = normal + 1
           /\ UNCHANGED heap_size
        \/ /\ recycled /\ mapped(mem, base)
           /\ free_tls' = free_tls \ {base}
           /\ UNCHANGED <<mem, arena, registry, vis, failed, heap_size, normal, tls, next_tls>>

\* Mutant: a released base always goes to the free set.
ReleasedAlways(base) == [next |-> next_tls, free |-> free_tls \cup {base}]

\* release_thread_tls: the lowest base moves the limit up past free ones.
Released(base) ==
  LET next == Min({p \in (base + 1)..StackTop : p \notin free_tls})
  IN IF base = next_tls
     THEN [next |-> next, free |-> {p \in free_tls : p > next}]
     ELSE [next |-> next_tls, free |-> free_tls \cup {base}]

ReapThread(base) ==
  /\ resize_zeroed_mapping(base, 1, 0, "ReadWrite", "ThreadLocal")
  /\ tls' = tls \ {base}
  /\ next_tls' = Released(base).next
  /\ free_tls' = Released(base).free
  /\ normal' = normal - 1
  /\ UNCHANGED heap_size

\* Mutant: only the faulting alias changes, the others keep their protection.
ChangeVisibilityOfFirst(slot, visibility) ==
  /\ ~failed /\ mem.slots[slot] # None /\ vis[slot] # visibility
  /\ vis' = [vis EXCEPT ![slot] = visibility]
  /\ arena' = publish_direct_aliases(arena,
                [registry EXCEPT ![slot] = [p \in {Min(DOMAIN @)} |-> @[p]]], slot, visibility)
  /\ UNCHANGED <<mem, registry, failed, heap_size, normal, tls, free_tls, next_tls>>

\* A page changes hands between the CPU and the GPU (PageVisibility).
ChangeVisibility(slot, visibility) ==
  /\ ~failed /\ mem.slots[slot] # None /\ vis[slot] # visibility
  /\ vis' = [vis EXCEPT ![slot] = visibility]
  /\ arena' = publish_direct_aliases(arena, registry, slot, visibility)
  /\ UNCHANGED <<mem, registry, failed, heap_size, normal, tls, free_tls, next_tls>>

-----------------------------------------------------------------------------
DataMapping == [slot |-> 0, permissions |-> "ReadWrite",
                purpose |-> "CodeMutable", attributes |-> {}]

\* The process after loading: its mutable data page, no heap, no thread but
\* the main one, whose TLS lies outside the modelled region.
Init ==
  /\ mem = [table |-> [p \in VirtualPage |-> IF p = DataPage THEN DataMapping ELSE None],
            slots |-> [slot \in Slot |->
                         IF slot = 0 THEN [mapping_count |-> 1, exec_count |-> 1,
                                         aliases |-> {DataPage}]
                         ELSE None]]
  /\ vis = [slot \in Slot |-> "Clean"]
  /\ arena = [p \in VirtualPage |->
                IF p = DataPage THEN [slot |-> 0, prot |-> "Read"] ELSE None]
  /\ registry = [slot \in Slot |->
                   IF slot = 0 THEN [p \in {DataPage} |-> "ReadWrite"] ELSE <<>>]
  /\ failed = FALSE /\ heap_size = 0 /\ normal = 0
  /\ tls = {} /\ free_tls = {} /\ next_tls = StackTop

Next ==
  \/ \E new \in 0..HeapPages : SetHeapSize(new)
  \/ \E first \in VirtualPage, count \in 1..2 :
       /\ first + count =< StackTop
       /\ \/ \E permissions \in Permission :
               SetMemoryPermission(Pages(first, count), first, permissions)
          \/ \E mask \in Masks, value \in SUBSET Masks :
               SetMemoryAttribute(Pages(first, count), first, mask, value)
          \/ \E destination \in StackBase..(StackTop - count) :
               \/ MapMemory(destination, first, count)
               \/ UnmapMemory(destination, first, count)
  \/ \E p \in SharedAt :
       \/ \E permissions \in Permission : MapSharedMemory(p, permissions)
       \/ UnmapSharedMemory(p)
  \/ \E base \in tls : ReapThread(base)
  \/ CreateThread
  \/ \E slot \in Foreign, visibility \in {"Clean", "CpuNewer", "GpuNewer"} :
       ChangeVisibility(slot, visibility)

Spec == Init /\ [][Next]_vars

-----------------------------------------------------------------------------
(* Properties.                                                             *)

Mapping == [slot : Slot, permissions : Permission,
            purpose : Purpose, attributes : SUBSET Attribute]

\* Types of the variables; the accounting never goes below zero or over the
\* limit, and the thread-local pages stay inside the stack region.
TypeOK ==
  /\ \A p \in VirtualPage : mapped(mem, p) => mem.table[p] \in Mapping
  /\ heap_size \in 0..HeapPages /\ normal \in 0..MemoryLimit
  /\ tls \cup free_tls \subseteq StackBase..(StackTop - 1)
  /\ next_tls \in StackBase..StackTop
  /\ failed \in BOOLEAN

\* The invariant of ExecutionMemoryInner: every mapping's slot holds a page, a
\* slot knows exactly the mappings that use it and counts the executable ones,
\* and a page without mappings is gone.
TableMatchesSlots ==
  \A slot \in Slot :
    LET users == {p \in VirtualPage : mapped(mem, p) /\ mem.table[p].slot = slot}
    IN IF users = {} THEN mem.slots[slot] = None
       ELSE mem.slots[slot] =
              [mapping_count |-> Cardinality(users), aliases |-> users,
               exec_count |-> Cardinality({p \in users :
                                             observes_executable_content(mem.table[p])})]

\* While vCPUs may run, native code sees through the arena exactly the mapped
\* pages, with the protection the mapping and the page's visibility allow.
ArenaFollowsTable ==
  ~failed =>
    /\ \A p \in VirtualPage :
         IF mapped(mem, p)
         THEN LET mapping == mem.table[p]
              IN arena[p] = [slot |-> mapping.slot,
                             prot |-> effective_direct_protection(
                                        mapping.permissions, vis[mapping.slot])]
         ELSE arena[p] = None
    /\ \A slot \in Slot :
         DOMAIN registry[slot] = {p \in VirtualPage : mapped(mem, p) /\ mem.table[p].slot = slot}

\* A page lent to the stack region has exactly one lender, which stays locked
\* and inaccessible for as long as the loan lasts: the guest never reaches a
\* page through two addresses, and the heap cannot shrink under a loan.
LoansAreExclusive ==
  \A p \in VirtualPage :
    mapped(mem, p) /\ mem.table[p].purpose = "Stack" =>
      LET others == {q \in VirtualPage \ {p} : mapped(mem, q) /\ mem.table[q].slot = mem.table[p].slot}
      IN /\ Cardinality(others) = 1
         /\ \A q \in others : /\ mem.table[q].purpose \in allows_memory_alias_source
                              /\ mem.table[q].permissions = "None"
                              /\ "PermissionLocked" \in mem.table[q].attributes

\* Page table, physical pages, host mappings and loans agree.
MappingsConsistent == TypeOK /\ TableMatchesSlots /\ ArenaFollowsTable /\ LoansAreExclusive

\* The committed heap is exactly the heap pages mapped at the region's start,
\* and the accounting that GetInfo reports counts them and the TLS pages.
AccountingMatchesMappings ==
  /\ {p \in VirtualPage : mapped(mem, p) /\ mem.table[p].purpose = "Heap"} = 0..(heap_size - 1)
  /\ {p \in VirtualPage : mapped(mem, p) /\ mem.table[p].purpose = "ThreadLocal"} = tls
  /\ normal = heap_size + Cardinality(tls)

\* No thread-local base is handed out twice: live bases, recycled ones and the
\* room below next_thread_tls never meet, and the limit is itself in use or
\* lost, never recyclable.
TlsPoolDisjoint ==
  /\ tls \cap free_tls = {}
  /\ \A p \in tls : p >= next_tls
  /\ \A p \in free_tls : p > next_tls

\* What is accounted for is what is mapped, and no page is handed out twice.
AccountingConsistent == AccountingMatchesMappings /\ TlsPoolDisjoint
=============================================================================
