-------------------------- MODULE SchedulerProofs --------------------------
(***************************************************************************)
(* Machine-checked proofs about the scheduler, for any number of threads,  *)
(* vCPUs and priorities and any width of the counters: what a write to the *)
(* scheduler's state must look like to keep it consistent, one lemma for   *)
(* each command, and the theorems.  A command writes one thread's entry    *)
(* and, with it, the queue entry, the vCPU slot or the counter that        *)
(* mirrors it: the lemmas KeysUpdate, LeasesFrame, WaitsFrame and          *)
(* StructureFrame are about such a write, EnqueueStructure, WriteStructure *)
(* and DequeueStructure about the three forms of it the commands share.    *)
(***************************************************************************)
EXTENDS Scheduler, TLAPS

\* The queue entries of a consistent state are keys of threads, and None is not
\* one of them.
LEMMA ReadyFacts ==
  ASSUME NEW s \in SchedulerState, KeysConsistent(s)
  PROVE  /\ None \notin s.ready
         /\ \A k \in s.ready : /\ k \in ReadyKey
                               /\ k.thread \in ThreadId
                               /\ k.sequence \in Nat
                               /\ k.priority \in Priority
                               /\ s.threads[k.thread].ready_key = k
BY NoneAssumption DEF SchedulerState, ReadyKey, Counter, KeysConsistent

(***************************************************************************)
(* What a write to the entry of one thread must look like.                 *)
(***************************************************************************)
\* No other thread is written.
OnlyThread(s, r, id) ==
  \A j \in ThreadId \ {id} : r.threads[j] = s.threads[j]

\* The queue entry of the thread is replaced by its new key (by nothing when it
\* has none), which carries the thread's id, its effective priority and a
\* sequence that is its old one or a fresh one.
KeyWrite(s, r, id) ==
  LET old == s.threads[id].ready_key
      new == r.threads[id].ready_key
  IN /\ r.ready = (s.ready \ {old}) \cup (IF new = None THEN {} ELSE {new})
     /\ r.next_sequence >= s.next_sequence
     /\ new # None =>
          /\ new.thread = id
          /\ new.priority = r.threads[id].effective_priority
          /\ \/ old # None /\ new.sequence = old.sequence
             \/ new.sequence = s.next_sequence /\ r.next_sequence > s.next_sequence

\* Leases and vCPU slots are left alone, and the affinity of a leased thread.
LeaseKept(s, r, id) ==
  /\ r.vcpus = s.vcpus
  /\ r.next_lease_generation = s.next_lease_generation
  /\ r.threads[id].active_lease = s.threads[id].active_lease
  /\ s.threads[id].active_lease # None =>
       r.threads[id].affinity = s.threads[id].affinity

\* A wait of the thread is its old one or has a generation handed out now.
WaitWrite(s, r, id) ==
  /\ r.next_wake_generation >= s.next_wake_generation
  /\ r.threads[id].active_wait # None =>
       \/ r.threads[id].active_wait = s.threads[id].active_wait
       \/ r.threads[id].active_wait.generation < r.next_wake_generation

PolicyOf(r, id) ==
  /\ r.threads[id].ideal_vcpu # None =>
       r.threads[id].ideal_vcpu \in r.threads[id].affinity
  /\ r.threads[id].lifecycle # "Absent" =>
       /\ r.threads[id].base_priority \in Priority
       /\ r.threads[id].effective_priority \in Priority

ThreadWrite(s, r, id) ==
  /\ OnlyThread(s, r, id)
  /\ KeyWrite(s, r, id)
  /\ WaitWrite(s, r, id)
  /\ PolicyOf(r, id)

\* Such a write keeps queue and threads in step.
LEMMA KeysUpdate ==
  ASSUME NEW s \in SchedulerState, NEW r \in SchedulerState,
         NEW id \in ThreadId,
         KeysConsistent(s), SequencesDistinct(s),
         OnlyThread(s, r, id), KeyWrite(s, r, id)
  PROVE  KeysConsistent(r) /\ SequencesDistinct(r)
<1> DEFINE old == s.threads[id].ready_key
           key == r.threads[id].ready_key
<1>1. /\ s.next_sequence \in Nat /\ r.next_sequence \in Nat
      /\ key # None => key \in ReadyKey /\ key.sequence \in Nat
      /\ old # None => old \in s.ready /\ old.thread = id
  BY DEF SchedulerState, ScheduledThread, ReadyKey, Counter, KeysConsistent
<1>2. \A k \in s.ready \ {old} : k \in ReadyKey /\ k.thread \in ThreadId \ {id}
  BY ReadyFacts, Zenon
<1>3. KeysConsistent(r)
  <2>1. ASSUME NEW j \in ThreadId, r.threads[j].ready_key # None
        PROVE  /\ r.threads[j].ready_key \in r.ready
               /\ r.threads[j].ready_key.thread = j
               /\ r.threads[j].ready_key.priority = r.threads[j].effective_priority
    <3>1. CASE j = id
      BY <2>1, <3>1, Zenon DEF KeyWrite
    <3>2. CASE j # id
      BY <2>1, <3>2, <1>1 DEF KeysConsistent, KeyWrite, OnlyThread
    <3> QED BY <3>1, <3>2, Zenon
  <2>2. ASSUME NEW k \in r.ready
        PROVE  r.threads[k.thread].ready_key = k
    <3>1. CASE k \in s.ready \ {old}
      BY <3>1, <1>2 DEF KeysConsistent, OnlyThread
    <3>2. CASE key # None /\ k = key
      BY <3>2, Zenon DEF KeyWrite
    <3> QED BY <2>2, <3>1, <3>2, Zenon DEF KeyWrite
  <2> QED BY <2>1, <2>2, Zenon DEF KeysConsistent
<1>4. SequencesDistinct(r)
  <2>1. \A k \in s.ready : k.sequence \in Nat /\ k.sequence < s.next_sequence
    BY ReadyFacts, Zenon DEF SequencesDistinct
  <2>2. \A k \in r.ready : k.sequence < r.next_sequence
    BY <1>1, <2>1 DEF KeyWrite
  <2>3. ASSUME NEW j \in r.ready, NEW k \in r.ready, j.sequence = k.sequence
        PROVE  j = k
    BY <1>1, <2>1, <2>3 DEF SequencesDistinct, KeyWrite
  <2> QED BY <2>2, <2>3, Zenon DEF SequencesDistinct
<1> QED BY <1>3, <1>4, Zenon

\* It keeps leases and vCPU slots in step when it leaves them alone.
LEMMA LeasesFrame ==
  ASSUME NEW s \in SchedulerState, NEW r \in SchedulerState,
         NEW id \in ThreadId,
         LeasesConsistent(s), OnlyThread(s, r, id), LeaseKept(s, r, id)
  PROVE  LeasesConsistent(r)
<1>1. ASSUME NEW v \in Vcpu, r.vcpus[v] # None
      PROVE  /\ r.vcpus[v].vcpu = v
             /\ r.threads[r.vcpus[v].thread].active_lease = r.vcpus[v]
  <2>1. s.vcpus[v].thread \in ThreadId
    BY <1>1, Zenon DEF SchedulerState, Lease, LeaseKept
  <2> QED BY <1>1, <2>1 DEF LeasesConsistent, OnlyThread, LeaseKept
<1>2. ASSUME NEW j \in ThreadId, r.threads[j].active_lease # None
      PROVE  /\ r.threads[j].active_lease.thread = j
             /\ r.vcpus[r.threads[j].active_lease.vcpu] = r.threads[j].active_lease
             /\ r.threads[j].active_lease.vcpu \in r.threads[j].affinity
  BY <1>2 DEF LeasesConsistent, OnlyThread, LeaseKept
<1> QED BY <1>1, <1>2, Zenon DEF LeasesConsistent

\* It keeps the generations of the waits below the counter.
LEMMA WaitsFrame ==
  ASSUME NEW s \in SchedulerState, NEW r \in SchedulerState,
         NEW id \in ThreadId,
         GenerationsIssued(s), OnlyThread(s, r, id), WaitWrite(s, r, id),
         \A v \in Vcpu : r.vcpus[v] # None =>
           r.vcpus[v].generation < r.next_lease_generation
  PROVE  GenerationsIssued(r)
<1>1. /\ s.next_wake_generation \in Nat /\ r.next_wake_generation \in Nat
      /\ \A j \in ThreadId : s.threads[j].active_wait # None =>
           s.threads[j].active_wait.generation \in Nat
  BY DEF SchedulerState, ScheduledThread, Counter, WakeToken
<1>2. ASSUME NEW j \in ThreadId, r.threads[j].active_wait # None
      PROVE  r.threads[j].active_wait.generation < r.next_wake_generation
  BY <1>1, <1>2 DEF GenerationsIssued, OnlyThread, WaitWrite
<1> QED BY <1>2, Zenon DEF GenerationsIssued

\* All of it together, for a write that leaves the leases alone ...
LEMMA StructureFrame ==
  ASSUME NEW s, StructureConsistent(s), NEW r \in SchedulerState,
         NEW id \in ThreadId,
         ThreadWrite(s, r, id), LeaseKept(s, r, id)
  PROVE  StructureConsistent(r)
<1>1. /\ s \in SchedulerState /\ KeysConsistent(s) /\ SequencesDistinct(s)
      /\ LeasesConsistent(s) /\ GenerationsIssued(s) /\ PolicyConsistent(s)
  BY Zenon DEF StructureConsistent
<1>2. OnlyThread(s, r, id) /\ KeyWrite(s, r, id) /\ WaitWrite(s, r, id)
  BY Zenon DEF ThreadWrite
<1>3. KeysConsistent(r) /\ SequencesDistinct(r)
  BY <1>1, <1>2, KeysUpdate, Zenon
<1>4. LeasesConsistent(r)
  BY <1>1, <1>2, LeasesFrame, Zenon
<1>5. \A v \in Vcpu : r.vcpus[v] # None =>
        r.vcpus[v].generation < r.next_lease_generation
  BY <1>1, Zenon DEF GenerationsIssued, LeaseKept
<1>6. GenerationsIssued(r)
  BY <1>1, <1>2, <1>5, WaitsFrame, Zenon
<1>7. PolicyConsistent(r)
  BY <1>1, Zenon DEF PolicyConsistent, ThreadWrite, OnlyThread, PolicyOf
<1> QED BY <1>3, <1>4, <1>6, <1>7, Zenon DEF StructureConsistent

\* ... and the lifecycle conditions: only the thread written can break its own.
LEMMA LifecycleFrame ==
  ASSUME NEW s, Consistent(s), NEW r, StructureConsistent(r),
         NEW id \in ThreadId,
         OnlyThread(s, r, id), LifecycleConsistent(r, id)
  PROVE  Consistent(r)
BY Zenon DEF Consistent, LifecycleConsistent, OnlyThread

(***************************************************************************)
(* The commands.                                                           *)
(***************************************************************************)
\* Writes to the fields of a state, and of a thread, keep their types.
LEMMA StateType ==
  ASSUME NEW s \in SchedulerState, NEW id \in ThreadId,
         NEW th \in ScheduledThread, NEW ready \in SUBSET ReadyKey,
         NEW sequence \in Counter
  PROVE  [s EXCEPT !.threads[id] = th, !.ready = ready,
                   !.next_sequence = sequence] \in SchedulerState
BY Zenon DEF SchedulerState

LEMMA ThreadType ==
  ASSUME NEW th \in ScheduledThread, NEW lifecycle \in ThreadLifecycle,
         NEW key \in ReadyKey \cup {None}
  PROVE  [th EXCEPT !.lifecycle = lifecycle, !.ready_key = key]
           \in ScheduledThread
BY Zenon DEF ScheduledThread

LEMMA ThreadFieldTypes ==
  ASSUME NEW th \in ScheduledThread
  PROVE  /\ \A l \in ThreadLifecycle : [th EXCEPT !.lifecycle = l] \in ScheduledThread
         /\ \A p \in Priority : [th EXCEPT !.base_priority = p] \in ScheduledThread
         /\ \A p \in Priority :
              [th EXCEPT !.effective_priority = p] \in ScheduledThread
         /\ \A k \in ReadyKey \cup {None} :
              [th EXCEPT !.ready_key = k] \in ScheduledThread
         /\ \A v \in Vcpu \cup {None} :
              [th EXCEPT !.ideal_vcpu = v] \in ScheduledThread
         /\ \A v \in Vcpu : [th EXCEPT !.last_vcpu = v] \in ScheduledThread
         /\ \A a \in SUBSET Vcpu : [th EXCEPT !.affinity = a] \in ScheduledThread
         /\ \A l \in Lease \cup {None} :
              [th EXCEPT !.active_lease = l] \in ScheduledThread
         /\ \A w \in WakeToken \cup {None} :
              [th EXCEPT !.active_wait = w] \in ScheduledThread
<1>1. \A l \in ThreadLifecycle :
        [th EXCEPT !.lifecycle = l] \in ScheduledThread
  BY Zenon DEF ScheduledThread
<1>2. \A p \in Priority :
        [th EXCEPT !.base_priority = p] \in ScheduledThread
  BY Zenon DEF ScheduledThread
<1>3. \A p \in Priority :
        [th EXCEPT !.effective_priority = p] \in ScheduledThread
  BY Zenon DEF ScheduledThread
<1>4. \A k \in ReadyKey \cup {None} :
        [th EXCEPT !.ready_key = k] \in ScheduledThread
  BY Zenon DEF ScheduledThread
<1>5. \A v \in Vcpu \cup {None} :
        [th EXCEPT !.ideal_vcpu = v] \in ScheduledThread
  BY Zenon DEF ScheduledThread
<1>6. \A v \in Vcpu :
        [th EXCEPT !.last_vcpu = v] \in ScheduledThread
  BY Zenon DEF ScheduledThread
<1>7. \A a \in SUBSET Vcpu :
        [th EXCEPT !.affinity = a] \in ScheduledThread
  BY Zenon DEF ScheduledThread
<1>8. \A l \in Lease \cup {None} :
        [th EXCEPT !.active_lease = l] \in ScheduledThread
  BY Zenon DEF ScheduledThread
<1>9. \A w \in WakeToken \cup {None} :
        [th EXCEPT !.active_wait = w] \in ScheduledThread
  BY Zenon DEF ScheduledThread
<1> QED BY <1>1, <1>2, <1>3, <1>4, <1>5, <1>6, <1>7, <1>8, <1>9, Zenon

\* Entering the queue: a registered thread without a key becomes Ready and
\* nothing else of it changes.
LEMMA EnqueueStructure ==
  ASSUME NEW s, StructureConsistent(s),
         NEW id \in ThreadId,
         Registered(s, id),
         s.threads[id].ready_key = None,
         allocate_ok(s.next_sequence),
         NEW r, r = enqueue_existing_with_sequence(s, id)
  PROVE  /\ StructureConsistent(r)
         /\ OnlyThread(s, r, id)
         /\ r.threads[id].lifecycle = "Ready"
         /\ r.threads[id].ready_key # None
         /\ r.threads[id].active_lease = s.threads[id].active_lease
         /\ r.threads[id].active_wait = s.threads[id].active_wait
<1> DEFINE key == [priority |-> s.threads[id].effective_priority,
                   sequence |-> s.next_sequence,
                   thread |-> id]
           th == [s.threads[id] EXCEPT !.lifecycle = "Ready", !.ready_key = key]
<1>1. /\ s \in SchedulerState /\ s.threads[id] \in ScheduledThread
      /\ s.next_sequence \in Nat
      /\ None \notin s.ready
  BY ReadyFacts DEF StructureConsistent, SchedulerState, Counter
<1>2. key \in ReadyKey /\ s.next_sequence + 1 \in Counter /\ key # None
  BY <1>1, MaxCounterAssumption, NoneAssumption
  DEF StructureConsistent, PolicyConsistent, Registered, ReadyKey, Counter,
      SchedulerState, allocate_ok
<1>3. r = [s EXCEPT !.threads[id] = th, !.ready = s.ready \cup {key},
                    !.next_sequence = s.next_sequence + 1]
  BY Zenon DEF enqueue_existing_with_sequence
<1>4. /\ key.thread = id /\ key.sequence = s.next_sequence
      /\ key.priority = s.threads[id].effective_priority
  BY Zenon
<1> HIDE DEF key
<1>5. th \in ScheduledThread
  <2>1. "Ready" \in ThreadLifecycle
    BY Zenon DEF ThreadLifecycle
  <2> QED BY <1>1, <1>2, <2>1, ThreadType, Zenon
<1>6. /\ th.lifecycle = "Ready"
      /\ th.ready_key = key
      /\ th.base_priority = s.threads[id].base_priority
      /\ th.effective_priority = s.threads[id].effective_priority
      /\ th.ideal_vcpu = s.threads[id].ideal_vcpu
      /\ th.affinity = s.threads[id].affinity
      /\ th.active_lease = s.threads[id].active_lease
      /\ th.active_wait = s.threads[id].active_wait
  BY <1>1, Zenon DEF ScheduledThread
<1> HIDE DEF th
<1>7. r \in SchedulerState
  <2>1. s.ready \cup {key} \in SUBSET ReadyKey
    BY <1>1, <1>2, Zenon DEF SchedulerState
  <2>2. s \in SchedulerState /\ s.next_sequence + 1 \in Counter
    BY <1>1, <1>2, Zenon
  <2>3. [s EXCEPT !.threads[id] = th, !.ready = s.ready \cup {key},
                  !.next_sequence = s.next_sequence + 1] \in SchedulerState
    BY <2>1, <2>2, <1>5, StateType, Zenon
  <2> QED BY <1>3, <2>3, Zenon
<1>8. /\ r.threads = [s.threads EXCEPT ![id] = th]
      /\ r.ready = s.ready \cup {key}
      /\ r.vcpus = s.vcpus
      /\ r.next_sequence = s.next_sequence + 1
      /\ r.next_lease_generation = s.next_lease_generation
      /\ r.next_wake_generation = s.next_wake_generation
  BY <1>1, <1>3, Zenon DEF SchedulerState
<1>9. r.threads[id] = th /\ OnlyThread(s, r, id)
  BY <1>1, <1>8, Zenon DEF SchedulerState, OnlyThread
<1>10. KeyWrite(s, r, id)
  BY <1>1, <1>2, <1>4, <1>6, <1>8, <1>9 DEF KeyWrite
<1>11. WaitWrite(s, r, id) /\ LeaseKept(s, r, id)
  BY <1>1, <1>6, <1>8, <1>9 DEF WaitWrite, LeaseKept, SchedulerState, Counter
<1>12. PolicyOf(r, id)
  BY <1>6, <1>9, Zenon
  DEF PolicyOf, StructureConsistent, PolicyConsistent, Registered
<1>13. StructureConsistent(r)
  BY <1>7, <1>9, <1>10, <1>11, <1>12, StructureFrame, Zenon DEF ThreadWrite
<1> QED BY <1>2, <1>6, <1>9, <1>13, Zenon

\* A new entry `th' of a thread that keeps its lease, keeps or ends its wait,
\* and has a valid policy.
EntryKept(s, id, th) ==
  /\ th \in ScheduledThread
  /\ th.active_lease = s.threads[id].active_lease
  /\ s.threads[id].active_lease # None => th.affinity = s.threads[id].affinity
  /\ th.active_wait \in {None, s.threads[id].active_wait}
  /\ th.ideal_vcpu # None => th.ideal_vcpu \in th.affinity
  /\ th.lifecycle # "Absent" =>
       th.base_priority \in Priority /\ th.effective_priority \in Priority

\* The states such an entry is written to: alone, or with the key removed.
Put(s, id, th) == [s EXCEPT !.threads[id] = th]
Dequeue(s, id, th) ==
  [s EXCEPT !.threads[id] = th,
            !.ready = s.ready \ {s.threads[id].ready_key}]

KeyKept(s, id, th) ==
  /\ th.ready_key = s.threads[id].ready_key
  /\ th.ready_key # None =>
       th.effective_priority = s.threads[id].effective_priority

\* Writing a thread's entry without touching its key.
LEMMA WriteStructure ==
  ASSUME NEW s, StructureConsistent(s),
         NEW id \in ThreadId, NEW th,
         EntryKept(s, id, th), KeyKept(s, id, th),
         NEW r, r = Put(s, id, th)
  PROVE  /\ StructureConsistent(r)
         /\ OnlyThread(s, r, id)
         /\ r.threads[id] = th
<1>1. /\ s \in SchedulerState /\ KeysConsistent(s)
      /\ None \notin s.ready /\ s.next_sequence \in Nat
      /\ s.next_wake_generation \in Nat
  BY ReadyFacts DEF StructureConsistent, SchedulerState, Counter
<1>2. r \in SchedulerState
  BY <1>1, Zenon DEF SchedulerState, EntryKept, Put
<1>3. /\ r.threads = [s.threads EXCEPT ![id] = th]
      /\ r.ready = s.ready
      /\ r.vcpus = s.vcpus
      /\ r.next_sequence = s.next_sequence
      /\ r.next_lease_generation = s.next_lease_generation
      /\ r.next_wake_generation = s.next_wake_generation
  BY <1>1, Zenon DEF SchedulerState, Put
<1>4. r.threads[id] = th /\ OnlyThread(s, r, id)
  BY <1>1, <1>3, Zenon DEF SchedulerState, OnlyThread
<1>5. KeyWrite(s, r, id)
  BY <1>1, <1>3, <1>4 DEF KeyWrite, KeysConsistent, KeyKept
<1>6. WaitWrite(s, r, id) /\ LeaseKept(s, r, id)
  BY <1>1, <1>3, <1>4 DEF WaitWrite, LeaseKept, EntryKept
<1>7. PolicyOf(r, id)
  BY <1>4, Zenon DEF PolicyOf, EntryKept
<1>8. StructureConsistent(r)
  BY <1>2, <1>4, <1>5, <1>6, <1>7, StructureFrame, Zenon DEF ThreadWrite
<1> QED BY <1>4, <1>8, Zenon

\* Writing a thread's entry and taking its key out of the queue.
LEMMA DequeueStructure ==
  ASSUME NEW s, StructureConsistent(s),
         NEW id \in ThreadId, NEW th,
         th.ready_key = None,
         EntryKept(s, id, th),
         NEW r, r = Dequeue(s, id, th)
  PROVE  /\ StructureConsistent(r)
         /\ OnlyThread(s, r, id)
         /\ r.threads[id] = th
<1>1. /\ s \in SchedulerState /\ s.next_sequence \in Nat
      /\ s.next_wake_generation \in Nat
  BY DEF StructureConsistent, SchedulerState, Counter
<1>2. r \in SchedulerState
  BY <1>1, Zenon DEF SchedulerState, EntryKept, Dequeue
<1>3. /\ r.threads = [s.threads EXCEPT ![id] = th]
      /\ r.ready = s.ready \ {s.threads[id].ready_key}
      /\ r.vcpus = s.vcpus
      /\ r.next_sequence = s.next_sequence
      /\ r.next_lease_generation = s.next_lease_generation
      /\ r.next_wake_generation = s.next_wake_generation
  BY <1>1, Zenon DEF SchedulerState, Dequeue
<1>4. r.threads[id] = th /\ OnlyThread(s, r, id)
  BY <1>1, <1>3, Zenon DEF SchedulerState, OnlyThread
<1>5. KeyWrite(s, r, id)
  BY <1>1, <1>3, <1>4 DEF KeyWrite
<1>6. WaitWrite(s, r, id) /\ LeaseKept(s, r, id)
  BY <1>1, <1>3, <1>4 DEF WaitWrite, LeaseKept, EntryKept
<1>7. PolicyOf(r, id)
  BY <1>4, Zenon DEF PolicyOf, EntryKept
<1>8. StructureConsistent(r)
  BY <1>2, <1>4, <1>5, <1>6, <1>7, StructureFrame, Zenon DEF ThreadWrite
<1> QED BY <1>4, <1>8, Zenon

\* An unregistered thread holds nothing.
LEMMA NoThreadType == NoThread \in ScheduledThread
BY Zenon DEF NoThread, ScheduledThread

\* A consistent state is structurally consistent and typed.
LEMMA ConsistentType ==
  ASSUME NEW s, Consistent(s), NEW id \in ThreadId
  PROVE  /\ StructureConsistent(s) /\ s \in SchedulerState
         /\ s.threads[id] \in ScheduledThread
         /\ LifecycleConsistent(s, id)
BY Zenon DEF Consistent, StructureConsistent, SchedulerState

-----------------------------------------------------------------------------
(* Every command but Select and Complete keeps the state consistent.       *)

\* MakeReady keeps the scheduler consistent when its callers keep the
\* discipline.
LEMMA MakeReadyConsistent ==
  ASSUME NEW s, Consistent(s), NEW id \in ThreadId,
         make_ready_ok(s, id), ReadyDiscipline(s, id)
  PROVE  Consistent(make_ready(s, id))
<1> DEFINE r == make_ready(s, id)
<1>1. /\ StructureConsistent(s) /\ LifecycleConsistent(s, id)
      /\ s.threads[id].ready_key = None
      /\ s.threads[id].active_lease = None
      /\ s.threads[id].active_wait = None
      /\ Registered(s, id) /\ allocate_ok(s.next_sequence)
  BY ConsistentType, Zenon DEF LifecycleConsistent, ReadyDiscipline, make_ready_ok
<1>2. r = enqueue_existing_with_sequence(s, id)
  BY Zenon DEF make_ready
<1> HIDE DEF r
<1>3. /\ StructureConsistent(r) /\ OnlyThread(s, r, id)
      /\ LifecycleConsistent(r, id)
  BY <1>1, <1>2, EnqueueStructure DEF LifecycleConsistent
<1> QED BY <1>3, LifecycleFrame, Zenon DEF r

\* Register and Unregister.
LEMMA RegisterConsistent ==
  ASSUME NEW s, Consistent(s), NEW id \in ThreadId, NEW config \in Config,
         register_ok(s, id, config)
  PROVE  Consistent(register(s, id, config))
<1> DEFINE th == [NoThread EXCEPT !.lifecycle = "Created",
                                  !.base_priority = config.priority,
                                  !.effective_priority = config.priority,
                                  !.ideal_vcpu = config.ideal,
                                  !.affinity = config.affinity]
           r == register(s, id, config)
<1>1. /\ StructureConsistent(s) /\ LifecycleConsistent(s, id)
      /\ s.threads[id].lifecycle = "Absent"
  BY ConsistentType, Zenon DEF register_ok, Registered
<1>2. /\ s.threads[id].ready_key = None
      /\ s.threads[id].active_lease = None
      /\ s.threads[id].active_wait = None
  BY <1>1, Zenon DEF LifecycleConsistent
<1>3. /\ config.priority \in Priority
      /\ config.ideal \in Vcpu \cup {None}
      /\ config.affinity \in SUBSET Vcpu
      /\ config.ideal # None => config.ideal \in config.affinity
  BY Zenon DEF Config, register_ok, validate_policy, CoreSet
<1>4. th \in ScheduledThread
  <2>1. "Created" \in ThreadLifecycle
    BY Zenon DEF ThreadLifecycle
  <2> QED BY <1>3, <2>1, NoThreadType, Zenon DEF ScheduledThread
<1>5. /\ th.lifecycle = "Created" /\ th.ready_key = None
      /\ th.active_lease = None /\ th.active_wait = None
      /\ th.ideal_vcpu = config.ideal /\ th.affinity = config.affinity
      /\ th.base_priority = config.priority
      /\ th.effective_priority = config.priority
  BY Zenon DEF NoThread
<1>6. r = Put(s, id, th)
  BY Zenon DEF register, Put
<1> HIDE DEF th, r
<1>7. StructureConsistent(r) /\ OnlyThread(s, r, id) /\ r.threads[id] = th
  <2>1. EntryKept(s, id, th) /\ KeyKept(s, id, th)
    BY <1>2, <1>3, <1>4, <1>5, Zenon DEF EntryKept, KeyKept
  <2> QED BY <1>1, <1>6, <2>1, WriteStructure
<1>8. LifecycleConsistent(r, id)
  BY <1>5, <1>7, Zenon DEF LifecycleConsistent
<1> QED BY <1>7, <1>8, LifecycleFrame, Zenon DEF r

LEMMA UnregisterConsistent ==
  ASSUME NEW s, Consistent(s), NEW id \in ThreadId, unregister_ok(s, id)
  PROVE  Consistent(unregister(s, id))
<1> DEFINE r == unregister(s, id)
<1>1. StructureConsistent(s) /\ s.threads[id].active_lease = None
  BY ConsistentType, Zenon DEF unregister_ok
<1>2. /\ NoThread \in ScheduledThread
      /\ NoThread.lifecycle = "Absent" /\ NoThread.ready_key = None
      /\ NoThread.active_lease = None /\ NoThread.active_wait = None
      /\ NoThread.ideal_vcpu = None
  BY NoThreadType, Zenon DEF NoThread
<1>3. r = Dequeue(s, id, NoThread)
  BY Zenon DEF unregister, Dequeue
<1> HIDE DEF r
<1>4. StructureConsistent(r) /\ OnlyThread(s, r, id) /\ r.threads[id] = NoThread
  <2>1. EntryKept(s, id, NoThread)
    BY <1>1, <1>2, Zenon DEF EntryKept
  <2> QED BY <1>1, <1>2, <1>3, <2>1, DequeueStructure
<1>5. LifecycleConsistent(r, id)
  BY <1>2, <1>4, Zenon DEF LifecycleConsistent
<1> QED BY <1>4, <1>5, LifecycleFrame, Zenon DEF r

\* Terminate.
LEMMA TerminateConsistent ==
  ASSUME NEW s, Consistent(s), NEW id \in ThreadId, NEW faulted \in BOOLEAN,
         terminate_ok(s, id, faulted)
  PROVE  Consistent(terminate(s, id, faulted))
<1> DEFINE end == IF faulted THEN "Faulted" ELSE "Exited"
           th == [s.threads[id] EXCEPT !.ready_key = None,
                                       !.active_wait = None,
                                       !.lifecycle = end]
           r == terminate(s, id, faulted)
<1>1. /\ StructureConsistent(s) /\ s.threads[id] \in ScheduledThread
      /\ s.threads[id].active_lease = None /\ Registered(s, id)
  BY ConsistentType, Zenon DEF terminate_ok
<1>2. end \in ThreadLifecycle /\ end \in {"Exited", "Faulted"}
  BY Zenon DEF ThreadLifecycle
<1> HIDE DEF end
<1>3. th \in ScheduledThread
  <2>1. [s.threads[id] EXCEPT !.ready_key = None] \in ScheduledThread
    BY <1>1, ThreadFieldTypes, Zenon
  <2>2. [s.threads[id] EXCEPT !.ready_key = None, !.active_wait = None]
          \in ScheduledThread
    BY <2>1, ThreadFieldTypes, Zenon
  <2> QED BY <1>2, <2>2, ThreadFieldTypes, Zenon
<1>4. /\ th.lifecycle = end /\ th.ready_key = None /\ th.active_wait = None
      /\ th.active_lease = s.threads[id].active_lease
      /\ th.affinity = s.threads[id].affinity
      /\ th.ideal_vcpu = s.threads[id].ideal_vcpu
      /\ th.base_priority = s.threads[id].base_priority
      /\ th.effective_priority = s.threads[id].effective_priority
  BY <1>1, Zenon DEF ScheduledThread
<1>5. r = Dequeue(s, id, th)
  BY Zenon DEF terminate, Dequeue, end
<1> HIDE DEF th, r
<1>6. EntryKept(s, id, th)
  BY <1>1, <1>3, <1>4, Zenon
  DEF EntryKept, StructureConsistent, PolicyConsistent, Registered
<1>7. StructureConsistent(r) /\ OnlyThread(s, r, id) /\ r.threads[id] = th
  BY <1>1, <1>4, <1>5, <1>6, DequeueStructure
<1>8. LifecycleConsistent(r, id)
  BY <1>1, <1>2, <1>4, <1>7, Zenon DEF LifecycleConsistent
<1> QED BY <1>7, <1>8, LifecycleFrame, Zenon DEF r

\* SetActivity: suspension takes the thread out of the queue, resumption puts it
\* at the end.
LEMMA SetActivityConsistent ==
  ASSUME NEW s, Consistent(s), NEW id \in ThreadId, NEW paused \in BOOLEAN,
         set_activity_ok(s, id, paused)
  PROVE  Consistent(set_activity(s, id, paused))
<1> DEFINE th == [s.threads[id] EXCEPT !.ready_key = None,
                                       !.lifecycle = "Suspended"]
           r == set_activity(s, id, paused)
<1>1. /\ StructureConsistent(s) /\ s.threads[id] \in ScheduledThread
      /\ s.threads[id].active_lease = None /\ LifecycleConsistent(s, id)
  BY ConsistentType, Zenon DEF set_activity_ok
<1>2. CASE paused
  <2>1. s.threads[id].lifecycle = "Ready" /\ s.threads[id].active_wait = None
    BY <1>1, <1>2, Zenon DEF set_activity_ok, LifecycleConsistent
  <2>2. th \in ScheduledThread
    <3>1. "Suspended" \in ThreadLifecycle
      BY Zenon DEF ThreadLifecycle
    <3>2. [s.threads[id] EXCEPT !.ready_key = None] \in ScheduledThread
      BY <1>1, ThreadFieldTypes, Zenon
    <3> QED BY <3>1, <3>2, ThreadFieldTypes, Zenon
  <2>3. /\ th.lifecycle = "Suspended" /\ th.ready_key = None
        /\ th.active_wait = s.threads[id].active_wait
        /\ th.active_lease = s.threads[id].active_lease
        /\ th.affinity = s.threads[id].affinity
        /\ th.ideal_vcpu = s.threads[id].ideal_vcpu
        /\ th.base_priority = s.threads[id].base_priority
        /\ th.effective_priority = s.threads[id].effective_priority
    BY <1>1, Zenon DEF ScheduledThread
  <2>4. r = Dequeue(s, id, th)
    BY <1>2, Zenon DEF set_activity, Dequeue
  <2> HIDE DEF th, r
  <2>5. EntryKept(s, id, th)
    BY <1>1, <2>1, <2>2, <2>3, Zenon
    DEF EntryKept, StructureConsistent, PolicyConsistent
  <2>6. StructureConsistent(r) /\ OnlyThread(s, r, id) /\ r.threads[id] = th
    BY <1>1, <2>3, <2>4, <2>5, DequeueStructure
  <2>7. LifecycleConsistent(r, id)
    BY <1>1, <2>1, <2>3, <2>6, Zenon DEF LifecycleConsistent
  <2> QED BY <2>6, <2>7, LifecycleFrame, Zenon DEF r
<1>3. CASE ~paused
  <2>1. r = enqueue_existing_with_sequence(s, id)
    BY <1>3, Zenon DEF set_activity
  <2>2. /\ Registered(s, id) /\ allocate_ok(s.next_sequence)
        /\ s.threads[id].ready_key = None /\ s.threads[id].active_wait = None
    BY <1>1, <1>3, Zenon DEF set_activity_ok, LifecycleConsistent, Registered
  <2> HIDE DEF r
  <2>3. /\ StructureConsistent(r) /\ OnlyThread(s, r, id)
        /\ LifecycleConsistent(r, id)
    BY <1>1, <2>1, <2>2, EnqueueStructure DEF LifecycleConsistent
  <2> QED BY <2>3, LifecycleFrame, Zenon DEF r
<1> QED BY <1>2, <1>3, Zenon

\* Migrate: only a thread without a lease changes its affinity.
LEMMA MigrateConsistent ==
  ASSUME NEW s, Consistent(s), NEW id \in ThreadId,
         NEW ideal \in Vcpu \cup {None}, NEW affinity \in CoreSet,
         migrate_ok(s, id, ideal, affinity)
  PROVE  Consistent(migrate(s, id, ideal, affinity))
<1> DEFINE th == [s.threads[id] EXCEPT !.ideal_vcpu = ideal,
                                       !.affinity = affinity]
           r == migrate(s, id, ideal, affinity)
<1>1. /\ StructureConsistent(s) /\ s.threads[id] \in ScheduledThread
      /\ s.threads[id].active_lease = None /\ LifecycleConsistent(s, id)
      /\ affinity \in SUBSET Vcpu
      /\ ideal # None => ideal \in affinity
  BY ConsistentType, Zenon DEF migrate_ok, CoreSet
<1>2. th \in ScheduledThread
  <2>1. [s.threads[id] EXCEPT !.ideal_vcpu = ideal] \in ScheduledThread
    BY <1>1, ThreadFieldTypes, Zenon
  <2> QED BY <1>1, <2>1, ThreadFieldTypes, Zenon
<1>3. /\ th.ideal_vcpu = ideal /\ th.affinity = affinity
      /\ th.lifecycle = s.threads[id].lifecycle
      /\ th.ready_key = s.threads[id].ready_key
      /\ th.active_wait = s.threads[id].active_wait
      /\ th.active_lease = s.threads[id].active_lease
      /\ th.base_priority = s.threads[id].base_priority
      /\ th.effective_priority = s.threads[id].effective_priority
  BY <1>1, Zenon DEF ScheduledThread
<1>4. r = Put(s, id, th)
  BY Zenon DEF migrate, Put
<1> HIDE DEF th, r
<1>5. EntryKept(s, id, th) /\ KeyKept(s, id, th)
  BY <1>1, <1>2, <1>3, Zenon
  DEF EntryKept, KeyKept, StructureConsistent, PolicyConsistent
<1>6. StructureConsistent(r) /\ OnlyThread(s, r, id) /\ r.threads[id] = th
  BY <1>1, <1>4, <1>5, WriteStructure
<1>7. LifecycleConsistent(r, id)
  BY <1>1, <1>3, <1>6, Zenon DEF LifecycleConsistent
<1> QED BY <1>6, <1>7, LifecycleFrame, Zenon DEF r

\* Wake and CancelWait: the wait ends before the thread is queued.
LEMMA FinishWaitConsistent ==
  ASSUME NEW s, Consistent(s), NEW token \in WakeToken,
         finish_wait_ok(s, token)
  PROVE  Consistent(finish_wait(s, token))
<1> DEFINE id == token.thread
           th == [s.threads[id] EXCEPT !.active_wait = None]
           mid == [s EXCEPT !.threads[token.thread].active_wait = None]
           r == finish_wait(s, token)
<1>0. id \in ThreadId /\ token # None
  BY NoneAssumption, Zenon DEF WakeToken
<1>1. /\ StructureConsistent(s) /\ s.threads[id] \in ScheduledThread
      /\ LifecycleConsistent(s, id) /\ s.threads[id].active_wait # None
      /\ allocate_ok(s.next_sequence)
  BY <1>0, ConsistentType, Zenon DEF finish_wait_ok
<1>2. th \in ScheduledThread
  BY <1>1, Zenon DEF ScheduledThread
<1>3. /\ th.active_wait = None
      /\ th.affinity = s.threads[id].affinity
      /\ th.ideal_vcpu = s.threads[id].ideal_vcpu
      /\ th.lifecycle = s.threads[id].lifecycle
      /\ th.ready_key = s.threads[id].ready_key
      /\ th.active_lease = s.threads[id].active_lease
      /\ th.base_priority = s.threads[id].base_priority
      /\ th.effective_priority = s.threads[id].effective_priority
  BY <1>1, Zenon DEF ScheduledThread
<1>4. mid = Put(s, id, th)
  BY Zenon DEF Put
<1>5. r = enqueue_existing_with_sequence(mid, id)
  BY Zenon DEF finish_wait
<1>6. mid.next_sequence = s.next_sequence
  BY <1>1, Zenon DEF StructureConsistent, SchedulerState
<1> HIDE DEF th, r, mid, id
<1>7. EntryKept(s, id, th) /\ KeyKept(s, id, th)
  BY <1>0, <1>1, <1>2, <1>3, Zenon
  DEF EntryKept, KeyKept, StructureConsistent, PolicyConsistent
<1>8. StructureConsistent(mid) /\ OnlyThread(s, mid, id) /\ mid.threads[id] = th
  BY <1>0, <1>1, <1>4, <1>7, WriteStructure
<1>9. /\ Registered(mid, id) /\ allocate_ok(mid.next_sequence)
      /\ mid.threads[id].ready_key = None
      /\ mid.threads[id].active_lease = None
      /\ mid.threads[id].active_wait = None
  BY <1>0, <1>1, <1>3, <1>6, <1>8, Zenon DEF LifecycleConsistent, Registered
<1>10. /\ StructureConsistent(r) /\ OnlyThread(mid, r, id)
       /\ LifecycleConsistent(r, id)
  BY <1>0, <1>5, <1>8, <1>9, EnqueueStructure DEF LifecycleConsistent
<1>11. OnlyThread(s, r, id)
  BY <1>8, <1>10, Zenon DEF OnlyThread
<1> QED BY <1>0, <1>10, <1>11, LifecycleFrame, Zenon DEF r

\* RegisterWait: a pending wait is given the next wake generation.
LEMMA RegisterWaitConsistent ==
  ASSUME NEW s, Consistent(s), NEW id \in ThreadId,
         NEW readiness \in {"Ready", "Pending"},
         register_wait_ok(s, id, readiness)
  PROVE  Consistent(register_wait(s, id, readiness))
<1> DEFINE token == NextToken(s, id)
           th == [s.threads[id] EXCEPT !.active_wait = token]
           next == s.next_wake_generation + 1
           r == register_wait(s, id, readiness)
<1>1. /\ StructureConsistent(s) /\ s.threads[id] \in ScheduledThread
      /\ LifecycleConsistent(s, id) /\ s \in SchedulerState
      /\ s.threads[id].lifecycle = "Waiting" /\ s.threads[id].active_wait = None
      /\ s.threads[id].ready_key = None /\ s.threads[id].active_lease = None
  BY ConsistentType, Zenon DEF register_wait_ok, LifecycleConsistent
<1>2. CASE readiness = "Ready"
  <2>1. r = enqueue_existing_with_sequence(s, id)
    BY <1>2, Zenon DEF register_wait
  <2>2. Registered(s, id) /\ allocate_ok(s.next_sequence)
    BY <1>1, <1>2, Zenon DEF register_wait_ok, Registered
  <2> HIDE DEF r
  <2>3. /\ StructureConsistent(r) /\ OnlyThread(s, r, id)
        /\ LifecycleConsistent(r, id)
    BY <1>1, <2>1, <2>2, EnqueueStructure DEF LifecycleConsistent
  <2> QED BY <2>3, LifecycleFrame, Zenon DEF r
<1>3. CASE readiness # "Ready"
  <2>1. /\ s.next_wake_generation \in Nat /\ s.next_sequence \in Nat
        /\ next \in Counter /\ next = s.next_wake_generation + 1
        /\ None \notin s.ready /\ KeysConsistent(s)
    BY <1>1, <1>3, MaxCounterAssumption, ReadyFacts
    DEF register_wait_ok, allocate_ok, SchedulerState, Counter,
        StructureConsistent
  <2>2. /\ token \in WakeToken /\ token # None
        /\ token.thread = id /\ token.generation = s.next_wake_generation
    BY <1>1, NoneAssumption DEF NextToken, WakeToken, SchedulerState
  <2> HIDE DEF token, next
  <2>3. th \in ScheduledThread
    BY <1>1, <2>2, ThreadFieldTypes, Zenon
  <2>4. /\ th.active_wait = token
        /\ th.affinity = s.threads[id].affinity
        /\ th.ideal_vcpu = s.threads[id].ideal_vcpu
        /\ th.lifecycle = s.threads[id].lifecycle
        /\ th.ready_key = s.threads[id].ready_key
        /\ th.active_lease = s.threads[id].active_lease
        /\ th.base_priority = s.threads[id].base_priority
        /\ th.effective_priority = s.threads[id].effective_priority
    BY <1>1, Zenon DEF ScheduledThread
  <2>5. r = [s EXCEPT !.threads[id] = th, !.next_wake_generation = next]
    BY <1>3, Zenon DEF register_wait, next, token
  <2> HIDE DEF th, r
  <2>6. r \in SchedulerState
    <3>1. [s EXCEPT !.threads[id] = th, !.next_wake_generation = next]
            \in SchedulerState
      BY <1>1, <2>1, <2>3, Zenon DEF SchedulerState
    <3> QED BY <2>5, <3>1, Zenon
  <2>7. /\ r.threads = [s.threads EXCEPT ![id] = th]
        /\ r.ready = s.ready
        /\ r.vcpus = s.vcpus
        /\ r.next_sequence = s.next_sequence
        /\ r.next_lease_generation = s.next_lease_generation
        /\ r.next_wake_generation = next
    BY <1>1, <2>5, Zenon DEF SchedulerState
  <2>8. r.threads[id] = th /\ OnlyThread(s, r, id)
    BY <1>1, <2>7, Zenon DEF SchedulerState, OnlyThread
  <2>9. KeyWrite(s, r, id)
    BY <1>1, <2>1, <2>4, <2>7, <2>8 DEF KeyWrite
  <2>10. WaitWrite(s, r, id) /\ LeaseKept(s, r, id)
    BY <1>1, <2>1, <2>2, <2>4, <2>7, <2>8 DEF WaitWrite, LeaseKept
  <2>11. PolicyOf(r, id)
    BY <1>1, <2>4, <2>8, Zenon DEF PolicyOf, StructureConsistent, PolicyConsistent
  <2>12. StructureConsistent(r)
    BY <1>1, <2>6, <2>8, <2>9, <2>10, <2>11, StructureFrame, Zenon DEF ThreadWrite
  <2>13. LifecycleConsistent(r, id)
    BY <1>1, <2>2, <2>4, <2>8, Zenon DEF LifecycleConsistent
  <2> QED BY <2>8, <2>12, <2>13, LifecycleFrame, Zenon DEF r
<1> QED BY <1>2, <1>3, Zenon

\* SetEffectivePriority: a queued thread is re-keyed in both places.
LEMMA SetEffectivePriorityConsistent ==
  ASSUME NEW s, Consistent(s), NEW id \in ThreadId, NEW priority \in Priority,
         set_priority_ok(s, id, priority)
  PROVE  Consistent(set_effective_priority(s, id, priority))
<1> DEFINE old == s.threads[id].ready_key
           new == IF old = None THEN None ELSE [old EXCEPT !.priority = priority]
           ready == IF old = None THEN s.ready ELSE (s.ready \ {old}) \cup {new}
           th == [s.threads[id] EXCEPT !.effective_priority = priority,
                                       !.ready_key = new]
           r == set_effective_priority(s, id, priority)
<1>1. /\ StructureConsistent(s) /\ s.threads[id] \in ScheduledThread
      /\ LifecycleConsistent(s, id) /\ s \in SchedulerState
      /\ s.threads[id].active_lease = None /\ Registered(s, id)
      /\ KeysConsistent(s) /\ None \notin s.ready
      /\ s.next_sequence \in Nat /\ s.next_wake_generation \in Nat
  BY ConsistentType, ReadyFacts
  DEF set_priority_ok, StructureConsistent, SchedulerState, Counter
<1>2. old # None =>
        /\ new \in ReadyKey /\ new # None
        /\ new.thread = id /\ new.priority = priority
        /\ new.sequence = old.sequence
  BY <1>1, NoneAssumption DEF ScheduledThread, ReadyKey, KeysConsistent
<1>3. /\ new \in ReadyKey \cup {None}
      /\ ready \in SUBSET ReadyKey
      /\ ready = (s.ready \ {old}) \cup (IF new = None THEN {} ELSE {new})
      /\ old = None => new = None
  BY <1>1, <1>2, Zenon DEF SchedulerState
<1>4. r = [s EXCEPT !.threads[id] = th, !.ready = ready]
  <2>1. CASE old = None
    <3>1. th = [s.threads[id] EXCEPT !.effective_priority = priority]
      BY <1>1, <2>1, Zenon DEF ScheduledThread
    <3>2. [s EXCEPT !.threads[id] = th, !.ready = ready] = [s EXCEPT !.threads[id] = th]
      BY <1>1, <2>1, Zenon DEF SchedulerState
    <3>3. r = [s EXCEPT !.threads[id].effective_priority = priority]
      BY <2>1, Zenon DEF set_effective_priority
    <3> HIDE DEF r, th
    <3> QED BY <3>1, <3>2, <3>3, Zenon
  <2>2. CASE old # None
    BY <2>2, Zenon DEF set_effective_priority
  <2> QED BY <2>1, <2>2, Zenon
<1> HIDE DEF new, ready
<1>5. th \in ScheduledThread
  <2>1. [s.threads[id] EXCEPT !.effective_priority = priority] \in ScheduledThread
    BY <1>1, ThreadFieldTypes, Zenon
  <2> QED BY <1>3, <2>1, ThreadFieldTypes, Zenon
<1>6. /\ th.effective_priority = priority
      /\ th.ready_key = new
      /\ th.active_wait = s.threads[id].active_wait
      /\ th.affinity = s.threads[id].affinity
      /\ th.ideal_vcpu = s.threads[id].ideal_vcpu
      /\ th.lifecycle = s.threads[id].lifecycle
      /\ th.active_lease = s.threads[id].active_lease
      /\ th.base_priority = s.threads[id].base_priority
  BY <1>1, Zenon DEF ScheduledThread
<1> HIDE DEF th, r
<1>7. r \in SchedulerState
  <2>1. [s EXCEPT !.threads[id] = th, !.ready = ready] \in SchedulerState
    BY <1>1, <1>3, <1>5, Zenon DEF SchedulerState
  <2> QED BY <1>4, <2>1, Zenon
<1>8. /\ r.threads = [s.threads EXCEPT ![id] = th]
      /\ r.ready = ready
      /\ r.vcpus = s.vcpus
      /\ r.next_sequence = s.next_sequence
      /\ r.next_lease_generation = s.next_lease_generation
      /\ r.next_wake_generation = s.next_wake_generation
  BY <1>1, <1>4, Zenon DEF SchedulerState
<1>9. r.threads[id] = th /\ OnlyThread(s, r, id)
  BY <1>1, <1>8, Zenon DEF SchedulerState, OnlyThread
<1>10. KeyWrite(s, r, id)
  BY <1>1, <1>2, <1>3, <1>6, <1>8, <1>9 DEF KeyWrite
<1>11. WaitWrite(s, r, id) /\ LeaseKept(s, r, id)
  BY <1>1, <1>6, <1>8, <1>9 DEF WaitWrite, LeaseKept
<1>12. PolicyOf(r, id)
  BY <1>1, <1>6, <1>9, Zenon
  DEF PolicyOf, StructureConsistent, PolicyConsistent, Registered
<1>13. StructureConsistent(r)
  BY <1>1, <1>7, <1>9, <1>10, <1>11, <1>12, StructureFrame, Zenon DEF ThreadWrite
<1>14. LifecycleConsistent(r, id)
  BY <1>1, <1>2, <1>3, <1>6, <1>9, Zenon DEF LifecycleConsistent
<1> QED BY <1>9, <1>13, <1>14, LifecycleFrame, Zenon DEF r

\* SetPriority changes the base priority as well.
LEMMA SetPriorityConsistent ==
  ASSUME NEW s, Consistent(s), NEW id \in ThreadId, NEW priority \in Priority,
         set_priority_ok(s, id, priority)
  PROVE  Consistent(set_priority(s, id, priority))
<1> DEFINE mid == set_effective_priority(s, id, priority)
           th == [mid.threads[id] EXCEPT !.base_priority = priority]
           r == set_priority(s, id, priority)
<1>1. Consistent(mid)
  BY SetEffectivePriorityConsistent, Zenon
<1>2. r = Put(mid, id, th)
  BY Zenon DEF set_priority, Put
<1> HIDE DEF mid, r
<1>3. /\ StructureConsistent(mid) /\ mid.threads[id] \in ScheduledThread
      /\ LifecycleConsistent(mid, id)
  BY <1>1, ConsistentType, Zenon
<1>4. th \in ScheduledThread
  BY <1>3, ThreadFieldTypes, Zenon
<1>5. /\ th.base_priority = priority
      /\ th.effective_priority = mid.threads[id].effective_priority
      /\ th.ready_key = mid.threads[id].ready_key
      /\ th.active_wait = mid.threads[id].active_wait
      /\ th.affinity = mid.threads[id].affinity
      /\ th.ideal_vcpu = mid.threads[id].ideal_vcpu
      /\ th.lifecycle = mid.threads[id].lifecycle
      /\ th.active_lease = mid.threads[id].active_lease
  BY <1>3, Zenon DEF ScheduledThread
<1> HIDE DEF th
<1>6. EntryKept(mid, id, th) /\ KeyKept(mid, id, th)
  BY <1>3, <1>4, <1>5, Zenon
  DEF EntryKept, KeyKept, StructureConsistent, PolicyConsistent
<1>7. StructureConsistent(r) /\ OnlyThread(mid, r, id) /\ r.threads[id] = th
  BY <1>2, <1>3, <1>6, WriteStructure
<1>8. LifecycleConsistent(r, id)
  BY <1>3, <1>5, <1>7, Zenon DEF LifecycleConsistent
<1> QED BY <1>1, <1>7, <1>8, LifecycleFrame, Zenon DEF r

-----------------------------------------------------------------------------
(* Select and Complete, the two ends of a lease, keep the state consistent.*)

\* Select: the first eligible thread trades its key for a lease on an idle vCPU.
LEMMA SelectConsistent ==
  ASSUME NEW s, Consistent(s), NEW vcpu \in Vcpu, NEW key \in s.ready,
         select_ok(s, vcpu, key)
  PROVE  Consistent(select(s, vcpu, key))
<1> DEFINE id == key.thread
           lease == [thread |-> id, vcpu |-> vcpu,
                     generation |-> s.next_lease_generation]
           th == [s.threads[id] EXCEPT !.lifecycle = "Running",
                                       !.ready_key = None,
                                       !.active_lease = lease]
           ready == s.ready \ {key}
           next == s.next_lease_generation + 1
           r == select(s, vcpu, key)
<1>1. /\ s \in SchedulerState /\ StructureConsistent(s)
      /\ KeysConsistent(s) /\ SequencesDistinct(s)
      /\ LeasesConsistent(s) /\ GenerationsIssued(s) /\ PolicyConsistent(s)
  BY Zenon DEF Consistent, StructureConsistent
<1>2. /\ id \in ThreadId /\ key # None
      /\ s.threads[id].ready_key = key
  BY <1>1, ReadyFacts, Zenon
<1>3. /\ s.threads[id] \in ScheduledThread /\ LifecycleConsistent(s, id)
      /\ s.threads[id].lifecycle = "Ready"
      /\ s.threads[id].active_lease = None /\ s.threads[id].active_wait = None
  BY <1>2, ConsistentType, Zenon DEF LifecycleConsistent
<1>4. /\ s.vcpus[vcpu] = None /\ vcpu \in s.threads[id].affinity
  BY Zenon DEF select_ok, Idle, FirstOf, EligibleFor
<1>5. /\ s.next_lease_generation \in Nat /\ next \in Counter
      /\ next = s.next_lease_generation + 1
      /\ s.next_sequence \in Nat /\ s.next_wake_generation \in Nat
  BY <1>1, MaxCounterAssumption DEF select_ok, allocate_ok, SchedulerState, Counter
<1>6. /\ lease \in Lease /\ lease # None /\ lease.thread = id
      /\ lease.vcpu = vcpu /\ lease.generation = s.next_lease_generation
  BY <1>1, <1>2, NoneAssumption DEF Lease, SchedulerState
<1>7. r = [s EXCEPT !.threads[id] = th, !.ready = ready, !.vcpus[vcpu] = lease,
                    !.next_lease_generation = next]
  BY Zenon DEF select
<1>8. ready \in SUBSET ReadyKey /\ ready = s.ready \ {key}
  BY <1>1, Zenon DEF SchedulerState
<1> HIDE DEF lease, next, ready, id
<1>9. th \in ScheduledThread
  <2>1. "Running" \in ThreadLifecycle
    BY Zenon DEF ThreadLifecycle
  <2>2. [s.threads[id] EXCEPT !.lifecycle = "Running"] \in ScheduledThread
    BY <1>3, <2>1, ThreadFieldTypes, Zenon
  <2>3. [s.threads[id] EXCEPT !.lifecycle = "Running", !.ready_key = None]
          \in ScheduledThread
    BY <2>2, ThreadFieldTypes, Zenon
  <2> QED BY <1>6, <2>3, ThreadFieldTypes, Zenon
<1>10. /\ th.lifecycle = "Running" /\ th.ready_key = None
       /\ th.active_lease = lease
       /\ th.active_wait = s.threads[id].active_wait
       /\ th.affinity = s.threads[id].affinity
       /\ th.ideal_vcpu = s.threads[id].ideal_vcpu
       /\ th.base_priority = s.threads[id].base_priority
       /\ th.effective_priority = s.threads[id].effective_priority
  BY <1>3, Zenon DEF ScheduledThread
<1> HIDE DEF th, r
<1>11. r \in SchedulerState
  <2>1. [s.threads EXCEPT ![id] = th] \in [ThreadId -> ScheduledThread]
    BY <1>1, <1>9, Zenon DEF SchedulerState
  <2>2. [s.vcpus EXCEPT ![vcpu] = lease] \in [Vcpu -> Lease \cup {None}]
    BY <1>1, <1>6, Zenon DEF SchedulerState
  <2>3. ASSUME NEW T \in [ThreadId -> ScheduledThread],
               NEW V \in [Vcpu -> Lease \cup {None}]
        PROVE  [s EXCEPT !.threads = T, !.ready = ready, !.vcpus = V,
                         !.next_lease_generation = next] \in SchedulerState
    BY <1>1, <1>5, <1>8, Zenon DEF SchedulerState
  <2>4. r = [s EXCEPT !.threads = [s.threads EXCEPT ![id] = th],
                      !.ready = ready,
                      !.vcpus = [s.vcpus EXCEPT ![vcpu] = lease],
                      !.next_lease_generation = next]
    BY <1>7, <1>1, Zenon DEF SchedulerState
  <2> QED BY <2>1, <2>2, <2>3, <2>4, Zenon
<1>12. /\ r.threads = [s.threads EXCEPT ![id] = th]
       /\ r.ready = ready
       /\ r.vcpus = [s.vcpus EXCEPT ![vcpu] = lease]
       /\ r.next_sequence = s.next_sequence
       /\ r.next_lease_generation = next
       /\ r.next_wake_generation = s.next_wake_generation
  BY <1>1, <1>7, Zenon DEF SchedulerState
<1>13. r.threads[id] = th /\ OnlyThread(s, r, id)
  BY <1>1, <1>2, <1>12, Zenon DEF SchedulerState, OnlyThread
<1>14. /\ r.vcpus[vcpu] = lease
       /\ \A v \in Vcpu \ {vcpu} : r.vcpus[v] = s.vcpus[v]
  BY <1>1, <1>12, Zenon DEF SchedulerState
<1>15. KeysConsistent(r) /\ SequencesDistinct(r)
  <2>1. KeyWrite(s, r, id)
    BY <1>2, <1>5, <1>8, <1>10, <1>12, <1>13 DEF KeyWrite
  <2> QED BY <1>1, <1>2, <1>11, <1>13, <2>1, KeysUpdate, Zenon
<1>16. LeasesConsistent(r)
  <2>1. ASSUME NEW j \in ThreadId, r.threads[j].active_lease # None
        PROVE  /\ r.threads[j].active_lease.thread = j
               /\ r.vcpus[r.threads[j].active_lease.vcpu] = r.threads[j].active_lease
               /\ r.threads[j].active_lease.vcpu \in r.threads[j].affinity
    <3>1. CASE j = id
      BY <3>1, <1>4, <1>6, <1>10, <1>13, <1>14, Zenon
    <3>2. CASE j # id
      <4>1. r.threads[j] = s.threads[j]
        BY <3>2, <1>13, Zenon DEF OnlyThread
      <4>2. s.threads[j].active_lease.vcpu \in Vcpu
        BY <2>1, <4>1, <1>1 DEF SchedulerState, ScheduledThread, Lease
      <4>3. /\ s.threads[j].active_lease.thread = j
            /\ s.vcpus[s.threads[j].active_lease.vcpu] = s.threads[j].active_lease
            /\ s.threads[j].active_lease.vcpu \in s.threads[j].affinity
        BY <2>1, <4>1, <1>1, Zenon DEF LeasesConsistent
      <4>4. s.threads[j].active_lease.vcpu # vcpu
        BY <2>1, <4>1, <4>3, <1>4, Zenon
      <4> QED BY <4>1, <4>2, <4>3, <4>4, <1>14, Zenon
    <3> QED BY <3>1, <3>2, Zenon
  <2>2. ASSUME NEW v \in Vcpu, r.vcpus[v] # None
        PROVE  /\ r.vcpus[v].vcpu = v
               /\ r.threads[r.vcpus[v].thread].active_lease = r.vcpus[v]
    <3>1. CASE v = vcpu
      BY <3>1, <1>6, <1>10, <1>13, <1>14, Zenon
    <3>2. CASE v # vcpu
      <4>1. r.vcpus[v] = s.vcpus[v] /\ s.vcpus[v].thread \in ThreadId
        BY <2>2, <3>2, <1>1, <1>14, Zenon DEF SchedulerState, Lease
      <4>2. /\ s.vcpus[v].vcpu = v
            /\ s.threads[s.vcpus[v].thread].active_lease = s.vcpus[v]
        BY <2>2, <4>1, <1>1, Zenon DEF LeasesConsistent
      <4>3. s.vcpus[v].thread # id
        BY <2>2, <4>1, <4>2, <1>3, Zenon
      <4>4. r.threads[s.vcpus[v].thread] = s.threads[s.vcpus[v].thread]
        BY <4>1, <4>3, <1>13, Zenon DEF OnlyThread
      <4> QED BY <4>1, <4>2, <4>4, Zenon
    <3> QED BY <3>1, <3>2, Zenon
  <2> QED BY <2>1, <2>2, Zenon DEF LeasesConsistent
<1>17. GenerationsIssued(r)
  <2>1. ASSUME NEW v \in Vcpu, r.vcpus[v] # None
        PROVE  r.vcpus[v].generation < r.next_lease_generation
    <3>1. CASE v = vcpu
      BY <3>1, <1>5, <1>6, <1>12, <1>14
    <3>2. CASE v # vcpu
      <4>1. r.vcpus[v] = s.vcpus[v] /\ s.vcpus[v].generation \in Nat
        BY <2>1, <3>2, <1>1, <1>14 DEF SchedulerState, Lease, Counter
      <4>2. s.vcpus[v].generation < s.next_lease_generation
        BY <2>1, <4>1, <1>1, Zenon DEF GenerationsIssued
      <4> QED BY <4>1, <4>2, <1>5, <1>12
    <3> QED BY <3>1, <3>2, Zenon
  <2>2. WaitWrite(s, r, id)
    BY <1>5, <1>10, <1>12, <1>13 DEF WaitWrite
  <2> QED BY <1>1, <1>2, <1>11, <1>13, <2>1, <2>2, WaitsFrame, Zenon
<1>18. PolicyConsistent(r)
  BY <1>1, <1>2, <1>3, <1>10, <1>13, Zenon DEF PolicyConsistent, OnlyThread
<1>19. StructureConsistent(r)
  BY <1>11, <1>15, <1>16, <1>17, <1>18, Zenon DEF StructureConsistent
<1>20. LifecycleConsistent(r, id)
  BY <1>3, <1>6, <1>10, <1>13, Zenon DEF LifecycleConsistent
<1> QED BY <1>2, <1>13, <1>19, <1>20, LifecycleFrame, Zenon DEF r

\* What complete leaves before it decides where the thread goes: thread and vCPU
\* have let go of the lease.
Released(s, lease) ==
  [s EXCEPT !.vcpus[lease.vcpu] = None,
            !.threads[lease.thread] = [@ EXCEPT !.active_lease = None,
                                                !.last_vcpu = lease.vcpu]]

\* Giving up the current lease empties both ends.
LEMMA ReleasedStructure ==
  ASSUME NEW s, Consistent(s), NEW lease \in Lease,
         s.threads[lease.thread].active_lease = lease,
         s.vcpus[lease.vcpu] = lease,
         NEW r, r = Released(s, lease)
  PROVE  /\ StructureConsistent(r)
         /\ OnlyThread(s, r, lease.thread)
         /\ r.next_sequence = s.next_sequence
         /\ r.threads[lease.thread].lifecycle = "Running"
         /\ r.threads[lease.thread].ready_key = None
         /\ r.threads[lease.thread].active_lease = None
         /\ r.threads[lease.thread].active_wait = None
<1> DEFINE id == lease.thread
           vcpu == lease.vcpu
           th == [s.threads[id] EXCEPT !.active_lease = None, !.last_vcpu = vcpu]
<1>1. /\ s \in SchedulerState /\ StructureConsistent(s)
      /\ KeysConsistent(s) /\ SequencesDistinct(s)
      /\ LeasesConsistent(s) /\ GenerationsIssued(s) /\ PolicyConsistent(s)
  BY Zenon DEF Consistent, StructureConsistent
<1>2. /\ id \in ThreadId /\ vcpu \in Vcpu /\ lease # None
      /\ s.threads[id].active_lease = lease /\ s.vcpus[vcpu] = lease
  BY NoneAssumption, Zenon DEF Lease
<1>3. /\ s.threads[id] \in ScheduledThread
      /\ s.threads[id].lifecycle = "Running" /\ s.threads[id].ready_key = None
      /\ s.threads[id].active_wait = None
      /\ s.next_sequence \in Nat /\ s.next_wake_generation \in Nat
      /\ None \notin s.ready
  BY <1>1, <1>2, ConsistentType, ReadyFacts
  DEF LifecycleConsistent, SchedulerState, Counter
<1>4. r = [s EXCEPT !.vcpus[vcpu] = None, !.threads[id] = th]
  BY Zenon DEF Released
<1>5. lease.thread = id /\ lease.vcpu = vcpu
  BY Zenon
<1> HIDE DEF id, vcpu
<1>6. th \in ScheduledThread
  <2>1. [s.threads[id] EXCEPT !.active_lease = None] \in ScheduledThread
    BY <1>3, ThreadFieldTypes, Zenon
  <2> QED BY <1>2, <2>1, ThreadFieldTypes, Zenon
<1>7. /\ th.active_lease = None
      /\ th.lifecycle = s.threads[id].lifecycle
      /\ th.ready_key = s.threads[id].ready_key
      /\ th.active_wait = s.threads[id].active_wait
      /\ th.affinity = s.threads[id].affinity
      /\ th.ideal_vcpu = s.threads[id].ideal_vcpu
      /\ th.base_priority = s.threads[id].base_priority
      /\ th.effective_priority = s.threads[id].effective_priority
  BY <1>3, Zenon DEF ScheduledThread
<1> HIDE DEF th
<1>8. r \in SchedulerState
  <2>1. [s EXCEPT !.vcpus[vcpu] = None, !.threads[id] = th] \in SchedulerState
    BY <1>1, <1>6, Zenon DEF SchedulerState
  <2> QED BY <1>4, <2>1, Zenon
<1>9. /\ r.threads = [s.threads EXCEPT ![id] = th]
      /\ r.ready = s.ready
      /\ r.vcpus = [s.vcpus EXCEPT ![vcpu] = None]
      /\ r.next_sequence = s.next_sequence
      /\ r.next_lease_generation = s.next_lease_generation
      /\ r.next_wake_generation = s.next_wake_generation
  BY <1>1, <1>4, Zenon DEF SchedulerState
<1>10. r.threads[id] = th /\ OnlyThread(s, r, id)
  BY <1>1, <1>2, <1>9, Zenon DEF SchedulerState, OnlyThread
<1>11. /\ r.vcpus[vcpu] = None
       /\ \A v \in Vcpu \ {vcpu} : r.vcpus[v] = s.vcpus[v]
  BY <1>1, <1>2, <1>9, Zenon DEF SchedulerState
<1>12. KeysConsistent(r) /\ SequencesDistinct(r)
  <2>1. KeyWrite(s, r, id)
    BY <1>3, <1>7, <1>9, <1>10 DEF KeyWrite
  <2> QED BY <1>1, <1>2, <1>8, <1>10, <2>1, KeysUpdate, Zenon
<1>13. LeasesConsistent(r)
  <2>1. ASSUME NEW j \in ThreadId, r.threads[j].active_lease # None
        PROVE  /\ r.threads[j].active_lease.thread = j
               /\ r.vcpus[r.threads[j].active_lease.vcpu] = r.threads[j].active_lease
               /\ r.threads[j].active_lease.vcpu \in r.threads[j].affinity
    <3>1. j # id
      BY <2>1, <1>7, <1>10, Zenon
    <3>2. r.threads[j] = s.threads[j]
      BY <3>1, <1>10, Zenon DEF OnlyThread
    <3>3. /\ s.threads[j].active_lease.vcpu \in Vcpu
          /\ s.threads[j].active_lease.thread = j
          /\ s.vcpus[s.threads[j].active_lease.vcpu] = s.threads[j].active_lease
          /\ s.threads[j].active_lease.vcpu \in s.threads[j].affinity
      BY <2>1, <3>2, <1>1, Zenon
      DEF SchedulerState, ScheduledThread, Lease, LeasesConsistent
    <3>4. s.threads[j].active_lease.vcpu # vcpu
      BY <3>1, <3>3, <1>2, <1>5, Zenon
    <3> QED BY <3>2, <3>3, <3>4, <1>11, Zenon
  <2>2. ASSUME NEW v \in Vcpu, r.vcpus[v] # None
        PROVE  /\ r.vcpus[v].vcpu = v
               /\ r.threads[r.vcpus[v].thread].active_lease = r.vcpus[v]
    <3>1. v # vcpu /\ r.vcpus[v] = s.vcpus[v]
      BY <2>2, <1>11, Zenon
    <3>2. /\ s.vcpus[v].thread \in ThreadId /\ s.vcpus[v].vcpu = v
          /\ s.threads[s.vcpus[v].thread].active_lease = s.vcpus[v]
      <4>1. s.vcpus[v].thread \in ThreadId
        BY <2>2, <3>1, <1>1, Zenon DEF SchedulerState, Lease
      <4> QED BY <2>2, <3>1, <4>1, <1>1, Zenon DEF LeasesConsistent
    <3>3. s.vcpus[v].thread # id
      BY <3>1, <3>2, <1>2, <1>5, Zenon
    <3> QED BY <3>1, <3>2, <3>3, <1>10, Zenon DEF OnlyThread
  <2> QED BY <2>1, <2>2, Zenon DEF LeasesConsistent
<1>14. GenerationsIssued(r)
  <2>1. \A v \in Vcpu : r.vcpus[v] # None =>
          r.vcpus[v].generation < r.next_lease_generation
    BY <1>1, <1>9, <1>11, Zenon DEF GenerationsIssued
  <2>2. WaitWrite(s, r, id)
    BY <1>3, <1>7, <1>9, <1>10 DEF WaitWrite
  <2> QED BY <1>1, <1>2, <1>8, <1>10, <2>1, <2>2, WaitsFrame, Zenon
<1>15. PolicyConsistent(r)
  BY <1>1, <1>2, <1>7, <1>10 DEF PolicyConsistent, OnlyThread
<1>16. StructureConsistent(r)
  BY <1>8, <1>12, <1>13, <1>14, <1>15, Zenon DEF StructureConsistent
<1> QED BY <1>3, <1>5, <1>7, <1>9, <1>10, <1>16, Zenon

\* Complete: from there the thread goes back to the queue, or to where its stop
\* sends it.
LEMMA CompleteConsistent ==
  ASSUME NEW s, Consistent(s), NEW lease \in Lease, NEW outcome \in Completion,
         complete_ok(s, lease, outcome)
  PROVE  Consistent(complete(s, lease, outcome))
<1> DEFINE id == lease.thread
           mid == Released(s, lease)
           th == [mid.threads[id] EXCEPT !.lifecycle = outcome]
           r == complete(s, lease, outcome)
<1>1. /\ s.threads[lease.thread].active_lease = lease
      /\ s.vcpus[lease.vcpu] = lease
      /\ outcome \in {"Ready", "Preempted"} => allocate_ok(s.next_sequence)
  BY Zenon DEF complete_ok
<1>2. CASE outcome \in {"Ready", "Preempted"}
  <2>1. r = enqueue_existing_with_sequence(mid, id)
    BY <1>2, Zenon DEF complete, Released
  <2> HIDE DEF r, mid
  <2>2. /\ StructureConsistent(mid) /\ OnlyThread(s, mid, id)
        /\ Registered(mid, id) /\ allocate_ok(mid.next_sequence)
        /\ mid.threads[id].ready_key = None
        /\ mid.threads[id].active_lease = None
        /\ mid.threads[id].active_wait = None
        /\ id \in ThreadId
    BY <1>1, <1>2, ReleasedStructure DEF mid, Registered, Lease
  <2> HIDE DEF id
  <2>3. /\ StructureConsistent(r) /\ OnlyThread(mid, r, id)
        /\ LifecycleConsistent(r, id)
    BY <2>1, <2>2, EnqueueStructure, Zenon DEF LifecycleConsistent
  <2>4. OnlyThread(s, r, id)
    BY <2>2, <2>3, Zenon DEF OnlyThread
  <2> QED BY <2>2, <2>3, <2>4, LifecycleFrame, Zenon DEF r
<1>3. CASE outcome \notin {"Ready", "Preempted"}
  <2>1. r = Put(mid, id, th)
    BY <1>3, Zenon DEF complete, Released, Put
  <2>2. outcome \in {"Waiting", "Exited", "Faulted"}
    BY <1>3, Zenon DEF Completion
  <2>3. outcome \in ThreadLifecycle
    BY <2>2, Zenon DEF ThreadLifecycle
  <2> HIDE DEF r, mid
  <2>4. /\ StructureConsistent(mid) /\ OnlyThread(s, mid, id)
        /\ mid.threads[id].lifecycle = "Running"
        /\ mid.threads[id].ready_key = None
        /\ mid.threads[id].active_lease = None
        /\ mid.threads[id].active_wait = None
        /\ id \in ThreadId
    BY <1>1, ReleasedStructure DEF mid, Lease
  <2> HIDE DEF id
  <2>5. mid.threads[id] \in ScheduledThread
    BY <2>4, Zenon DEF StructureConsistent, SchedulerState
  <2>6. th \in ScheduledThread
    BY <2>3, <2>5, ThreadFieldTypes, Zenon
  <2>7. /\ th.lifecycle = outcome
        /\ th.active_lease = mid.threads[id].active_lease
        /\ th.ready_key = mid.threads[id].ready_key
        /\ th.active_wait = mid.threads[id].active_wait
        /\ th.affinity = mid.threads[id].affinity
        /\ th.ideal_vcpu = mid.threads[id].ideal_vcpu
        /\ th.base_priority = mid.threads[id].base_priority
        /\ th.effective_priority = mid.threads[id].effective_priority
    BY <2>5, Zenon DEF ScheduledThread
  <2> HIDE DEF th
  <2>8. EntryKept(mid, id, th) /\ KeyKept(mid, id, th)
    BY <2>4, <2>6, <2>7, Zenon
    DEF EntryKept, KeyKept, StructureConsistent, PolicyConsistent
  <2>9. StructureConsistent(r) /\ OnlyThread(mid, r, id) /\ r.threads[id] = th
    BY <2>1, <2>4, <2>8, WriteStructure
  <2>10. LifecycleConsistent(r, id) /\ OnlyThread(s, r, id)
    BY <2>2, <2>4, <2>7, <2>9, Zenon DEF LifecycleConsistent, OnlyThread
  <2> QED BY <2>4, <2>9, <2>10, LifecycleFrame, Zenon DEF r
<1> QED BY <1>2, <1>3, Zenon

-----------------------------------------------------------------------------
(* The invariant and what follows from it.                                 *)

\* select_next places a thread on a vCPU of the machine.
LEMMA PlacementType ==
  ASSUME NEW s \in SchedulerState, KeysConsistent(s),
         NEW found \in FirstOf(Dispatchable(s))
  PROVE  Placement(s, found) \subseteq Vcpu
<1>1. found.thread \in ThreadId
  BY ReadyFacts DEF FirstOf, Dispatchable
<1>2. s.threads[found.thread] \in ScheduledThread
  BY <1>1 DEF SchedulerState
<1> QED BY <1>2 DEF Placement, ScheduledThread

(***************************************************************************)
(* The theorems.                                                           *)
(***************************************************************************)
\* Every command, and so every behaviour of the scheduler, keeps its state
\* consistent: types, ready queue, leases, waits and generations together form
\* an inductive invariant of SchedulerState::apply.
THEOREM SchedulerInvariant == Spec => []SchedulerConsistent
<1>1. Init => SchedulerConsistent
  <2> SUFFICES ASSUME Init PROVE Consistent(NewScheduler)
    BY DEF Init, SchedulerConsistent
  <2>1. 1 \in Counter
    BY MaxCounterAssumption DEF Counter
  <2>2. NewScheduler \in SchedulerState
    BY <2>1, NoThreadType, Zenon DEF NewScheduler, SchedulerState
  <2>3. /\ NewScheduler.ready = {}
        /\ \A id \in ThreadId : NewScheduler.threads[id] = NoThread
        /\ \A v \in Vcpu : NewScheduler.vcpus[v] = None
    BY DEF NewScheduler
  <2>4. /\ NoThread.lifecycle = "Absent" /\ NoThread.ready_key = None
        /\ NoThread.active_lease = None /\ NoThread.active_wait = None
        /\ NoThread.ideal_vcpu = None
    BY DEF NoThread
  <2>5. StructureConsistent(NewScheduler)
    BY <2>2, <2>3, <2>4
    DEF StructureConsistent, KeysConsistent, SequencesDistinct,
        LeasesConsistent, GenerationsIssued, PolicyConsistent
  <2> QED BY <2>3, <2>4, <2>5 DEF Consistent, LifecycleConsistent
<1>2. SchedulerConsistent /\ [Next]_sched => SchedulerConsistent'
  <2> SUFFICES ASSUME Consistent(sched), [Next]_sched
               PROVE  Consistent(sched')
    BY DEF SchedulerConsistent
  <2>1. CASE \E id \in ThreadId, config \in Config : Register(id, config)
    BY <2>1, RegisterConsistent DEF Register
  <2>2. CASE \E id \in ThreadId : Unregister(id)
    BY <2>2, UnregisterConsistent DEF Unregister
  <2>3. CASE \E id \in ThreadId : MakeReady(id)
    BY <2>3, MakeReadyConsistent DEF MakeReady
  <2>4. ASSUME NEW vcpu \in Vcpu, Select(vcpu) PROVE Consistent(sched')
    BY <2>4, SelectConsistent DEF Select
  <2>5. CASE SelectNext
    <3>1. PICK found \in FirstOf(Dispatchable(sched)) :
            \E vcpu \in Placement(sched, found) : Select(vcpu)
      BY <2>5 DEF SelectNext
    <3>2. Placement(sched, found) \subseteq Vcpu
      BY <3>1, PlacementType DEF Consistent, StructureConsistent
    <3> QED BY <3>1, <3>2, <2>4
  <2>6. CASE \E lease \in Lease, outcome \in Completion : Complete(lease, outcome)
    BY <2>6, CompleteConsistent DEF Complete
  <2>7. CASE \E id \in ThreadId, readiness \in {"Ready", "Pending"} :
               RegisterWait(id, readiness)
    BY <2>7, RegisterWaitConsistent DEF RegisterWait
  <2>8. CASE \E token \in WakeToken : FinishWait(token)
    BY <2>8, FinishWaitConsistent DEF FinishWait
  <2>9. CASE \E id \in ThreadId, ideal \in Vcpu \cup {None}, affinity \in CoreSet :
               Migrate(id, ideal, affinity)
    BY <2>9, MigrateConsistent DEF Migrate
  <2>10. CASE \E id \in ThreadId, priority \in Priority : SetPriority(id, priority)
    BY <2>10, SetPriorityConsistent DEF SetPriority
  <2>11. CASE \E id \in ThreadId, priority \in Priority :
                SetEffectivePriority(id, priority)
    BY <2>11, SetEffectivePriorityConsistent DEF SetEffectivePriority
  <2>12. CASE \E id \in ThreadId, paused \in BOOLEAN : SetActivity(id, paused)
    BY <2>12, SetActivityConsistent DEF SetActivity
  <2>13. CASE \E id \in ThreadId, faulted \in BOOLEAN : Terminate(id, faulted)
    BY <2>13, TerminateConsistent DEF Terminate
  <2>14. CASE UNCHANGED sched
    BY <2>14
  <2> QED BY <2>1, <2>2, <2>3, <2>4, <2>5, <2>6, <2>7, <2>8, <2>9, <2>10, <2>11,
             <2>12, <2>13, <2>14 DEF Next
<1> QED BY <1>1, <1>2, PTL DEF Spec

\* The queue, lease and wait invariants and the type invariant hold in every
\* reachable state of the scheduler.
THEOREM SchedulerSafety ==
  Spec => [](TypeOK /\ QueueConsistent /\ LeasesMatch /\ WaitsOnlyWhileWaiting)
<1>1. SchedulerConsistent =>
        TypeOK /\ QueueConsistent /\ LeasesMatch /\ WaitsOnlyWhileWaiting
  BY DEF SchedulerConsistent, Consistent, StructureConsistent,
         LifecycleConsistent, TypeOK, QueueConsistent, LeasesMatch,
         WaitsOnlyWhileWaiting
<1> QED BY <1>1, SchedulerInvariant, PTL

\* select_next leases the thread its first search found, whichever of the
\* thread's idle vCPUs it is placed on.
THEOREM SelectNextAgreement == Spec => []SelectNextAgrees
<1>1. SchedulerConsistent => SelectNextAgrees
  <2> SUFFICES ASSUME SchedulerConsistent,
                      NEW found \in FirstOf(Dispatchable(sched)),
                      NEW vcpu \in Placement(sched, found)
               PROVE  /\ Idle(sched, vcpu)
                      /\ FirstOf(EligibleFor(sched, vcpu)) = {found}
    BY DEF SelectNextAgrees
  <2>1. /\ sched \in SchedulerState /\ KeysConsistent(sched)
        /\ PolicyConsistent(sched)
    BY DEF SchedulerConsistent, Consistent, StructureConsistent
  <2>2. found \in sched.ready /\ found.thread \in ThreadId
    BY <2>1, ReadyFacts DEF FirstOf, Dispatchable
  <2>3. /\ Idle(sched, vcpu) /\ vcpu \in sched.threads[found.thread].affinity
    BY <2>1, <2>2 DEF Placement, PolicyConsistent
  <2>4. /\ found \in EligibleFor(sched, vcpu)
        /\ EligibleFor(sched, vcpu) \subseteq Dispatchable(sched)
    BY <2>2, <2>3 DEF EligibleFor, Dispatchable
  <2>5. found \in FirstOf(EligibleFor(sched, vcpu))
    BY <2>4 DEF FirstOf
  <2>6. ASSUME NEW other \in FirstOf(EligibleFor(sched, vcpu)), other # found
        PROVE  FALSE
    <3>1. KeyLess(other, found) /\ KeyLess(found, other)
      BY <2>4, <2>5, <2>6 DEF FirstOf
    <3>2. /\ found.priority \in Nat /\ found.sequence \in Nat
          /\ other.priority \in Nat /\ other.sequence \in Nat
      BY <2>1, <2>2, <2>6, ReadyFacts, PriorityAssumption
      DEF FirstOf, EligibleFor
    <3> QED BY <3>1, <3>2 DEF KeyLess
  <2> QED BY <2>3, <2>5, <2>6
<1> QED BY <1>1, SchedulerInvariant, PTL

(***************************************************************************)
(* Wake tokens and leases.  Two commands hand out a generation, a select   *)
(* and a pending register_wait; every other one leaves each token and each *)
(* lease as it is or ends it.                                              *)
(***************************************************************************)
\* No wake token or lease becomes valid: each place that holds one keeps it or
\* loses it, and no generation is handed out.
TokensKept(s, r) ==
  /\ r.next_wake_generation = s.next_wake_generation
  /\ r.next_lease_generation = s.next_lease_generation
  /\ \A id \in ThreadId :
       r.threads[id].active_wait \in {None, s.threads[id].active_wait}
  /\ \A v \in Vcpu : r.vcpus[v] \in {None, s.vcpus[v]}

\* Two such steps make a third.
LEMMA TokensKeptTransitive ==
  ASSUME NEW s, NEW r, NEW q, TokensKept(s, r), TokensKept(r, q)
  PROVE  TokensKept(s, q)
  BY DEF TokensKept

\* A thread that enters the queue keeps its wait.
LEMMA EnqueueKeepsTokens ==
  ASSUME NEW s \in SchedulerState, NEW id \in ThreadId
  PROVE  TokensKept(s, enqueue_existing_with_sequence(s, id))
  BY DEF TokensKept, enqueue_existing_with_sequence, SchedulerState, ScheduledThread

\* Commands that write one thread's entry and its queue key.
LEMMA ThreadCommandsKeepTokens ==
  ASSUME NEW s \in SchedulerState, NEW id \in ThreadId
  PROVE  /\ \A config \in Config : TokensKept(s, register(s, id, config))
         /\ TokensKept(s, unregister(s, id))
         /\ TokensKept(s, make_ready(s, id))
         /\ \A ideal, affinity : TokensKept(s, migrate(s, id, ideal, affinity))
         /\ \A paused \in BOOLEAN : TokensKept(s, set_activity(s, id, paused))
         /\ \A faulted \in BOOLEAN : TokensKept(s, terminate(s, id, faulted))
<1>1. \A config \in Config : TokensKept(s, register(s, id, config))
  BY DEF TokensKept, register, SchedulerState, NoThread
<1>2. TokensKept(s, unregister(s, id))
  BY DEF TokensKept, unregister, SchedulerState, NoThread
<1>3. TokensKept(s, make_ready(s, id))
  BY EnqueueKeepsTokens DEF make_ready
<1>4. \A ideal, affinity : TokensKept(s, migrate(s, id, ideal, affinity))
  BY DEF TokensKept, migrate, SchedulerState, ScheduledThread
<1>5. \A paused \in BOOLEAN : TokensKept(s, set_activity(s, id, paused))
  <2>1. TokensKept(s, set_activity(s, id, TRUE))
    BY DEF TokensKept, set_activity, SchedulerState, ScheduledThread
  <2>2. TokensKept(s, set_activity(s, id, FALSE))
    BY EnqueueKeepsTokens DEF set_activity
  <2> QED BY <2>1, <2>2
<1>6. \A faulted \in BOOLEAN : TokensKept(s, terminate(s, id, faulted))
  BY DEF TokensKept, terminate, SchedulerState, ScheduledThread
<1> QED BY <1>1, <1>2, <1>3, <1>4, <1>5, <1>6

\* Re-keying a thread.
LEMMA PriorityCommandsKeepTokens ==
  ASSUME NEW s, Consistent(s), NEW id \in ThreadId, NEW priority \in Priority,
         set_priority_ok(s, id, priority)
  PROVE  /\ TokensKept(s, set_effective_priority(s, id, priority))
         /\ TokensKept(s, set_priority(s, id, priority))
<1> DEFINE mid == set_effective_priority(s, id, priority)
<1>1. s \in SchedulerState /\ mid \in SchedulerState
  BY SetEffectivePriorityConsistent DEF Consistent, StructureConsistent
<1>2. TokensKept(s, mid)
  BY <1>1 DEF TokensKept, set_effective_priority, SchedulerState, ScheduledThread
<1> HIDE DEF mid
<1>3. TokensKept(mid, [mid EXCEPT !.threads[id].base_priority = priority])
  BY <1>1 DEF TokensKept, SchedulerState, ScheduledThread
<1> QED BY <1>2, <1>3, TokensKeptTransitive DEF set_priority, mid

\* A wake or a cancellation only ends the wait it names.
LEMMA FinishWaitKeepsTokens ==
  ASSUME NEW s \in SchedulerState, NEW token \in WakeToken
  PROVE  TokensKept(s, finish_wait(s, token))
<1> DEFINE mid == [s EXCEPT !.threads[token.thread].active_wait = None]
<1>1. token.thread \in ThreadId
  BY DEF WakeToken
<1>2. mid \in SchedulerState /\ TokensKept(s, mid)
  <2>0. s.threads[token.thread] \in ScheduledThread
    BY <1>1 DEF SchedulerState
  <2>1. [s.threads[token.thread] EXCEPT !.active_wait = None] \in ScheduledThread
    BY <2>0, Zenon DEF ScheduledThread
  <2>2. mid \in SchedulerState
    BY <1>1, <2>1, Zenon DEF SchedulerState
  <2>3. TokensKept(s, mid)
    BY <1>1 DEF TokensKept, SchedulerState, ScheduledThread
  <2> QED BY <2>2, <2>3
<1> HIDE DEF mid
<1>3. TokensKept(mid, enqueue_existing_with_sequence(mid, token.thread))
  BY <1>1, <1>2, EnqueueKeepsTokens
<1> QED BY <1>2, <1>3, TokensKeptTransitive DEF finish_wait, mid

\* A completion only ends the lease it names.
LEMMA CompleteKeepsTokens ==
  ASSUME NEW s, Consistent(s), NEW lease \in Lease, NEW outcome \in Completion,
         complete_ok(s, lease, outcome)
  PROVE  TokensKept(s, complete(s, lease, outcome))
<1> DEFINE id == lease.thread
           mid == Released(s, lease)
<1>1. id \in ThreadId /\ lease.vcpu \in Vcpu
  BY DEF Lease
<1>2. s \in SchedulerState /\ mid \in SchedulerState
  BY ReleasedStructure DEF Consistent, StructureConsistent, complete_ok
<1>3. TokensKept(s, mid)
  BY <1>1, <1>2 DEF TokensKept, Released, SchedulerState, ScheduledThread
<1>4. complete(s, lease, outcome)
        = IF outcome \in {"Ready", "Preempted"}
            THEN enqueue_existing_with_sequence(mid, id)
            ELSE [mid EXCEPT !.threads[id].lifecycle = outcome]
  BY Zenon DEF complete, Released
<1> HIDE DEF mid, id
<1>5. TokensKept(mid, enqueue_existing_with_sequence(mid, id))
  BY <1>1, <1>2, EnqueueKeepsTokens
<1>6. TokensKept(mid, [mid EXCEPT !.threads[id].lifecycle = outcome])
  BY <1>1, <1>2 DEF TokensKept, SchedulerState, ScheduledThread
<1> QED BY <1>3, <1>4, <1>5, <1>6, TokensKeptTransitive

\* What a step from s to r makes valid has a generation s never handed out.
TokensFresh(s, r) ==
  /\ r.next_wake_generation >= s.next_wake_generation
  /\ r.next_lease_generation >= s.next_lease_generation
  /\ \A id \in ThreadId :
       \/ r.threads[id].active_wait \in {None, s.threads[id].active_wait}
       \/ r.threads[id].active_wait.generation >= s.next_wake_generation
  /\ \A v \in Vcpu :
       \/ r.vcpus[v] \in {None, s.vcpus[v]}
       \/ r.vcpus[v].generation >= s.next_lease_generation

\* Nothing became valid, so nothing stale did.
LEMMA KeptIsFresh ==
  ASSUME NEW s \in SchedulerState, NEW r, TokensKept(s, r)
  PROVE  TokensFresh(s, r)
  BY DEF TokensKept, TokensFresh, SchedulerState, Counter

\* A pending wait takes the next wake generation.
LEMMA RegisterWaitIsFresh ==
  ASSUME NEW s \in SchedulerState, NEW id \in ThreadId,
         NEW readiness \in {"Ready", "Pending"}
  PROVE  TokensFresh(s, register_wait(s, id, readiness))
<1>1. CASE readiness = "Ready"
  BY <1>1, EnqueueKeepsTokens, KeptIsFresh DEF register_wait
<1>2. CASE readiness = "Pending"
  BY <1>2 DEF register_wait, NextToken, TokensFresh, SchedulerState,
              ScheduledThread, Counter
<1> QED BY <1>1, <1>2

\* A lease takes the next lease generation.
LEMMA SelectIsFresh ==
  ASSUME NEW s \in SchedulerState, KeysConsistent(s), NEW vcpu \in Vcpu,
         NEW key \in s.ready
  PROVE  TokensFresh(s, select(s, vcpu, key))
<1>1. key.thread \in ThreadId
  BY ReadyFacts
<1> QED BY <1>1 DEF select, TokensFresh, SchedulerState, ScheduledThread, Counter

\* A stale wake token or lease never becomes valid again: what a step makes
\* valid carries a generation no earlier step handed out.
THEOREM TokensSafety == Spec => TokensNeverResurrected
<1>1. SchedulerConsistent /\ SchedulerConsistent' /\ [Next]_sched
        => TokensFresh(sched, sched')
  <2> SUFFICES ASSUME Consistent(sched), [Next]_sched
               PROVE  TokensFresh(sched, sched')
    BY DEF SchedulerConsistent
  <2>0. sched \in SchedulerState /\ KeysConsistent(sched)
    BY DEF Consistent, StructureConsistent
  <2>1. CASE \E id \in ThreadId, config \in Config : Register(id, config)
    BY <2>0, <2>1, ThreadCommandsKeepTokens, KeptIsFresh DEF Register
  <2>2. CASE \E id \in ThreadId : Unregister(id)
    BY <2>0, <2>2, ThreadCommandsKeepTokens, KeptIsFresh DEF Unregister
  <2>3. CASE \E id \in ThreadId : MakeReady(id)
    BY <2>0, <2>3, ThreadCommandsKeepTokens, KeptIsFresh DEF MakeReady
  <2>4. ASSUME NEW vcpu, Select(vcpu), vcpu \in Vcpu
        PROVE  TokensFresh(sched, sched')
    BY <2>0, <2>4, SelectIsFresh DEF Select
  <2>5. CASE SelectNext
    <3>1. PICK found \in FirstOf(Dispatchable(sched)) :
            \E vcpu \in Placement(sched, found) : Select(vcpu)
      BY <2>5 DEF SelectNext
    <3>2. Placement(sched, found) \subseteq Vcpu
      BY <2>0, <3>1, PlacementType
    <3> QED BY <3>1, <3>2, <2>4
  <2>6. CASE \E lease \in Lease, outcome \in Completion : Complete(lease, outcome)
    BY <2>0, <2>6, CompleteKeepsTokens, KeptIsFresh DEF Complete
  <2>7. CASE \E id \in ThreadId, readiness \in {"Ready", "Pending"} :
               RegisterWait(id, readiness)
    BY <2>0, <2>7, RegisterWaitIsFresh DEF RegisterWait
  <2>8. CASE \E token \in WakeToken : FinishWait(token)
    BY <2>0, <2>8, FinishWaitKeepsTokens, KeptIsFresh DEF FinishWait
  <2>9. CASE \E id \in ThreadId, ideal \in Vcpu \cup {None}, affinity \in CoreSet :
               Migrate(id, ideal, affinity)
    BY <2>0, <2>9, ThreadCommandsKeepTokens, KeptIsFresh DEF Migrate
  <2>10. CASE \E id \in ThreadId, priority \in Priority : SetPriority(id, priority)
    BY <2>0, <2>10, PriorityCommandsKeepTokens, KeptIsFresh DEF SetPriority
  <2>11. CASE \E id \in ThreadId, priority \in Priority :
                SetEffectivePriority(id, priority)
    BY <2>0, <2>11, PriorityCommandsKeepTokens, KeptIsFresh
    DEF SetEffectivePriority
  <2>12. CASE \E id \in ThreadId, paused \in BOOLEAN : SetActivity(id, paused)
    BY <2>0, <2>12, ThreadCommandsKeepTokens, KeptIsFresh DEF SetActivity
  <2>13. CASE \E id \in ThreadId, faulted \in BOOLEAN : Terminate(id, faulted)
    BY <2>0, <2>13, ThreadCommandsKeepTokens, KeptIsFresh DEF Terminate
  <2>14. CASE UNCHANGED sched
    <3>1. TokensKept(sched, sched')
      BY <2>14 DEF TokensKept
    <3> QED BY <2>0, <3>1, KeptIsFresh
  <2> QED BY <2>1, <2>2, <2>3, <2>4, <2>5, <2>6, <2>7, <2>8, <2>9, <2>10, <2>11,
             <2>12, <2>13, <2>14 DEF Next
<1>2. SchedulerConsistent' /\ TokensFresh(sched, sched')
        => TokensStep
  BY DEF SchedulerConsistent, Consistent, StructureConsistent, GenerationsIssued,
         TokensFresh, TokensStep, ActiveWaits, ActiveLeases
<1> QED BY <1>1, <1>2, SchedulerInvariant, PTL DEF Spec, TokensNeverResurrected
=============================================================================
