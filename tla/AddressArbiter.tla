--------------------------- MODULE AddressArbiter ---------------------------
(***************************************************************************)
(* Guest mutexes and condition variables: AddressWaitRegistry of a process *)
(* (crates/runtime, address_wait.rs) and the supervisor calls on it        *)
(* (crates/horizon, svc_dispatch/synchronization.rs).  The composition     *)
(* root routes one call at a time, so a call is one step.  A call that     *)
(* suspends its thread is made again when the event of its waiter record   *)
(* is signalled or its deadline passes (EventWait has that part).          *)
(*                                                                         *)
(* Guest threads lock a free mutex by an atomic exchange of their own, as  *)
(* guest libraries do, and unlock it by a call.  Addresses are mapped.     *)
(* The priority donations of a contended lock are in Coordinator.          *)
(***************************************************************************)
EXTENDS Naturals, Sequences, SequencesExt

CONSTANTS
  Thread,   \* the threads of the process, which are their own tags
  Mutex,    \* addresses of mutexes
  Key,      \* addresses of condition variables
  None      \* an unlocked mutex, no owner

Address == Mutex \cup Key

VARIABLES
  waiters,  \* AddressWaitRegistry::waiters: a queue for each address
  owners,   \* AddressWaitRegistry::owners
  word,     \* the word of each mutex in guest memory: the tag, or None
  flag,     \* the word of each key in guest memory
  guest,    \* the call each thread is suspended in, if any
  holds     \* what the guest knows: the threads that have locked each mutex

vars == <<waiters, owners, word, flag, guest, holds>>

Running == [pc |-> "running", mutex |-> None, key |-> None, timed |-> FALSE]
Exited == [Running EXCEPT !.pc = "exited"]

Init ==
  /\ waiters = [a \in Address |-> <<>>]
  /\ owners = [m \in Mutex |-> None]
  /\ word = [m \in Mutex |-> None]
  /\ flag = [k \in Key |-> 0]
  /\ guest = [t \in Thread |-> Running]
  /\ holds = [m \in Mutex |-> {}]

(***************************************************************************)
(* AddressWaitRegistry.                                                    *)
(***************************************************************************)
WaiterRecord(t) == [thread |-> t, signalled |-> FALSE]

position(q, t) == SelectInSeq(q, LAMBDA w : w.thread = t)
contains(a, t) == position(waiters[a], t) # 0

is_signalled(a, t) ==
  contains(a, t) /\ waiters[a][position(waiters[a], t)].signalled

enqueue(ws, a, t) == [ws EXCEPT ![a] = Append(@, WaiterRecord(t))]

remove(ws, a, t) == [ws EXCEPT ![a] = SelectSeq(@, LAMBDA w : w.thread # t)]

\* The first `count' waiters, the ones signalled already included.
signal(ws, a, count) ==
  [ws EXCEPT ![a] = [i \in DOMAIN @ |->
     IF i <= count THEN [@[i] EXCEPT !.signalled = TRUE] ELSE @[i]]]

\* Mutant: nobody is woken.
signal_none(ws, a) == ws

signal_one(ws, a) == signal(ws, a, 1)

\* A thread that ends is in no queue, and the next waiter of every mutex it
\* owned is woken.
release_thread(t) ==
  LET left == [a \in Address |-> SelectSeq(waiters[a], LAMBDA w : w.thread # t)]
  IN /\ waiters' = [a \in Address |->
          IF a \in Mutex /\ owners[a] = t THEN signal_one(left, a)[a] ELSE left[a]]
     /\ owners' = [m \in Mutex |-> IF owners[m] = t THEN None ELSE owners[m]]

(***************************************************************************)
(* Taking and giving back a mutex.                                         *)
(***************************************************************************)
Take(t, m) ==
  /\ word' = [word EXCEPT ![m] = t]
  /\ owners' = [owners EXCEPT ![m] = t]
  /\ holds' = [holds EXCEPT ![m] = @ \cup {t}]
  /\ guest' = [guest EXCEPT ![t] = Running]

GiveBack(t, m) ==
  /\ word' = [word EXCEPT ![m] = None]
  /\ owners' = [owners EXCEPT ![m] = None]
  /\ holds' = [holds EXCEPT ![m] = @ \ {t}]

\* The guest's own exchange, in user mode.
LockFree(t, m) ==
  /\ guest[t].pc = "running" /\ t \notin holds[m]
  /\ word[m] = None
  /\ word' = [word EXCEPT ![m] = t]
  /\ holds' = [holds EXCEPT ![m] = @ \cup {t}]
  /\ UNCHANGED <<waiters, owners, flag, guest>>

\* arbitrate_lock, called or made again.
arbitrate_lock(t, m) ==
  /\ \/ guest[t].pc = "running" /\ t \notin holds[m]
     \/ guest[t].pc = "locking" /\ guest[t].mutex = m /\ is_signalled(m, t)
  /\ \/ /\ is_signalled(m, t)
        /\ waiters' = remove(waiters, m, t)
        /\ Take(t, m)
     \/ /\ ~is_signalled(m, t) /\ word[m] = None
        /\ Take(t, m)
        /\ UNCHANGED waiters
     \/ /\ ~is_signalled(m, t) /\ word[m] # None
        /\ waiters' = IF contains(m, t) THEN waiters ELSE enqueue(waiters, m, t)
        /\ guest' = [guest EXCEPT ![t] =
             [Running EXCEPT !.pc = "locking", !.mutex = m]]
        /\ UNCHANGED <<owners, word, holds>>
  /\ UNCHANGED flag

arbitrate_unlock(t, m) ==
  /\ guest[t].pc = "running" /\ t \in holds[m]
  /\ GiveBack(t, m)
  /\ waiters' = signal_one(waiters, m)
  /\ UNCHANGED <<flag, guest>>

(***************************************************************************)
(* Condition variables.                                                    *)
(***************************************************************************)
\* wait_process_wide_key_atomic, the first time: the mutex is given back and
\* the thread queued, in one step; with a zero timeout that is all.
WaitFirst(t, m, k, timeout) ==
  LET given == signal_one(waiters, m)
      suspended == [pc |-> "waiting", mutex |-> m, key |-> k,
                    timed |-> timeout = "finite"]
  IN /\ guest[t].pc = "running" /\ t \in holds[m]
     /\ GiveBack(t, m)
     /\ flag' = [flag EXCEPT ![k] = 1]
     /\ IF timeout = "zero"
          THEN waiters' = given /\ UNCHANGED guest
          ELSE /\ waiters' = enqueue(given, k, t)
               /\ guest' = [guest EXCEPT ![t] = suspended]

\* Mutant: a deadline that has passed is looked at before the signal.
WaitAgainExpiringFirst(t) ==
  LET m == guest[t].mutex
      k == guest[t].key
  IN /\ guest[t].pc = "waiting"
     /\ waiters' = remove(waiters, k, t)
     /\ UNCHANGED flag
     /\ \/ is_signalled(k, t) /\ ~guest[t].timed /\ Take(t, m)
        \/ /\ guest[t].timed
           /\ guest' = [guest EXCEPT ![t] = Running]
           /\ UNCHANGED <<owners, word, holds>>

\* The call made again: signalled, and the mutex is taken, or timed out.
WaitAgain(t) ==
  LET m == guest[t].mutex
      k == guest[t].key
  IN /\ guest[t].pc = "waiting"
     /\ waiters' = remove(waiters, k, t)
     /\ UNCHANGED flag
     /\ \/ is_signalled(k, t) /\ Take(t, m)
        \/ /\ ~is_signalled(k, t) /\ guest[t].timed
           /\ guest' = [guest EXCEPT ![t] = Running]
           /\ UNCHANGED <<owners, word, holds>>

signal_process_wide_key(t, k, count) ==
  /\ guest[t].pc = "running"
  /\ waiters' = signal(waiters, k, IF count <= 0 THEN Len(waiters[k]) ELSE count)
  /\ flag' = [flag EXCEPT ![k] = 0]
  /\ UNCHANGED <<owners, word, guest, holds>>

\* The thread exits or faults.  The words of its mutexes stay as they are.
Exit(t) ==
  /\ guest[t].pc = "running"
  /\ release_thread(t)
  /\ guest' = [guest EXCEPT ![t] = Exited]
  /\ holds' = [m \in Mutex |-> holds[m] \ {t}]
  /\ UNCHANGED <<word, flag>>

Next ==
  \E t \in Thread :
    \/ \E m \in Mutex :
         \/ LockFree(t, m)
         \/ arbitrate_lock(t, m)
         \/ arbitrate_unlock(t, m)
         \/ \E k \in Key, timeout \in {"zero", "finite", "infinite"} :
              WaitFirst(t, m, k, timeout)
    \/ WaitAgain(t)
    \/ \E k \in Key, count \in {0, 1} : signal_process_wide_key(t, k, count)
    \/ Exit(t)

Spec == Init /\ [][Next]_vars

(***************************************************************************)
(* Properties.                                                             *)
(***************************************************************************)
\* The addresses a thread is suspended on: one, or none.
WaitsOn(t) ==
  CASE guest[t].pc = "locking" -> {guest[t].mutex}
    [] guest[t].pc = "waiting" -> {guest[t].key}
    [] OTHER -> {}

TypeOK ==
  /\ \A m \in Mutex : /\ word[m] \in Thread \cup {None}
                      /\ owners[m] \in Thread \cup {None}
                      /\ holds[m] \subseteq Thread
  /\ \A k \in Key : flag[k] \in {0, 1}

\* A thread has one waiter record, at the address of the call it is suspended
\* in, and none when it runs or is gone: a later call never finds the record of
\* an earlier one, with a signal that was not meant for it.
RecordsMatchSuspensions ==
  \A a \in Address, t \in Thread :
    Len(SelectSeq(waiters[a], LAMBDA w : w.thread = t))
      = IF a \in WaitsOn(t) THEN 1 ELSE 0

\* No wake-up of a mutex is lost: when the mutex is free, the first thread that
\* waits for it has been signalled.
FreeMutexWakesFirst ==
  \A m \in Mutex :
    word[m] = None /\ waiters[m] # <<>> => Head(waiters[m]).signalled

\* Nor when its owner ends without unlocking it: a mutex that is recorded as
\* owned has a live owner, which will hand it over.
OwnersAreAlive ==
  \A m \in Mutex : owners[m] # None => guest[owners[m]].pc # "exited"

\* Waiter records, mutex words and ownership records tell the same story.
ArbiterConsistent ==
  TypeOK /\ RecordsMatchSuspensions /\ FreeMutexWakesFirst /\ OwnersAreAlive

\* A wait for a key that is signalled before its thread runs again ends with
\* the mutex, even when its deadline has passed in between.
SignalBeatsTimeout ==
  [][\A t \in Thread :
       guest[t].pc = "waiting" /\ is_signalled(guest[t].key, t) /\ guest'[t] # guest[t]
         => t \in holds'[guest[t].mutex]]_vars

\* A mutex has at most one owner, the one its ownership record names.
MutexOwnedOnce ==
  \A m \in Mutex :
    /\ \A t, u \in holds[m] : t = u
    /\ owners[m] # None => holds[m] = {owners[m]}
=============================================================================
