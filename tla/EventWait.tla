----------------------------- MODULE EventWait ------------------------------
(***************************************************************************)
(* How a guest thread that waits for events is woken by host threads.      *)
(*                                                                         *)
(* The coordinator registers a wait (register_event_wait): for each event  *)
(* it installs an observer, all of one ExternalWaitGroup.  Host threads    *)
(* signal events; the first observer that runs wins the group and          *)
(* publishes a Wake to a bounded inbox, which the coordinator drains.  A   *)
(* wait also ends by a deadline or a cancellation, and then its observers  *)
(* are withdrawn while signals may be running.                             *)
(*                                                                         *)
(* The steps are the ones other host threads can observe: an atomic access *)
(* or a critical section each.  A token stands for one wait, of any guest  *)
(* thread; Scheduler shows that tokens are never used twice.               *)
(***************************************************************************)
EXTENDS Naturals, Sequences, SequencesExt, FiniteSets

CONSTANTS
  Event,      \* the kernel events
  Token,      \* the waits
  Signaller,  \* host threads that signal events
  Capacity,   \* of the inbox
  None

ASSUME CapacityAssumption == Capacity \in Nat \ {0}
ASSUME NoneAssumption == None \notin Event /\ None \notin Token

VARIABLES
  signalled,   \* EventState::signalled of each event
  watchers,    \* EventGeneration::watchers of each event, in order of their ids
  groups,      \* the keys of wait_groups
  won,         \* ExternalWaitGroup::won of each group
  registered,  \* ExternalWaitGroup::registrations: the events of each group
  inbox,       \* the Wakes sent and not received
  overflowed,  \* the flag that reports a Wake the inbox had no room for
  active,      \* the waits the scheduler still has
  unused,      \* the waits not registered yet
  signaller,   \* where each signalling thread is
  coord,       \* where the coordinator is
  failed       \* drain_external_events has returned Err(Full)

group == <<groups, won, registered>>
ingress == <<inbox, overflowed>>
vars == <<signalled, watchers, group, ingress, active, unused, signaller, coord,
          failed>>

\* A host thread inside signal(): it has stored `signalled', or is calling the
\* observers it took, or is inside the observer of `token'.
SignallerState ==
  [pc : {"idle", "stored", "calling", "publishing", "overflowing"},
   event : Event \cup {None},
   taken : Seq(Token),
   token : Token \cup {None}]

\* The coordinator inside register_event_wait (with the events not yet watched,
\* and the one whose registration is not yet in the group), or withdrawing the
\* observers of a wait that ends.
CoordState ==
  [pc : {"idle", "watching", "calling", "publishing", "overflowing", "adding",
         "ending"},
   token : Token \cup {None},
   rest : SUBSET Event,
   event : Event \cup {None}]

IdleSignaller == [pc |-> "idle", event |-> None, taken |-> <<>>, token |-> None]
IdleCoord == [pc |-> "idle", token |-> None, rest |-> {}, event |-> None]

Init ==
  /\ signalled \in [Event -> BOOLEAN]
  /\ watchers = [e \in Event |-> <<>>]
  /\ groups = {}
  /\ won = [t \in Token |-> FALSE]
  /\ registered = [t \in Token |-> {}]
  /\ inbox = <<>>
  /\ overflowed = FALSE
  /\ active = {}
  /\ unused = Token
  /\ signaller = [s \in Signaller |-> IdleSignaller]
  /\ coord = IdleCoord
  /\ failed = FALSE

Without(seq, t) == SelectSeq(seq, LAMBDA x : x # t)

-----------------------------------------------------------------------------
(***************************************************************************)
(* Events.  An observer is a Wake for its token; it runs in three steps,   *)
(* in the thread of a signaller or, when the event is already signalled,   *)
(* in the coordinator's own.                                               *)
(***************************************************************************)
Clear(e) ==
  /\ signalled' = [signalled EXCEPT ![e] = FALSE]
  /\ UNCHANGED <<watchers, group, ingress, active, unused, signaller, coord,
                 failed>>

SignalStore(s, e) ==
  /\ signaller[s].pc = "idle"
  /\ signalled' = [signalled EXCEPT ![e] = TRUE]
  /\ signaller' = [signaller EXCEPT ![s].pc = "stored", ![s].event = e]
  /\ UNCHANGED <<watchers, group, ingress, active, unused, coord, failed>>

\* The critical section of signal(): the observers are taken out.
SignalTake(s) ==
  /\ signaller[s].pc = "stored"
  /\ signaller' = [signaller EXCEPT ![s].pc = "calling",
                                    ![s].taken = watchers[signaller[s].event]]
  /\ watchers' = [watchers EXCEPT ![signaller[s].event] = <<>>]
  /\ UNCHANGED <<signalled, group, ingress, active, unused, coord, failed>>

SignalReturn(s) ==
  /\ signaller[s].pc = "calling" /\ signaller[s].taken = <<>>
  /\ signaller' = [signaller EXCEPT ![s] = IdleSignaller]
  /\ UNCHANGED <<signalled, watchers, group, ingress, active, unused, coord,
                 failed>>

\* won.swap(true): only the first observer of a group goes on.
SignalSwap(s) ==
  /\ signaller[s].pc = "calling" /\ signaller[s].taken # <<>>
  /\ LET t == Head(signaller[s].taken)
         called == [signaller EXCEPT ![s].taken = Tail(@)]
     IN /\ won' = [won EXCEPT ![t] = TRUE]
        /\ signaller' = IF won[t]
                          THEN called
                          ELSE [called EXCEPT ![s].pc = "publishing",
                                              ![s].token = t]
  /\ UNCHANGED <<signalled, watchers, groups, registered, ingress, active,
                 unused, coord, failed>>

\* The publication lock is held until the overflow is stored.
PublicationFree ==
  /\ \A s \in Signaller : signaller[s].pc # "overflowing"
  /\ coord.pc # "overflowing"

HasRoom == Len(inbox) < Capacity

publish(t) == inbox' = IF HasRoom THEN Append(inbox, t) ELSE inbox

SignalPublish(s) ==
  /\ signaller[s].pc = "publishing"
  /\ PublicationFree
  /\ publish(signaller[s].token)
  /\ signaller' = [signaller EXCEPT
                     ![s].pc = IF HasRoom THEN "calling" ELSE "overflowing",
                     ![s].token = None]
  /\ UNCHANGED <<signalled, watchers, group, overflowed, active, unused, coord,
                 failed>>

SignalOverflow(s) ==
  /\ signaller[s].pc = "overflowing"
  /\ overflowed' = TRUE
  /\ signaller' = [signaller EXCEPT ![s].pc = "calling"]
  /\ UNCHANGED <<signalled, watchers, group, inbox, active, unused, coord,
                 failed>>

-----------------------------------------------------------------------------
(***************************************************************************)
(* The coordinator registers a wait.                                       *)
(***************************************************************************)
RegisterEventWait(t, events) ==
  /\ coord.pc = "idle" /\ ~failed
  /\ t \in unused
  /\ active' = active \cup {t}
  /\ unused' = unused \ {t}
  /\ coord' = [pc |-> "watching", token |-> t, rest |-> events, event |-> None]
  /\ UNCHANGED <<signalled, watchers, group, ingress, signaller, failed>>

\* Mutant: whether the event is signalled is not looked at under the lock.
watch_without_check(e) ==
  /\ coord.pc = "watching" /\ e \in coord.rest
  /\ groups' = groups \cup {coord.token}
  /\ watchers' = [watchers EXCEPT ![e] = Append(@, coord.token)]
  /\ coord' = [coord EXCEPT !.event = e, !.rest = @ \ {e}, !.pc = "adding"]

\* The group is looked up, and the critical section of EventObject::watch: an
\* event that is already signalled gets no observer, it is notified at once.
watch(e) ==
  /\ coord.pc = "watching" /\ e \in coord.rest
  /\ groups' = groups \cup {coord.token}
  /\ watchers' = IF signalled[e]
                   THEN watchers
                   ELSE [watchers EXCEPT ![e] = Append(@, coord.token)]
  /\ coord' = [coord EXCEPT !.event = e, !.rest = @ \ {e},
                            !.pc = IF signalled[e] THEN "calling" ELSE "adding"]

Watch(e) ==
  /\ watch(e)
  /\ UNCHANGED <<signalled, won, registered, ingress, active, unused, signaller,
                 failed>>

CoordSwap ==
  /\ coord.pc = "calling"
  /\ won' = [won EXCEPT ![coord.token] = TRUE]
  /\ coord' = [coord EXCEPT
                 !.pc = IF won[coord.token] THEN "adding" ELSE "publishing"]
  /\ UNCHANGED <<signalled, watchers, groups, registered, ingress, active,
                 unused, signaller, failed>>

CoordPublish ==
  /\ coord.pc = "publishing"
  /\ PublicationFree
  /\ publish(coord.token)
  /\ coord' = [coord EXCEPT !.pc = IF HasRoom THEN "adding" ELSE "overflowing"]
  /\ UNCHANGED <<signalled, watchers, group, overflowed, active, unused,
                 signaller, failed>>

CoordOverflow ==
  /\ coord.pc = "overflowing"
  /\ overflowed' = TRUE
  /\ coord' = [coord EXCEPT !.pc = "adding"]
  /\ UNCHANGED <<signalled, watchers, group, inbox, active, unused, signaller,
                 failed>>

\* ExternalWaitGroup::add: a registration that comes after the group has won is
\* dropped, which removes its observer.
add ==
  IF won[coord.token]
    THEN /\ watchers' = [watchers EXCEPT
                           ![coord.event] = Without(@, coord.token)]
         /\ UNCHANGED registered
    ELSE /\ registered' = [registered EXCEPT ![coord.token] = @ \cup {coord.event}]
         /\ UNCHANGED watchers

Add ==
  /\ coord.pc = "adding"
  /\ add
  /\ coord' = IF coord.rest = {}
                THEN IdleCoord
                ELSE [coord EXCEPT !.pc = "watching", !.event = None]
  /\ UNCHANGED <<signalled, groups, won, ingress, active, unused, signaller,
                 failed>>

-----------------------------------------------------------------------------
(***************************************************************************)
(* A wait ends: its Wake is received, its deadline passes, or it is        *)
(* cancelled.  apply_wake withdraws the observers (cancel_watchers) before *)
(* it asks the scheduler, which ignores the Wake of a wait that has ended. *)
(***************************************************************************)
\* The group leaves the table, and is marked as won before its registrations
\* are dropped one by one.
cancel(t) ==
  /\ groups' = groups \ {t}
  /\ won' = IF t \in groups THEN [won EXCEPT ![t] = TRUE] ELSE won
  /\ registered' = [registered EXCEPT ![t] = {}]
  /\ coord' = [IdleCoord EXCEPT !.pc = "ending", !.token = t,
                                !.rest = registered[t]]

DropRegistration(e) ==
  /\ coord.pc = "ending" /\ e \in coord.rest
  /\ watchers' = [watchers EXCEPT ![e] = Without(@, coord.token)]
  /\ coord' = [coord EXCEPT !.rest = @ \ {e}]
  /\ UNCHANGED <<signalled, group, ingress, active, unused, signaller, failed>>

EndWait ==
  /\ coord.pc = "ending" /\ coord.rest = {}
  /\ active' = active \ {coord.token}
  /\ coord' = IdleCoord
  /\ UNCHANGED <<signalled, watchers, group, ingress, unused, signaller, failed>>

\* A deadline or a cancellation.
Expire(t) ==
  /\ coord.pc = "idle" /\ ~failed
  /\ t \in active
  /\ cancel(t)
  /\ UNCHANGED <<signalled, watchers, ingress, active, unused, signaller, failed>>

receive ==
  /\ inbox # <<>>
  /\ cancel(Head(inbox))
  /\ inbox' = Tail(inbox)

\* Mutant: the overflow is forgotten instead of reported.
try_recv_ignoring_overflow ==
  \/ /\ overflowed
     /\ overflowed' = FALSE
     /\ UNCHANGED <<inbox, group, coord, failed>>
  \/ /\ ~overflowed
     /\ receive
     /\ UNCHANGED <<overflowed, failed>>

\* try_recv_sequenced, as drain_external_events calls it: an overflow is
\* reported before anything is received, and ends the composition root's loop.
try_recv ==
  \/ /\ overflowed
     /\ overflowed' = FALSE
     /\ failed' = TRUE
     /\ UNCHANGED <<inbox, group, coord>>
  \/ /\ ~overflowed
     /\ receive
     /\ UNCHANGED <<overflowed, failed>>

Drain ==
  /\ coord.pc = "idle" /\ ~failed
  /\ try_recv
  /\ UNCHANGED <<signalled, watchers, active, unused, signaller>>

\* wait_for_external_event_for receives without looking at the overflow.
WaitForExternalEvent ==
  /\ coord.pc = "idle" /\ ~failed
  /\ receive
  /\ UNCHANGED <<signalled, watchers, overflowed, active, unused, signaller,
                 failed>>

-----------------------------------------------------------------------------
SignallerStep(s) ==
  \/ SignalTake(s)
  \/ SignalReturn(s)
  \/ SignalSwap(s)
  \/ SignalPublish(s)
  \/ SignalOverflow(s)

CoordStep ==
  \/ \E e \in Event : Watch(e) \/ DropRegistration(e)
  \/ CoordSwap
  \/ CoordPublish
  \/ CoordOverflow
  \/ Add
  \/ EndWait

Next ==
  \/ \E e \in Event : Clear(e)
  \/ \E s \in Signaller, e \in Event : SignalStore(s, e)
  \/ \E s \in Signaller : SignallerStep(s)
  \/ \E t \in Token, events \in (SUBSET Event) \ {{}} : RegisterEventWait(t, events)
  \/ CoordStep
  \/ \E t \in Token : Expire(t)
  \/ Drain
  \/ WaitForExternalEvent

\* A host thread that entered signal() leaves it, the coordinator finishes what
\* it began, and the composition root drains the inbox in every turn of its loop
\* (strongly fair: other operations come between two drains).
Fairness ==
  /\ \A s \in Signaller : WF_vars(SignallerStep(s))
  /\ WF_vars(CoordStep)
  /\ SF_vars(Drain)

Spec == Init /\ [][Next]_vars /\ Fairness

-----------------------------------------------------------------------------
TypeOK ==
  /\ signalled \in [Event -> BOOLEAN]
  /\ \A e \in Event : watchers[e] \in Seq(Token)
  /\ groups \subseteq Token
  /\ won \in [Token -> BOOLEAN]
  /\ registered \in [Token -> SUBSET Event]
  /\ inbox \in Seq(Token) /\ Len(inbox) <= Capacity
  /\ overflowed \in BOOLEAN /\ failed \in BOOLEAN
  /\ active \subseteq Token /\ unused \subseteq Token
  /\ \A s \in Signaller : signaller[s] \in SignallerState
  /\ coord \in CoordState

Publishing(t) ==
  \/ \E s \in Signaller : signaller[s].pc = "publishing" /\ signaller[s].token = t
  \/ coord.pc = "publishing" /\ coord.token = t

Overflowing == ~PublicationFree

\* No observer is stranded on an event that is signalled: one that is still
\* installed will be taken by a signal() that has stored the flag and not yet
\* entered its critical section.  watch() and signal() look at the flag and the
\* observers in opposite orders to ensure this, while clear() takes no lock.
NoStrandedObserver ==
  \A e \in Event :
    signalled[e] /\ watchers[e] # <<>> =>
      \E s \in Signaller : signaller[s].pc = "stored" /\ signaller[s].event = e

\* A wait is woken at most once, however many of its events are signalled and
\* by however many threads: its Wake is in the inbox, or about to be, at most
\* once (won.swap in the observer).
AtMostOneWake ==
  \A t \in Token :
    Cardinality({i \in 1..Len(inbox) : inbox[i] = t})
      + Cardinality({s \in Signaller : signaller[s].pc = "publishing"
                                         /\ signaller[s].token = t})
      + (IF coord.pc = "publishing" /\ coord.token = t THEN 1 ELSE 0) <= 1

\* A wait that was won and has not ended still has its Wake on the way, or the
\* loss of a Wake is on record: in the flag, or in the error drain_external_events
\* returned.  The bounded inbox never loses a wake silently.
NoSilentLoss ==
  \A t \in active :
    won[t] /\ ~(coord.pc = "ending" /\ coord.token = t) =>
      \/ \E i \in 1..Len(inbox) : inbox[i] = t
      \/ Publishing(t)
      \/ Overflowing \/ overflowed \/ failed

\* Ending a wait withdraws all it left behind: between operations of the
\* coordinator every group and every observer belongs to a wait the scheduler
\* still has.
NothingLeftBehind ==
  coord.pc = "idle" =>
    /\ groups \subseteq active
    /\ \A t \in Token : registered[t] # {} => t \in groups
    /\ \A e \in Event : \A i \in 1..Len(watchers[e]) : watchers[e][i] \in active

\* What the ingress keeps at every step of signallers and coordinator: no
\* observer is stranded, no wake is doubled or silently lost, and an ended
\* wait leaves nothing behind.
EventsConsistent ==
  TypeOK /\ NoStrandedObserver /\ AtMostOneWake /\ NoSilentLoss /\ NothingLeftBehind

\* A wait won by one of its events ends: its thread is woken, unless the
\* composition root was told that wakes were lost.
WonWaitEnds ==
  \A t \in Token : (t \in active /\ won[t]) ~> (t \notin active \/ failed)
=============================================================================
