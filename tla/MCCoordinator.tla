---------------------------- MODULE MCCoordinator ----------------------------
(***************************************************************************)
(* Coordinator for TLC.  Counters and virtual time grow without bound, but *)
(* only their order matters to any guard or property: the view replaces    *)
(* them by ranks, and the state space is finite without a bound on them.   *)
(***************************************************************************)
EXTENDS Coordinator

Rank(S, x) == Cardinality({y \in S : y < x})

Tokens ==
  inbox \cup coord.groups \cup {d.token : d \in coord.deadlines}
    \cup ({ActiveWait(coord, t) : t \in ThreadId} \ {None})

Generations == {token.generation : token \in Tokens}

TokenView(token) ==
  IF token = None
    THEN None
    ELSE <<token.thread, Rank(Generations, token.generation)>>

KeyView(key) ==
  IF key = None
    THEN None
    ELSE Rank({k.sequence : k \in coord.scheduler.ready}, key.sequence)

ThreadView(t) ==
  LET thread == coord.scheduler.threads[t]
  IN [thread EXCEPT !.ready_key = KeyView(@),
                    !.active_lease = @ # None,
                    !.active_wait = TokenView(@)]

DeadlineView(d) ==
  <<d.time - coord.now,
    Rank({e.sequence : e \in coord.deadlines}, d.sequence),
    TokenView(d.token)>>

View ==
  <<[t \in ThreadId |-> ThreadView(t)],
    coord.processes, coord.next_process_id, coord.next_thread_id,
    coord.cpu_waits, coord.event, coord.interrupt,
    {DeadlineView(d) : d \in coord.deadlines},
    {TokenView(token) : token \in coord.groups},
    coord.priority_donations, coord.host_stop_requested,
    [i \in DOMAIN wave |-> <<wave[i].thread, wave[i].vcpu>>],
    failed, executions, {TokenView(token) : token \in inbox}, stop_sent, root>>
==============================================================================
