---------------------------- MODULE EventDelivery ----------------------------
(***************************************************************************)
(* Where the events of PaneManager go (push_event, retain_event_log and    *)
(* drain_events of manager.rs): each is numbered within its pane, kept in  *)
(* the pane's retained log as far as the configuration allows, and put in  *)
(* one queue for all panes, which the host drains when it likes - also     *)
(* after it has removed the pane.                                          *)
(*                                                                         *)
(* PaneManager keeps a pane's whole history in event_log.  This module     *)
(* runs along with it: whatever a step of PaneManager appends there is     *)
(* what the step pushes, and is delivered in the same step.  Subscribers   *)
(* and the event sink are given each event as it is queued, so they see    *)
(* the same stream and are left out.                                       *)
(***************************************************************************)
EXTENDS PaneManager, SequencesExt

CONSTANTS
    Retentions    \* the event_log_retention policies to consider

\* A policy is the set of its limits.
Unlimited == {}
Disabled == {0}
Bounded(max_events) == {max_events}

ASSUME RetentionAssumption ==
    \A r \in Retentions : r \subseteq Nat /\ \A m, n \in r : m = n

VARIABLES
    retention,   \* event_log_retention
    logs,        \* id -> the events retained, and how many were dropped
    events,      \* the manager's queue of events not yet drained
    drained      \* history: all events the host has drained

delivery == <<retention, logs, events, drained>>

\* The events this step pushes for a pane, the last ones of a pane that it
\* removes included.
PushedFor(id) ==
    LET before == IF id \in Live THEN Len(panes[id].event_log) ELSE 0
        after  == IF id \in DOMAIN panes' THEN panes'[id].event_log
                  ELSE IF id \in Live THEN Last(removed').pane.event_log ELSE << >>
    IN  SubSeq(after, before + 1, Len(after))

Tagged(id, pushed) == [i \in DOMAIN pushed |-> [pane |-> id, event |-> pushed[i]]]
Pushed == FlattenSeq([id \in Ids |-> Tagged(id, PushedFor(id))])

-----------------------------------------------------------------------------
(* The retained log. *)

NewLog == [kept |-> << >>, dropped |-> 0]

\* Of the events of a log, those a policy leaves, and how many it drops.
Bound(log, limit) ==
    LET excess == IF Len(log.kept) > limit THEN Len(log.kept) - limit ELSE 0
    IN  [kept    |-> SubSeq(log.kept, excess + 1, Len(log.kept)),
         dropped |-> log.dropped + excess]

\* mutant: the limit is applied before the event is appended
RetainBeforeAppend(log, e) ==
    LET bounded == IF retention = Unlimited THEN log
                   ELSE Bound(log, CHOOSE n \in retention : TRUE)
    IN  [bounded EXCEPT !.kept = Append(@, e)]

RetainEventLog(log, e) ==
    LET appended == [log EXCEPT !.kept = Append(@, e)]
    IN  IF retention = Unlimited THEN appended
        ELSE Bound(appended, CHOOSE n \in retention : TRUE)

\* The events of a step, one after the other.
Retains(id) ==
    LET pushed == PushedFor(id)
        log[n \in 0 .. Len(pushed)] ==
            IF n = 0 THEN IF id \in Live THEN logs[id] ELSE NewLog
                     ELSE RetainEventLog(log[n - 1], pushed[n])
    IN  log[Len(pushed)]

-----------------------------------------------------------------------------
(* push_event and drain_events *)

\* mutant: the pane's undrained events go when it is removed
PushEventsForgetsRemoved ==
    /\ logs' = [id \in DOMAIN panes' |-> Retains(id)]
    /\ events' = SelectSeq(events, LAMBDA e : e.pane \in DOMAIN panes') \o Pushed
    /\ UNCHANGED <<retention, drained>>

PushEvents ==
    /\ logs' = [id \in DOMAIN panes' |-> Retains(id)]
    /\ events' = events \o Pushed
    /\ UNCHANGED <<retention, drained>>

\* The polls before are PollFrame steps.
DrainEvents ==
    /\ Idle
    /\ events # << >>
    /\ drained' = drained \o events
    /\ events' = << >>
    /\ UNCHANGED <<vars, retention, logs>>

DeliveryInit ==
    /\ Init
    /\ retention \in Retentions
    /\ logs = << >> /\ events = << >> /\ drained = << >>

DeliveryNext == (Next /\ PushEvents) \/ DrainEvents

DeliverySafe == DeliveryInit /\ [][DeliveryNext]_<<vars, delivery>>

-----------------------------------------------------------------------------
(* Properties. *)

\* The events of all panes there ever were under an id, one life after another.
PastLives(id) ==
    FlattenSeq([n \in DOMAIN removed |->
                  IF removed[n].id = id THEN removed[n].pane.event_log ELSE << >>])

LivedThrough(id) ==
    PastLives(id) \o IF id \in Live THEN panes[id].event_log ELSE << >>

\* One pane's events, of a sequence of events of all panes.
EventsOf(id, all) ==
    FlattenSeq([n \in DOMAIN all |->
                  IF all[n].pane = id THEN <<all[n].event>> ELSE << >>])

\* Whatever retention, removal and reuse of ids do, the host gets every event
\* of every pane, once and in the order of its pane; what it has not drained
\* when the pane is removed is still there to be drained.
StreamComplete ==
    \A id \in Ids : EventsOf(id, drained \o events) = LivedThrough(id)

\* A pane's retained log is the end of its history, no longer than the policy
\* allows, and the count of dropped events tells a reader of a repro dump
\* where in the history it begins.
RetainedLogExact ==
    \A id \in Live :
        LET history == panes[id].event_log  log == logs[id]
        IN  /\ log.kept = SubSeq(history, log.dropped + 1, Len(history))
            /\ log.dropped + Len(log.kept) = panes[id].next_seq
            /\ \A limit \in retention : Len(log.kept) <= limit
            /\ log.dropped > 0 => \A limit \in retention : Len(log.kept) = limit
            /\ log.dropped > 0 => retention # Unlimited
=============================================================================
