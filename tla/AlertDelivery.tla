----------------------------- MODULE AlertDelivery -----------------------------
(***************************************************************************)
(* From a row in the tables to a message on the channel: the alert engine  *)
(* and the notification queue in the daemon's medium poll                  *)
(* (modules/daemon/scheduler.py, _task_medium_poll), which evaluates the   *)
(* rules, queues the new alerts and then processes the queue, one after    *)
(* the other in one thread.  The panel may evaluate the rules in between,  *)
(* and queues nothing.  One channel is enabled.                            *)
(***************************************************************************)
EXTENDS NotificationQueue, Sequences

CONSTANTS
    Rules, Evaluator, PerSubject, Standing, Limited, Limit, Threshold, Window, Dedup, Subject,
    Runner, Period, Slack, MaxClock, MaxFacts, MaxDelay, MaxIncidents

VARIABLES
    now, facts, alerts, queued, due, rule, known, found, got, calls, \* of the engine
    at,     \* where each runner stands in run_rules
    failed, \* the engine's failures
    part,   \* of the poll, the daemon is in or comes to next: "rules" or "queue"
    about,  \* alert_id of each row of the queue, 0 for no row
    crowded \* observer: rows that had MaxItems others before them when the daemon
            \* took its batch

Engine == INSTANCE AlertEngine WITH pc <- at, faults <- failed

\* TLC does not evaluate the assumptions of an instance.
ASSUME DeliveryAssumption == Engine!EngineAssumption /\ Engine!FewSubjects

engineVars   ==
    <<now, facts, alerts, queued, due, at, rule, known, found, got, calls, failed>>
deliveryVars == <<vars, engineVars, part, about, crowded>>

DeliveryInit ==
    /\ Init
    /\ Engine!Init
    /\ part = "rules"
    /\ about = [i \in Id |-> 0]
    /\ crowded = {}

\* The poll lasts at most Slack, the queue included.
Tick ==
    /\ Engine!Tick
    /\ part = "queue" => now + Period < due + Slack
    /\ UNCHANGED <<vars, part, about, crowded>>

\* the tables change, and the panel evaluates rules, whatever the daemon does
Elsewhere ==
    /\ \/ Engine!Record \/ Engine!Withdraw
       \/ \E p \in Runner \ {Daemon} : \/ Engine!Begin(p) \/ Engine!Evaluate(p)
                                       \/ Engine!Kill(p)
    /\ UNCHANGED <<vars, part, about, crowded>>

\* the first half of the poll
RunRules ==
    /\ part = "rules"
    /\ Engine!Begin(Daemon) \/ Engine!Evaluate(Daemon) \/ Engine!Kill(Daemon)
    /\ UNCHANGED <<vars, part, about, crowded>>

\* Mutant: the alert fetched for queue_alert is the newest.
FetchedNewest(id) == Len(alerts)

\* SELECT * FROM alerts WHERE id = ...
Fetched(id) == id

\* a new alert is queued, or skipped; behind the last one the queue is processed
QueueAlerts ==
    /\ part = "rules"
    /\ Engine!QueueNext
    /\ IF queued' = queued THEN UNCHANGED <<vars, about>>
       ELSE /\ QueueAlert
            /\ about' = [i \in Id |-> IF queue'[i] = queue[i] THEN about[i]
                                      ELSE Fetched(CHOOSE a \in queued' \ queued : TRUE)]
    /\ part' = IF at'[Daemon] = "idle" THEN "queue" ELSE part
    /\ UNCHANGED crowded

Waiting == {i \in Id : queue[i].status = "pending"}

Overfull == {i \in Waiting : Cardinality({j \in Waiting : j < i}) >= MaxItems}

\* the second half of the poll, which ends with process_queue
ProcessQueue ==
    /\ part = "queue"
    /\ \/ SelectPending(Daemon) /\ crowded' = crowded \cup Overfull
       \/ Work(Daemon) /\ UNCHANGED crowded
    /\ part' = IF pc'[Daemon] = "idle" THEN "rules" ELSE part
    /\ UNCHANGED <<engineVars, about>>

\* the daemon is killed in process_queue and started again, when all polls are
\* due; or an UPDATE fails, and the next poll comes in its time
AbortQueue ==
    /\ Abort(Daemon)
    /\ part' = "rules"
    /\ due' \in {due, now}
    /\ UNCHANGED <<now, facts, alerts, queued, at, rule, known, found, got, calls, failed,
                   about, crowded>>

DeliveryNext ==
    Tick \/ Elsewhere \/ RunRules \/ QueueAlerts \/ ProcessQueue \/ AbortQueue

DeliverySpec == DeliveryInit /\ [][DeliveryNext]_deliveryVars

-----------------------------------------------------------------------------
(* Properties                                                              *)

\* Nobody is told twice of an alert, from the evaluation of its rule to the
\* channel and through kills of the daemon at any point of the poll: an alert
\* has one row, which is delivered once, and it is an alert the daemon raised.
ToldOnce ==
    \A i \in Id :
        about[i] # 0 =>
            /\ about[i] \in DOMAIN alerts
            /\ alerts[about[i]].by = Daemon
            /\ delivered[i] <= 1
            /\ \A j \in Id : about[j] = about[i] => j = i

\* What is noticed in time is also told in time: while nothing fails, an alert of
\* the rule has been handed to the channel by the end of the poll that comes next,
\* or within the dedup window before the row; it may wait longer for two reasons
\* only.  MaxItems notifications were still pending before it when the daemon took
\* its batch; or the panel evaluated the rule first, whose alert silences the
\* daemon's and is queued by nobody.
ToldInTime ==
    \A f \in facts :
        (failed = 0 /\ faults = 0 /\ Engine!Suffices(f) /\ now > Engine!Deadline(f)) =>
            \E a \in DOMAIN alerts :
                /\ alerts[a].rule = f.rule
                /\ alerts[a].at + Dedup[f.rule] >= f.stored
                /\ \/ alerts[a].by # Daemon
                   \/ \E i \in Id : about[i] = a /\ (queue[i].attempts > 0 \/ i \in crowded)
=============================================================================
