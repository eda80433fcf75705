------------------------------ MODULE AlertEngine ------------------------------
(***************************************************************************)
(* The alert engine (modules/alerts/engine.py) and the two places that run *)
(* it: the daemon's medium poll (scheduler.py, _task_medium_poll), which   *)
(* queues a notification for each new alert, and the panel                 *)
(* (sec_mon_main.py, api_alert_run), which does not.                       *)
(*                                                                         *)
(* Rules are numbered in the order in which EVALUATORS reaches them.  A    *)
(* fact is a row a rule looks for: a failed login, a ban, a certificate    *)
(* about to expire, a service that is down; its subject is the address,    *)
(* domain or service.  Every SQL statement is a step of its own, and the   *)
(* clock may tick between any two.                                         *)
(***************************************************************************)
EXTENDS Naturals, Sequences, FiniteSets

CONSTANTS
    Rules,      \* how many rules are enabled
    Evaluator,  \* [rule -> function of EVALUATORS]: ssl_expiring_7d and _30d share one
    PerSubject, \* rules that count and report by subject (brute_force, ssl, service_down)
    Standing,   \* rules about a present state and not about rows of a time window
    Limited,    \* rules whose query has a LIMIT (brute_force)
    Limit,      \* that LIMIT: 5
    Threshold,  \* [rule -> rows needed]
    Window,     \* [rule -> age of the rows counted], in ticks
    Dedup,      \* [rule -> window_minutes given to _check_recent_alert], in ticks
    Subject,
    Runner,     \* the processes that call run_rules
    Daemon,
    Period,     \* medium_interval, in ticks
    Slack,      \* bound: lateness of a poll, and duration of one
    MaxClock,   \* bound: ticks
    MaxFacts,   \* bound: facts held at once
    MaxDelay,   \* bound: age of a row when it is stored
    MaxIncidents \* bound: calls of the panel, failed statements and kills

Rule == 1..Rules

ASSUME EngineAssumption ==
    /\ Rules \in Nat \ {0}
    /\ PerSubject \subseteq Rule /\ Standing \subseteq Rule
    /\ Limited \subseteq Rule /\ Limit \in Nat \ {0}
    /\ Evaluator \in [Rule -> Nat]
    /\ Threshold \in [Rule -> Nat \ {0}]
    /\ Window \in [Rule -> Nat] /\ Dedup \in [Rule -> Nat]
    /\ Daemon \in Runner
    /\ Period \in Nat \ {0} /\ Slack \in Nat
    /\ {MaxClock, MaxFacts, MaxDelay, MaxIncidents} \subseteq Nat

ASSUME FewSubjects == IsFiniteSet(Subject)

VARIABLES
    now,    \* NOW() and time.time()
    facts,  \* the rows the rules look at: [rule, subject, at, stored]
    alerts, \* the table alerts, in the order of its ids: [rule, at, by]
    queued, \* ids of the alerts queue_alert has put into the queue
    due,    \* last_medium + medium_interval
    pc,     \* where each runner stands in run_rules
    rule,   \* the rule each runner evaluates
    known,  \* alerts the _check_recent_alert just passed has looked at; 0: none, or it failed
    found,  \* subjects each runner has still to store an alert about
    got,    \* ids of the alerts run_rules has collected for the daemon
    calls,  \* of the panel so far
    faults

local == <<pc, rule, known, found, got>>
vars  == <<now, facts, alerts, queued, due, local, calls, faults>>

Nobody == "none"

Init ==
    /\ now = 0
    /\ facts = {}
    /\ alerts = <<>>
    /\ queued = {}
    /\ due = 0
    /\ pc = [p \in Runner |-> "idle"]
    /\ rule = [p \in Runner |-> 1]
    /\ known = [p \in Runner |-> 0]
    /\ found = [p \in Runner |-> {}]
    /\ got = {}
    /\ calls = 0
    /\ faults = 0

-----------------------------------------------------------------------------
(* The clock and the collectors that write the rows.                       *)

\* The daemon's loop comes round at most Slack after a poll is due, and a poll
\* lasts at most Slack.
Tick ==
    /\ now < MaxClock
    /\ now < due + Slack /\ (pc[Daemon] # "idle" => now + Period < due + Slack)
    /\ now' = now + 1
    /\ UNCHANGED <<facts, alerts, queued, due, local, calls, faults>>

\* A row carries the time its log line names, and is there for the rules from the
\* time it is inserted: the next ingestion, or the first one behind an outage.
\* Rows of a rule that does not tell subjects apart have no subject, those of a
\* standing rule no age.
NewRow(r, s, t) ==
    [rule    |-> r,
     subject |-> IF r \in PerSubject THEN s ELSE Nobody,
     at      |-> IF r \in Standing THEN 0 ELSE t,
     stored  |-> IF r \in Standing THEN 0 ELSE now]

Record ==
    /\ Cardinality(facts) < MaxFacts
    /\ \E r \in Rule, s \in Subject, t \in 0..now :
          /\ now <= t + MaxDelay
          /\ facts' = facts \cup {NewRow(r, s, t)}
    /\ UNCHANGED <<now, alerts, queued, due, local, calls, faults>>

\* the next scan or check finds the certificate renewed, the service up again
Withdraw ==
    /\ \E f \in facts : f.rule \in Standing /\ facts' = facts \ {f}
    /\ UNCHANGED <<now, alerts, queued, due, local, calls, faults>>

-----------------------------------------------------------------------------
(* run_rules                                                               *)

AlertId == DOMAIN alerts

\* Mutant: an alert as old as the window counts as older.
RecentStrict(r) == \E i \in AlertId : alerts[i].rule = r /\ alerts[i].at + Dedup[r] > now

\* _check_recent_alert: any alert of the rule, whatever its subject
Recent(r) == \E i \in AlertId : alerts[i].rule = r /\ alerts[i].at + Dedup[r] >= now

\* Mutant: a row as old as the window is not counted.
CountedStrict(r) ==
    {f \in facts : f.rule = r /\ (r \in Standing \/ f.at + Window[r] > now)}

\* the rows the WHERE clause selects
Counted(r) ==
    {f \in facts : f.rule = r /\ (r \in Standing \/ f.at + Window[r] >= now)}

CountOf(r, s) == Cardinality({f \in Counted(r) : f.subject = s})

\* what the evaluator finds: subjects, or the rule as a whole
Hits(r) == {s \in IF r \in PerSubject THEN Subject ELSE {Nobody} :
               CountOf(r, s) >= Threshold[r]}

\* and reports: all of them, or by ORDER BY cnt DESC LIMIT those with most rows
Reported(r) ==
    IF r \notin Limited \/ Cardinality(Hits(r)) <= Limit THEN {Hits(r)}
    ELSE {top \in SUBSET Hits(r) :
             /\ Cardinality(top) = Limit
             /\ \A s \in top, t \in Hits(r) \ top : CountOf(r, s) >= CountOf(r, t)}

Fail ==
    /\ calls + faults < MaxIncidents
    /\ faults' = faults + 1

\* Mutant: the list of evaluators is entered where the last run left it.
GoToUnwound(p, r) ==
    /\ known' = [known EXCEPT ![p] = 0]
    /\ rule' = [rule EXCEPT ![p] = r]
    /\ pc' = [pc EXCEPT ![p] = IF r \in Rule THEN "check"
                              ELSE IF p = Daemon THEN "queue" ELSE "idle"]

\* A later rule, or the return of run_rules: the daemon goes on to queue the
\* alerts it was given, the panel shows them.
GoTo(p, r) ==
    /\ known' = [known EXCEPT ![p] = 0]
    /\ rule' = [rule EXCEPT ![p] = IF r \in Rule THEN r ELSE 1]
    /\ pc' = [pc EXCEPT ![p] = IF r \in Rule THEN "check"
                              ELSE IF p = Daemon THEN "queue" ELSE "idle"]

\* the first rule of the next evaluator
AfterError(r) ==
    CHOOSE q \in (r + 1)..(Rules + 1) :
        /\ q \in Rule => Evaluator[q] # Evaluator[r]
        /\ \A k \in (r + 1)..(q - 1) : Evaluator[k] = Evaluator[r]

\* the daemon when the poll is due, the panel whenever it is asked
Begin(p) ==
    /\ pc[p] = "idle"
    /\ \/ /\ p = Daemon /\ now >= due
          /\ due' = now + Period
          /\ UNCHANGED calls
       \/ /\ p # Daemon /\ calls + faults < MaxIncidents
          /\ calls' = calls + 1
          /\ UNCHANGED due
    /\ GoTo(p, 1)
    /\ UNCHANGED <<now, facts, alerts, queued, found, got, faults>>

\* An error is answered like "no recent alert".
CheckRecent(p) ==
    /\ pc[p] = "check"
    /\ \/ /\ Recent(rule[p])
          /\ GoTo(p, rule[p] + 1)
          /\ UNCHANGED faults
       \/ /\ ~Recent(rule[p])
          /\ pc' = [pc EXCEPT ![p] = "query"]
          /\ known' = [known EXCEPT ![p] = Len(alerts)]
          /\ UNCHANGED <<rule, faults>>
       \/ /\ Fail
          /\ pc' = [pc EXCEPT ![p] = "query"]
          /\ UNCHANGED <<rule, known>>
    /\ UNCHANGED <<now, facts, alerts, queued, due, found, got, calls>>

\* An error ends the evaluator, and the alerts it has collected are lost;
\* run_rules goes on with the next one.
Query(p) ==
    /\ pc[p] = "query"
    /\ \/ /\ Hits(rule[p]) # {}
          /\ \E subjects \in Reported(rule[p]) : found' = [found EXCEPT ![p] = subjects]
          /\ pc' = [pc EXCEPT ![p] = "store"]
          /\ UNCHANGED <<rule, known, got, faults>>
       \/ /\ Hits(rule[p]) = {}
          /\ GoTo(p, rule[p] + 1)
          /\ UNCHANGED <<found, got, faults>>
       \/ /\ Fail
          /\ GoTo(p, AfterError(rule[p]))
          /\ got' = IF p # Daemon THEN got
                    ELSE {i \in got : Evaluator[alerts[i].rule] # Evaluator[rule[p]]}
          /\ UNCHANGED found
    /\ UNCHANGED <<now, facts, alerts, queued, due, calls>>

\* Mutant: run_rules returns the alerts of the last evaluator only.
ReturnedLast(p, id) ==
    IF p = Daemon
    THEN {i \in got : alerts[i].rule = rule[p]} \cup {id}
    ELSE got

\* all_alerts.extend(alerts)
Returned(p, id) == IF p = Daemon THEN got \cup {id} ELSE got

\* _store_alert for one subject: an error is swallowed, and the alert has no id
StoreAlert(p) ==
    /\ pc[p] = "store"
    /\ \E s \in found[p] :
          /\ found' = [found EXCEPT ![p] = @ \ {s}]
          /\ IF found[p] = {s} THEN GoTo(p, rule[p] + 1)
             ELSE UNCHANGED <<pc, rule, known>>
    /\ \/ /\ alerts' = Append(alerts, [rule |-> rule[p], at |-> now, by |-> p])
          /\ got' = Returned(p, Len(alerts) + 1)
          /\ UNCHANGED faults
       \/ /\ Fail
          /\ UNCHANGED <<alerts, got>>
    /\ UNCHANGED <<now, facts, queued, due, calls>>

\* _task_medium_poll behind run_rules: fetch each alert and queue it.  An error
\* of the fetch ends the loop, an error of queue_alert only skips the alert.
QueueNext ==
    /\ pc[Daemon] = "queue"
    /\ \/ /\ got = {}
          /\ pc' = [pc EXCEPT ![Daemon] = "idle"]
          /\ UNCHANGED <<queued, got, faults>>
       \/ \E id \in got :
             /\ \A other \in got : id <= other
             /\ \/ /\ queued' = queued \cup {id}
                   /\ got' = got \ {id}
                   /\ UNCHANGED faults
                \/ /\ Fail
                   /\ got' \in {got \ {id}, {}}
                   /\ UNCHANGED queued
             /\ UNCHANGED pc
    /\ UNCHANGED <<now, facts, alerts, due, rule, known, found, calls>>

\* A restarted daemon has last_medium = 0: its first poll is due at once.
Kill(p) ==
    /\ pc[p] # "idle"
    /\ Fail
    /\ pc' = [pc EXCEPT ![p] = "idle"]
    /\ rule' = [rule EXCEPT ![p] = 1]
    /\ known' = [known EXCEPT ![p] = 0]
    /\ found' = [found EXCEPT ![p] = {}]
    /\ got' = IF p = Daemon THEN {} ELSE got
    /\ due' = IF p = Daemon THEN now ELSE due
    /\ UNCHANGED <<now, facts, alerts, queued, calls>>

Evaluate(p) == CheckRecent(p) \/ Query(p) \/ StoreAlert(p)

Next ==
    \/ Tick \/ Record \/ Withdraw
    \/ \E p \in Runner : Begin(p) \/ Evaluate(p) \/ Kill(p)
    \/ QueueNext

Spec == Init /\ [][Next]_vars

-----------------------------------------------------------------------------
(* Properties                                                              *)

Alert == [rule : Rule, at : Nat, by : Runner]

TypeOK ==
    /\ now \in Nat
    /\ facts \subseteq [rule : Rule, subject : Subject \cup {Nobody}, at : Nat, stored : Nat]
    /\ alerts \in Seq(Alert)
    /\ queued \subseteq AlertId
    /\ due \in Nat
    /\ pc \in [Runner -> {"idle", "check", "query", "store", "queue"}]
    /\ rule \in [Runner -> Rule]
    /\ known \in [Runner -> 0..Len(alerts)]
    /\ found \in [Runner -> SUBSET (Subject \cup {Nobody})]
    /\ got \subseteq AlertId
    /\ calls \in Nat
    /\ faults \in Nat

\* Alerts of a rule are more than its dedup window apart, however long the
\* evaluation takes and whoever else evaluates: an alert comes closer only to
\* those its own _check_recent_alert could not see, because they came after it
\* or because it failed.
AlertsApart ==
    [][\A i \in DOMAIN alerts' \ AlertId, j \in AlertId :
          LET a == alerts'[i]
          IN  (a.rule = alerts[j].rule /\ j <= known[a.by]) =>
                  a.at > alerts[j].at + Dedup[a.rule]]_vars

Deadline(f) == f.stored + Period + 2 * Slack

\* The rows that count together with f, the last of them to be stored, and that the
\* query still reaches at the deadline.
Lasting(f) ==
    {g \in facts : /\ g.rule = f.rule
                   /\ f.rule \in PerSubject => g.subject = f.subject
                   /\ g.stored <= f.stored /\ g.at + Window[f.rule] >= Deadline(f)}

Suffices(f) == f.rule \notin Standing /\ Cardinality(Lasting(f)) >= Threshold[f.rule]

\* Nothing goes unnoticed that is stored often enough for a rule while its query
\* still reaches the rows a poll period and its lateness later: as long as nothing
\* fails, the last of these rows is followed by an alert within that time, or the
\* rule had one within its dedup window before that row was stored, whoever raised
\* it and whichever rows of the rule it was about.  (It promises nothing of a row
\* that is stored so late, or of a rule whose window is so short, that the next poll
\* may find the row outside the window.)
NoticedInTime ==
    \A f \in facts :
        (faults = 0 /\ Suffices(f) /\ now > Deadline(f)) =>
            \E i \in AlertId : /\ alerts[i].rule = f.rule
                               /\ alerts[i].at + Dedup[f.rule] >= f.stored
                               /\ alerts[i].at <= Deadline(f)

\* What the daemon raises it also announces: once a poll is over every alert the
\* daemon stored has been queued for notification, those of every evaluator and
\* subject, unless a statement failed or the daemon was killed.
RaisedIsQueued ==
    (faults = 0 /\ pc[Daemon] = "idle") =>
        \A i \in AlertId : alerts[i].by = Daemon => i \in queued
=============================================================================
