--------------------------- MODULE NotificationQueue ---------------------------
(***************************************************************************)
(* The notification queue (modules/notifications/notifier.py): queue_alert *)
(* inserts pending rows, process_queue takes a batch of them and sends one *)
(* after the other.  process_queue runs in the daemon every five minutes   *)
(* (scheduler.py, _task_medium_poll) and in the panel whenever its API is  *)
(* called (sec_mon_main.py, api_notifications_queue); the two processes    *)
(* share nothing but the table.                                            *)
(*                                                                         *)
(* Every statement on the table and every send is a step of its own.       *)
(***************************************************************************)
EXTENDS Naturals, FiniteSets

CONSTANTS
    Worker,      \* the processes that call process_queue
    Daemon,      \* the one of them that calls it for ever
    MaxItems,    \* max_items, 20 in the code
    MaxRetries,  \* MAX_RETRIES, 3 in the code
    LateAnswers, \* a send may reach the channel and still be reported failed
    MaxRows,     \* bound: notifications ever queued
    MaxFaults    \* bound: kills of a worker and database errors

ASSUME QueueAssumption ==
    /\ Daemon \in Worker
    /\ MaxItems \in Nat
    /\ MaxRetries \in Nat
    /\ LateAnswers \in BOOLEAN
    /\ MaxRows \in Nat
    /\ MaxFaults \in Nat

VARIABLES
    queue,     \* the table notification_queue: [status, attempts] of each id
    pc,        \* where each worker stands in process_queue
    batch,     \* the rows it selected and has not finished: [id, attempts]
    sent,      \* the result of the send it is at
    faults,    \* faults so far
    delivered  \* observer: how often the channel got the notification

vars == <<queue, pc, batch, sent, faults, delivered>>

Id  == 1..MaxRows
Row == [id : Id, attempts : Nat]

Absent == [status |-> "absent", attempts |-> 0]

\* Mutant: 'sending' rows are taken as well, to unstick them.
PendingAndStuck == {i \in Id : queue[i].status \in {"pending", "sending"}}

Pending == {i \in Id : queue[i].status = "pending"}

Init ==
    /\ queue = [i \in Id |-> Absent]
    /\ pc = [w \in Worker |-> "idle"]
    /\ batch = [w \in Worker |-> {}]
    /\ sent = [w \in Worker |-> FALSE]
    /\ faults = 0
    /\ delivered = [i \in Id |-> 0]

\* queue_alert: one row per enabled channel, each a statement of its own
QueueAlert ==
    /\ \E i \in Id :
          /\ queue[i] = Absent
          /\ \A j \in Id : j < i => queue[j] # Absent
          /\ queue' = [queue EXCEPT ![i].status = "pending"]
    /\ UNCHANGED <<pc, batch, sent, faults, delivered>>

\* the rows a SELECT ... ORDER BY id ASC LIMIT max_items returns
Selected ==
    {[id |-> i, attempts |-> queue[i].attempts] :
        i \in {j \in Pending :
                  Cardinality({k \in Pending : k < j}) < MaxItems}}

\* An empty selection ends the call at once: a step that changes nothing.
SelectPending(w) ==
    /\ pc[w] = "idle"
    /\ batch' = [batch EXCEPT ![w] = Selected]
    /\ pc' = [pc EXCEPT ![w] = IF Selected = {} THEN "idle" ELSE "mark"]
    /\ UNCHANGED <<queue, sent, faults, delivered>>

\* the row the loop is at
IsCurrent(w, r) == r \in batch[w] /\ \A q \in batch[w] : r.id <= q.id

\* UPDATE ... SET status = 'sending', attempts = attempts + 1 WHERE id = ...
\* and sent = False
Mark(w, reset) ==
    /\ pc[w] = "mark"
    /\ \E r \in batch[w] :
          /\ IsCurrent(w, r)
          /\ queue' = [queue EXCEPT ![r.id].status = "sending",
                                    ![r.id].attempts = @ + 1]
    /\ sent' = IF reset THEN [sent EXCEPT ![w] = FALSE] ELSE sent
    /\ pc' = [pc EXCEPT ![w] = "send"]
    /\ UNCHANGED <<batch, faults, delivered>>

\* Mutant: sent keeps the result of the row before.
MarkSendingNoReset(w) == Mark(w, FALSE)

MarkSending(w) == Mark(w, TRUE)

\* A channel that is not configured leaves sent alone; _send_telegram,
\* _send_discord and _send_email answer false on any exception, and a timeout
\* can hide a delivery.
Send(w) ==
    /\ pc[w] = "send"
    /\ \/ UNCHANGED <<sent, delivered>>
       \/ /\ sent' = [sent EXCEPT ![w] = FALSE]
          /\ UNCHANGED delivered
       \/ \E r \in batch[w], ok \in (IF LateAnswers THEN BOOLEAN ELSE {TRUE}) :
             /\ IsCurrent(w, r)
             /\ sent' = [sent EXCEPT ![w] = ok]
             /\ delivered' = [delivered EXCEPT ![r.id] = @ + 1]
    /\ pc' = [pc EXCEPT ![w] = "record"]
    /\ UNCHANGED <<queue, batch, faults>>

\* Mutants: gives up one attempt late, forgets to re-queue, or re-queues with a
\* status the column's ENUM does not have.
OutcomeLate(r, ok) ==
    IF ok THEN "sent"
    ELSE IF r.attempts > MaxRetries THEN "failed" ELSE "pending"

OutcomeNotQueued(r, ok) ==
    IF ok THEN "sent"
    ELSE IF r.attempts >= MaxRetries THEN "failed" ELSE "sending"

OutcomeOffEnum(r, ok) ==
    IF ok THEN "sent"
    ELSE IF r.attempts >= MaxRetries THEN "failed" ELSE "retry"

Outcome(r, ok) ==
    IF ok THEN "sent"
    ELSE IF r.attempts >= MaxRetries THEN "failed" ELSE "pending"

\* the UPDATE after the send (_mark_failed when it gives up), and on to the
\* next row
Record(w) ==
    /\ pc[w] = "record"
    /\ \E r \in batch[w] :
          /\ IsCurrent(w, r)
          /\ queue' = [queue EXCEPT ![r.id].status = Outcome(r, sent[w])]
          /\ batch' = [batch EXCEPT ![w] = @ \ {r}]
          /\ pc' = [pc EXCEPT ![w] = IF batch[w] = {r} THEN "idle" ELSE "mark"]
    /\ UNCHANGED <<sent, faults, delivered>>

\* A kill of the process, or a database error in one of the two UPDATEs, which
\* nothing catches before the scheduler: the batch is forgotten as it stands.
Abort(w) ==
    /\ pc[w] # "idle"
    /\ faults < MaxFaults
    /\ faults' = faults + 1
    /\ pc' = [pc EXCEPT ![w] = "idle"]
    /\ batch' = [batch EXCEPT ![w] = {}]
    /\ sent' = [sent EXCEPT ![w] = FALSE]
    /\ UNCHANGED <<queue, delivered>>

Work(w) == MarkSending(w) \/ Send(w) \/ Record(w)

Next ==
    \/ QueueAlert
    \/ \E w \in Worker : SelectPending(w) \/ Work(w) \/ Abort(w)

Spec == Init /\ [][Next]_vars

\* A call of process_queue runs to its end; only the daemon calls it for ever.
FairSpec ==
    /\ Spec
    /\ \A w \in Worker : WF_vars(Work(w))
    /\ WF_vars(SelectPending(Daemon))

-----------------------------------------------------------------------------
(* Properties                                                              *)

Status == {"absent", "pending", "sending", "sent", "failed"}
Done   == {"sent", "failed"}

TypeOK ==
    /\ queue \in [Id -> [status : Status, attempts : Nat]]
    /\ pc \in [Worker -> {"idle", "mark", "send", "record"}]
    /\ batch \in [Worker -> SUBSET Row]
    /\ sent \in [Worker -> BOOLEAN]
    /\ faults \in Nat
    /\ delivered \in [Id -> Nat]

\* With one worker and honest channels nobody is notified twice of the same
\* alert: a kill leaves the row in 'sending', which is never picked up again.
DeliveredAtMostOnce == \A i \in Id : delivered[i] <= 1

\* A notification reported sent was delivered, whoever processes the queue and
\* however its rows are fought over.
SentWasDelivered ==
    \A i \in Id : queue[i].status = "sent" => delivered[i] > 0

\* However the workers fight over a row, it is not attempted for ever.  Only a
\* snapshot taken below MaxRetries re-queues a row, so once a row has used its
\* attempts each worker can bring it back once, and after the k-th time at
\* most k workers select it again.
AttemptsAreBounded ==
    LET n == Cardinality(Worker)
    IN  \A i \in Id :
            queue[i].attempts + 1 <= MaxRetries + n + (n * (n + 1)) \div 2

\* Every queued notification is decided in the end ("reliable delivery with
\* retry", notifier.py:5).
EventuallyDecided ==
    \A i \in Id :
        (queue[i].status = "pending") ~> (queue[i].status \in Done)

\* Kills and failing UPDATEs cost the rows they leave in 'sending' and no other:
\* whatever else is pending, also what was selected and not yet marked, is decided
\* in the end, by the two processes that fight over it.
Held(i) == \E w \in Worker : \E row \in batch[w] : row.id = i

OnlyAbortedAreStuck ==
    \A i \in Id :
        (queue[i].status = "pending") ~>
            \/ queue[i].status \in Done
            \/ faults > 0 /\ queue[i].status = "sending" /\ ~Held(i)

\* One worker implements the abstract outbox: a notification is decided once, given
\* up only after MaxRetries attempts, and never attempted more than once again.
Fate == [i \in Id |-> CASE queue[i].status = "absent" -> "none"
                        [] queue[i].status \in {"pending", "sending"} -> "queued"
                        [] OTHER -> queue[i].status]

Abstract == INSTANCE Outbox WITH
    Message  <- Id,
    Limit    <- MaxRetries,
    fate     <- Fate,
    attempts <- [i \in Id |-> queue[i].attempts]

ImplementsOutbox == Abstract!OSpec
=============================================================================
