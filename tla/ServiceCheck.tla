----------------------------- MODULE ServiceCheck -----------------------------
(***************************************************************************)
(* The service checker (modules/service_monitor/checker.py).  A check asks *)
(* systemctl about one watched unit after the other and then inserts a row *)
(* for each of them, in one statement; the rows are never updated, and the *)
(* latest of a unit is the one with the greatest checked_at, which has     *)
(* whole seconds.  sub_status, pid, memory and uptime are left out.        *)
(***************************************************************************)
EXTENDS Host

CONSTANTS
    Unit,
    Enabled   \* units for which systemctl is-enabled answers "enabled"

ASSUME ServiceAssumption == Enabled \subseteq Unit

VARIABLES
    unit,     \* the state systemd has each unit in
    history,  \* the table service_status: [unit, status, at]
    unasked,  \* units each check has still to ask about
    asked,    \* the unit whose is-enabled it waits for
    answers,  \* what it will insert: [unit, status]
    (*** observers ***)
    during,   \* the states each unit has had since each runner's check began
    told      \* ... since the checks began that inserted in the latest second

svcVars == <<unit, history, unasked, asked, answers, during, told>>

UnitState == {"active", "inactive", "failed"}
Seen      == UnitState \cup {"hidden"}   \* hidden by a command that timed out
Unseen    == [u \in Unit |-> {}]
SvcStatus == {"running", "stopped", "failed", "unknown"}
Answer    == [unit : Unit, status : SvcStatus]

ServiceInit ==
    /\ unit = [u \in Unit |-> "active"]
    /\ history = {}
    /\ unasked = [r \in Runner |-> {}]
    /\ asked = [r \in Runner |-> {}]
    /\ answers = [r \in Runner |-> {}]
    /\ during = [r \in Runner |-> Unseen]
    /\ told = Unseen

\* started, stopped or crashed
ChangeUnit(u) ==
    /\ Change("services")
    /\ \E s \in UnitState \ {unit[u]} :
          /\ unit' = [unit EXCEPT ![u] = s]
          /\ during' = [r \in Runner |->
                           IF job[r] = "services"
                           THEN [during[r] EXCEPT ![u] = @ \cup {s}] ELSE during[r]]
    /\ UNCHANGED <<history, unasked, asked, answers, told>>

\* observer: a command about u timed out
Hides(r, u) == during' = [during EXCEPT ![r][u] = @ \cup {"hidden"}]

\* collect, check_all_services: in the daemon's slow poll and the panel
CheckAll(r) ==
    /\ Call(r, "services", "active")
    /\ unasked' = [unasked EXCEPT ![r] = Unit]
    /\ answers' = [answers EXCEPT ![r] = {}]
    /\ during' = [during EXCEPT ![r] = [u \in Unit |-> {unit[u]}]]
    /\ UNCHANGED <<unit, history, asked, told>>

\* systemctl is-active exits with 0 for an active unit only, and _run_cmd drops
\* the output of a command that exits with anything else: "inactive" and
\* "failed" never reach status_map.  (The few other states it exits with 0 for,
\* "reloading" say, are "unknown" to status_map; they are left out.)
StatusMap(u) == [unit |-> u, status |-> "running"]

\* is-active: a unit that is not active is asked for once more, and so is one
\* for which the command has timed out
IsActive(r) ==
    /\ At(r, "services", "active")
    /\ \E u \in unasked[r] :
          /\ unasked' = [unasked EXCEPT ![r] = @ \ {u}]
          /\ \/ /\ unit[u] = "active"
                /\ answers' = [answers EXCEPT ![r] = @ \cup {StatusMap(u)}]
                /\ UNCHANGED <<asked, job, step, faults, during>>
             \/ /\ unit[u] # "active"
                /\ asked' = [asked EXCEPT ![r] = {u}]
                /\ GoOn(r, "enabled")
                /\ UNCHANGED <<answers, faults, during>>
             \/ /\ Fail
                /\ Hides(r, u)
                /\ asked' = [asked EXCEPT ![r] = {u}]
                /\ GoOn(r, "enabled")
                /\ UNCHANGED answers
    /\ UNCHANGED <<now, has, due, overlap, calls, changes>>
    /\ UNCHANGED <<unit, history, told>>

\* Mutant: a unit that is not enabled is left out of the results.
NotActiveListed(u) ==
    IF u \in Enabled THEN {[unit |-> u, status |-> "stopped"]} ELSE {}

NotActive(u) ==
    {[unit |-> u, status |-> IF u \in Enabled THEN "stopped" ELSE "unknown"]}

\* is-enabled, which may time out as well
IsEnabled(r) ==
    /\ At(r, "services", "enabled")
    /\ \E u \in asked[r] :
          \/ /\ answers' = [answers EXCEPT ![r] = @ \cup NotActive(u)]
             /\ UNCHANGED <<faults, during>>
          \/ /\ Fail
             /\ Hides(r, u)
             /\ answers' = [answers EXCEPT ![r] =
                               @ \cup {[unit |-> u, status |-> "unknown"]}]
    /\ asked' = [asked EXCEPT ![r] = {}]
    /\ GoOn(r, "active")
    /\ UNCHANGED <<now, has, due, overlap, calls, changes>>
    /\ UNCHANGED <<unit, history, unasked, told>>

\* store_service_status: one statement for all rows; its error is logged only,
\* and nothing is stored when the database cannot be reached
StoreServiceStatus(r) ==
    /\ At(r, "services", "active") /\ unasked[r] = {}
    /\ \/ /\ history' = history \cup {[unit |-> a.unit, status |-> a.status, at |-> now] :
                                          a \in answers[r]}
          /\ told' = IF \E row \in history : row.at = now
                     THEN [u \in Unit |-> told[u] \cup during[r][u]] ELSE during[r]
          /\ UNCHANGED faults
       \/ /\ Fail
          /\ UNCHANGED <<history, told>>
    /\ answers' = [answers EXCEPT ![r] = {}]
    /\ during' = [during EXCEPT ![r] = Unseen]
    /\ Return(r)
    /\ UNCHANGED <<now, has, due, overlap, calls, changes>>
    /\ UNCHANGED <<unit, unasked, asked>>

ServiceKill(killed) ==
    /\ unasked' = Forgotten(unasked, killed, {})
    /\ asked' = Forgotten(asked, killed, {})
    /\ answers' = Forgotten(answers, killed, {})
    /\ during' = Forgotten(during, killed, Unseen)
    /\ UNCHANGED <<unit, history, told>>

ServiceNext ==
    \/ \E u \in Unit : ChangeUnit(u)
    \/ \E r \in Runner : \/ CheckAll(r) \/ IsActive(r)
                         \/ IsEnabled(r) \/ StoreServiceStatus(r)

\* get_service_status: of two rows of the same second both are returned
Latest(u) ==
    {row \in history : /\ row.unit = u
                       /\ \A q \in history : q.unit = u => q.at <= row.at}

-----------------------------------------------------------------------------
(* Properties                                                              *)

ServiceTypeOK ==
    /\ unit \in [Unit -> UnitState]
    /\ history \subseteq [unit : Unit, status : SvcStatus, at : Nat]
    /\ unasked \in [Runner -> SUBSET Unit]
    /\ asked \in [Runner -> SUBSET Unit]
    /\ answers \in [Runner -> SUBSET Answer]
    /\ during \in [Runner -> [Unit -> SUBSET Seen]]
    /\ told \in [Unit -> SUBSET Seen]

\* A row with this status is right of u in this state.  A failed unit is "failed" to
\* the docstring and to status_map (checker.py:33, 45), but to no run of the code:
\* of it the property asks only that it is not shown as running.
Tells(u, state, status) ==
    CASE state = "active"   -> status = "running"
      [] state = "inactive" -> status = IF u \in Enabled THEN "stopped" ELSE "unknown"
      [] state = "failed"   -> status # "running"
      [] state = "hidden"   -> TRUE

\* Once a check has inserted, every latest row of a unit, of two in one second as
\* well, shows a state the unit has had since the check that wrote it began: a unit
\* that has not changed since then is shown as it is, however many older rows there
\* are and whatever other checks ran, and what is shown is never older than the
\* check that inserted last.  (An old check that inserts last does replace newer
\* rows, for as long as it took.)
LatestTellsState ==
    history # {} =>
        \A u \in Unit :
            /\ Latest(u) # {}
            /\ \A row \in Latest(u) : \E s \in told[u] : Tells(u, s, row.status)
=============================================================================
