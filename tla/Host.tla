--------------------------------- MODULE Host ---------------------------------
(***************************************************************************)
(* What the monitors of the plugin share: the wall clock, and the threads  *)
(* that run them.  The daemon is one thread that calls its collectors when *)
(* a poll is due (modules/daemon/scheduler.py); each request of the panel  *)
(* (sec_mon_main.py, api_ssl_scan, api_services_collect,                   *)
(* api_fail2ban_collect, api_geo_lookup, api_active_sessions) is a thread  *)
(* of one other process.  Nothing keeps two of them from being in the same *)
(* collector at once.                                                      *)
(***************************************************************************)
EXTENDS Integers, FiniteSets

CONSTANTS
    Panel,      \* the panel's threads
    Daemon,
    Period,     \* the interval of the daemon's polls, in ticks
    MaxClock,   \* bound: [what the server has -> ticks]
    MaxCalls,   \* bound: [collector -> requests to the panel]
    MaxChanges, \* bound: [what the server has -> changes of it]
    MaxFaults,  \* bound: failed commands and statements, and kills
    MaxPresent  \* bound: kinds of thing the server has for the monitors to see

Runner == Panel \cup {Daemon}
Polled == {"certs", "services", "jails"}
Stage  == {"idle", "parse", "store", "active", "enabled", "status", "cache", "load",
            "load city", "load asn", "city", "asn", "who", "w", "merged"}
Job    == Polled \cup {"lookup", "who"}

ASSUME HostAssumption ==
    /\ Daemon \notin Panel
    /\ Period \in Nat \ {0}
    /\ MaxClock \in [Job -> Nat] /\ MaxCalls \in [Job -> Nat]
    /\ MaxChanges \in [Job -> Nat] /\ {MaxFaults, MaxPresent} \subseteq Nat

VARIABLES
    now,     \* datetime.now(), time.time() and NOW(): the database is local
    has,     \* certificates, watched services, Fail2Ban, GeoLite files, logins
    due,     \* [collector -> when the daemon's next poll of it is due]
    job,     \* the collector each runner is in
    step,    \* where it stands there
    overlap, \* observer: collectors that two runners have been in at once
    calls, changes, faults

hostVars == <<now, has, due, job, step, overlap, calls, changes, faults>>

HostInit ==
    /\ now = 0
    /\ has \in {k \in SUBSET Job : Cardinality(k) <= MaxPresent}
    /\ due = [j \in Polled \cap has |-> 0]
    /\ job = [r \in Runner |-> "none"]
    /\ step = [r \in Runner |-> "idle"]
    /\ overlap = {}
    /\ calls = 0
    /\ changes = 0
    /\ faults = 0

\* a poll of the daemon, or a request of the panel, calls a collector
Call(r, j, s) ==
    /\ job[r] = "none"
    /\ j \in has
    /\ \/ /\ r = Daemon /\ j \in Polled /\ now >= due[j]
          /\ due' = [due EXCEPT ![j] = now + Period]
          /\ UNCHANGED calls
       \/ /\ r # Daemon /\ calls < MaxCalls[j]
          /\ calls' = calls + 1
          /\ UNCHANGED due
    /\ job' = [job EXCEPT ![r] = j]
    /\ step' = [step EXCEPT ![r] = s]
    /\ overlap' = IF \E o \in Runner : job[o] = j THEN overlap \cup {j} ELSE overlap
    /\ UNCHANGED <<now, has, changes, faults>>

At(r, j, s) == job[r] = j /\ step[r] = s

\* to the next step of the collector
GoOn(r, s) ==
    /\ step' = [step EXCEPT ![r] = s]
    /\ UNCHANGED job

Return(r) ==
    /\ job' = [job EXCEPT ![r] = "none"]
    /\ step' = [step EXCEPT ![r] = "idle"]

\* a command that times out, a statement the database refuses
Fail ==
    /\ faults < MaxFaults
    /\ faults' = faults + 1

\* something outside the plugin
Change(k) ==
    /\ k \in has
    /\ changes < MaxChanges[k]
    /\ changes' = changes + 1
    /\ UNCHANGED <<now, has, due, job, step, overlap, calls, faults>>

\* the daemon is killed and started again, or the panel is
KillHost(killed) ==
    /\ \E r \in killed : job[r] # "none"
    /\ Fail
    /\ job' = [r \in Runner |-> IF r \in killed THEN "none" ELSE job[r]]
    /\ step' = [r \in Runner |-> IF r \in killed THEN "idle" ELSE step[r]]
    /\ due' = IF Daemon \in killed THEN [j \in DOMAIN due |-> now] ELSE due
    /\ UNCHANGED <<now, has, overlap, calls, changes>>

\* what a call holds in local variables goes with its process
Forgotten(f, killed, empty) == [r \in Runner |-> IF r \in killed THEN empty ELSE f[r]]

HostTypeOK ==
    /\ now \in Nat
    /\ has \subseteq Job
    /\ due \in [Polled \cap has -> Nat]
    /\ job \in [Runner -> Job \cup {"none"}]
    /\ step \in [Runner -> Stage]
    /\ overlap \subseteq Job
    /\ {calls, changes, faults} \subseteq Nat
=============================================================================
