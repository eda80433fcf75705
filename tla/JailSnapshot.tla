----------------------------- MODULE JailSnapshot -----------------------------
(***************************************************************************)
(* The Fail2Ban collector (modules/fail2ban/collector.py).  A collection   *)
(* asks fail2ban-client for the list of jails, then for the figures of one *)
(* jail after the other, and then upserts a row for each of them.  Of the  *)
(* figures total_banned and currently_banned are kept: the other two are   *)
(* read and written in the same way.  fail2ban_bans has no writer          *)
(* (store_ban_event is never called).                                      *)
(***************************************************************************)
EXTENDS Host

CONSTANTS
    Jail,
    MaxBans   \* bound: bans of a jail

ASSUME JailAssumption == MaxBans \in Nat

VARIABLES
    up,       \* jails the Fail2Ban server has
    bans,     \* how many it has banned in each: [total, current]
    jailRows, \* the table fail2ban_jails: [total, current], or NoRow
    names,    \* jails each collection has still to ask about
    figures,  \* what it will store: [jail, bans]
    (*** observer ***)
    lapsed    \* jails the server has dropped, or a command about which has failed

jailVars == <<up, bans, jailRows, names, figures, lapsed>>

Bans   == [total : Nat, current : Nat]
None   == [total |-> 0, current |-> 0]
NoRow  == [total |-> -1, current |-> -1]

JailInit ==
    /\ up = Jail
    /\ bans = [j \in Jail |-> None]
    /\ jailRows = [j \in Jail |-> NoRow]
    /\ names = [r \in Runner |-> {}]
    /\ figures = [r \in Runner |-> {}]
    /\ lapsed = {}

Ban(j) ==
    /\ Change("jails")
    /\ j \in up /\ bans[j].total < MaxBans
    /\ bans' = [bans EXCEPT ![j].total = @ + 1, ![j].current = @ + 1]
    /\ UNCHANGED <<up, jailRows, names, figures, lapsed>>

Unban(j) ==
    /\ Change("jails")
    /\ bans[j].current > 0
    /\ bans' = [bans EXCEPT ![j].current = @ - 1]
    /\ UNCHANGED <<up, jailRows, names, figures, lapsed>>

\* the server is stopped, started, or told of other jails: it counts anew for
\* those it has not had all along
Reload ==
    /\ Change("jails")
    /\ up' \in SUBSET Jail \ {up}
    /\ bans' = [j \in Jail |-> IF j \in up \cap up' THEN bans[j] ELSE None]
    /\ lapsed' = lapsed \cup (up \ up')
    /\ UNCHANGED <<jailRows, names, figures>>

\* list_jails, in the daemon's fast poll and the panel: no jails when the command
\* fails, or says that the server is down
ListJails(r) ==
    /\ Call(r, "jails", "status")
    /\ names' \in {[names EXCEPT ![r] = up], [names EXCEPT ![r] = {}]}
    /\ figures' = [figures EXCEPT ![r] = {}]
    /\ UNCHANGED <<up, bans, jailRows, lapsed>>

\* get_jail_status: without an answer every figure is 0, and the jail "active"
GetJailStatus(r) ==
    /\ At(r, "jails", "status")
    /\ \E j \in names[r] :
          /\ names' = [names EXCEPT ![r] = @ \ {j}]
          /\ \/ /\ figures' = [figures EXCEPT ![r] =
                                  @ \cup {[jail |-> j, bans |-> bans[j]]}]
                /\ UNCHANGED <<faults, lapsed>>
             \/ /\ Fail
                /\ figures' = [figures EXCEPT ![r] = @ \cup {[jail |-> j, bans |-> None]}]
                /\ lapsed' = lapsed \cup {j}
    /\ UNCHANGED <<now, has, due, job, step, overlap, calls, changes>>
    /\ UNCHANGED <<up, bans, jailRows>>

\* Mutant: the first line with "banned:" is taken for the total.
FigureFirst(f) == [total |-> f.bans.current, current |-> f.bans.current]

\* the values the upsert writes for a jail
Figure(f) == f.bans

\* one upsert of store_jail_snapshot: an error skips this jail; or the collection
\* is over
StoreJail(r) ==
    /\ At(r, "jails", "status") /\ names[r] = {}
    /\ IF figures[r] = {}
       THEN Return(r) /\ UNCHANGED <<jailRows, figures, faults>>
       ELSE /\ \E f \in figures[r] :
                  /\ figures' = [figures EXCEPT ![r] = @ \ {f}]
                  /\ \/ /\ jailRows' = [jailRows EXCEPT ![f.jail] = Figure(f)]
                        /\ UNCHANGED faults
                     \/ /\ Fail
                        /\ UNCHANGED jailRows
            /\ UNCHANGED <<job, step>>
    /\ UNCHANGED <<now, has, due, overlap, calls, changes>>
    /\ UNCHANGED <<up, bans, names, lapsed>>

JailKill(killed) ==
    /\ names' = Forgotten(names, killed, {})
    /\ figures' = Forgotten(figures, killed, {})
    /\ UNCHANGED <<up, bans, jailRows, lapsed>>

JailNext ==
    \/ \E j \in Jail : Ban(j) \/ Unban(j)
    \/ Reload
    \/ \E r \in Runner : ListJails(r) \/ GetJailStatus(r) \/ StoreJail(r)

-----------------------------------------------------------------------------
(* Properties                                                              *)

JailTypeOK ==
    /\ up \subseteq Jail
    /\ bans \in [Jail -> Bans]
    /\ jailRows \in [Jail -> Bans \cup {NoRow}]
    /\ names \in [Runner -> SUBSET Jail]
    /\ figures \in [Runner -> SUBSET [jail : Jail, bans : Bans]]
    /\ lapsed \subseteq Jail

\* The total of a jail in the table never falls, while bans go on and calls are
\* killed at any point, but for three reasons: Fail2Ban has dropped the jail and
\* counts anew, fail2ban-client has failed and zeros were stored, or two
\* collections overlapped and the older one wrote last.
TotalsGrow ==
    [][\A j \in Jail \ lapsed :
          "jails" \notin overlap => jailRows'[j].total >= jailRows[j].total]_jailVars
=============================================================================
