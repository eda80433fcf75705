------------------------------ MODULE LogIngest ------------------------------
(***************************************************************************)
(* The ingestion cycle of the SSH monitor (modules/ssh_monitor/ingester.py *)
(* with offset.py, normalizer.py and journal.py): load the read position,  *)
(* read what the log has gained, drop duplicates, insert the events, count *)
(* the attackers, save the position in the database and in a JSON file.    *)
(*                                                                         *)
(* Every system call and every database statement is a step of its own, so *)
(* that rsyslog, logrotate, a database outage and a kill of the daemon can *)
(* come between any two of them.                                           *)
(*                                                                         *)
(* Data.  The n-th line ever logged is the number n; text[n] is what the   *)
(* parser and the dedup hash make of it (type, user, address, message), so *)
(* two lines with the same text are duplicates of each other.  A byte      *)
(* offset is counted in whole lines.  The current log file holds the lines *)
(* log.base+1 .. written.                                                  *)
(***************************************************************************)
EXTENDS Naturals, FiniteSets

CONSTANTS
    Line,            \* what a log line says, up to its time, pid and port
    EventType,       \* [Line -> event type], "none" when no pattern matches
    RootLogin,       \* the lines that are a successful login of root
    Dated,           \* the lines whose timestamp _parse_ts understands
    Attacker,        \* the (ip_address, username) pairs of attacker_stats
    Who,             \* [Line -> Attacker]
    JournalFallback, \* ssh_monitor.journal_fallback
    MaxEntries,      \* max_entries of the dedup window, 10000 in the code
    MaxLines,        \* bound: lines ever logged
    MaxRuns,         \* bound: starts of the daemon
    MaxOutages,      \* bound: outages of the database, one at the start included
    MaxRotations,    \* bound: rotations of the log, of either kind
    MaxPeriods       \* bound: periods of a text, as far as age ends them

EventTypes == {"login.failure", "login.success", "session.open", "none"}

ASSUME DataAssumption ==
    /\ EventType \in [Line -> EventTypes]
    /\ RootLogin \subseteq {l \in Line : EventType[l] = "login.success"}
    /\ Dated \subseteq Line
    /\ Who \in [Line -> Attacker]

ASSUME BoundAssumption ==
    /\ JournalFallback \in BOOLEAN
    /\ MaxEntries \in Nat
    /\ MaxLines \in Nat
    /\ MaxRuns \in Nat
    /\ MaxOutages \in Nat
    /\ MaxRotations \in Nat
    /\ MaxPeriods \in Nat

VARIABLES
    (*** the world the daemon reads ***)
    text,      \* what the n-th line will say
    written,   \* how many lines have been logged
    log,       \* the file at ssh_monitor.log_path
    rotations, \* rotations so far
    truncated, \* observer: the file has been truncated in place
    (*** what survives the daemon ***)
    dbUp,      \* the database accepts connections
    outages,   \* outages so far
    dbRow,     \* the row of log_offsets
    jsonRow,   \* data/offsets/auth.log.json
    events,    \* the table events: rows [at, type, period, stmt]
    inserts,   \* INSERT statements into events so far
    stats,     \* the table attacker_stats
    (*** the memory of the daemon ***)
    run,       \* which start of the daemon this is
    pc,        \* where the cycle stands
    st,        \* the OffsetState being worked on
    cur,       \* current_inode
    size,      \* the size _read_new_lines measured
    source,    \* summary["source"]
    rows,      \* the normalized rows of this cycle
    todo,      \* rows the running stats update has still to upsert
    seen,      \* DedupWindow._seen: its keys
    young,     \* those of them let pass within the last window_seconds
    (*** observers ***)
    period,    \* how often each text has been or may be let pass by now
    dropped    \* texts of rows an outage or a refused INSERT lost

world  == <<text, written, log, rotations, truncated>>
offsets == <<dbRow, jsonRow>>
tables == <<events, inserts, stats>>
window == <<seen, young, period>>
local  == <<st, cur, size, source, rows, todo, window>>
vars   == <<world, dbUp, outages, offsets, tables, run, pc, local, dropped>>

Occurrence  == 1..MaxLines
OffsetState == [inode : Nat, offset : Nat]
ZeroOffset  == [inode |-> 0, offset |-> 0]
NoRow       == [absent |-> TRUE]
Corrupt     == [corrupt |-> TRUE]
NewStats    == [total |-> 0, failed |-> 0, successful |-> 0,
                first |-> 0, last |-> 0]

Size == written - log.base

Init ==
    /\ text \in [Occurrence -> Line]
    /\ written = 0
    /\ log = [present |-> TRUE, inode |-> 1, base |-> 0]
    /\ rotations = 0
    /\ truncated = FALSE
    /\ dbUp \in BOOLEAN
    /\ outages = (IF dbUp THEN 0 ELSE 1)
    /\ dbRow = NoRow
    /\ jsonRow = NoRow
    /\ events = {}
    /\ inserts = 0
    /\ stats = [w \in Attacker |-> NewStats]
    /\ run = 1
    /\ pc = "idle"
    /\ st = ZeroOffset
    /\ cur = 0
    /\ size = 0
    /\ source = "none"
    /\ rows = {}
    /\ todo = {}
    /\ seen = {}
    /\ young = {}
    /\ period = [l \in Line |-> 1]
    /\ dropped = {}

-----------------------------------------------------------------------------
(* The log, logrotate and the database: none of them waits for the daemon. *)

WriteLine ==
    /\ log.present
    /\ written < MaxLines
    /\ written' = written + 1
    /\ UNCHANGED <<text, log, rotations, truncated, dbUp, outages, offsets,
                   tables, run, pc, local, dropped>>

\* rename: the path is empty until the new file is created
RenameAway ==
    /\ log.present
    /\ rotations < MaxRotations
    /\ log' = [log EXCEPT !.present = FALSE]
    /\ rotations' = rotations + 1
    /\ UNCHANGED <<text, written, truncated, dbUp, outages, offsets, tables,
                   run, pc, local, dropped>>

\* create: a new inode; the rotated file still exists, so it is a fresh one
Recreate ==
    /\ ~log.present
    /\ log' = [present |-> TRUE, inode |-> log.inode + 1, base |-> written]
    /\ UNCHANGED <<text, written, rotations, truncated, dbUp, outages, offsets,
                   tables, run, pc, local, dropped>>

\* copytruncate, or an operator: the same inode, emptied
Truncate ==
    /\ log.present
    /\ rotations < MaxRotations
    /\ log' = [log EXCEPT !.base = written]
    /\ rotations' = rotations + 1
    /\ truncated' = TRUE
    /\ UNCHANGED <<text, written, dbUp, outages, offsets, tables, run, pc,
                   local, dropped>>

DatabaseFails ==
    /\ dbUp
    /\ outages < MaxOutages
    /\ dbUp' = FALSE
    /\ outages' = outages + 1
    /\ UNCHANGED <<world, offsets, tables, run, pc, local, dropped>>

DatabaseReturns ==
    /\ ~dbUp
    /\ dbUp' = TRUE
    /\ UNCHANGED <<world, outages, offsets, tables, run, pc, local, dropped>>

-----------------------------------------------------------------------------
(* One cycle of ingest().                                                  *)

\* Mutant: a truncated JSON file is taken for a state.
LoadOffsetUnchecked ==
    /\ pc = "idle"
    /\ st' = IF dbUp /\ dbRow # NoRow THEN dbRow
             ELSE IF jsonRow # NoRow THEN jsonRow ELSE ZeroOffset
    /\ pc' = "locate"
    /\ UNCHANGED <<world, dbUp, outages, offsets, tables, run, cur, size,
                   source, rows, todo, window, dropped>>

\* load_offset: the database row if it can be had, else the JSON file
LoadOffset ==
    /\ pc = "idle"
    /\ st' = IF dbUp /\ dbRow # NoRow THEN dbRow
             ELSE IF jsonRow \notin {NoRow, Corrupt} THEN jsonRow
             ELSE ZeroOffset
    /\ pc' = "locate"
    /\ UNCHANGED <<world, dbUp, outages, offsets, tables, run, cur, size,
                   source, rows, todo, window, dropped>>

\* os.path.isfile: the file, else the journal, else give the cycle up
LocateLog ==
    /\ pc = "locate"
    /\ pc' = IF log.present THEN "stat"
             ELSE IF JournalFallback THEN "journal" ELSE "idle"
    /\ UNCHANGED <<world, dbUp, outages, offsets, tables, run, local, dropped>>

\* Mutant: the rotation test is missing.
StatInodeUntested ==
    /\ pc = "stat"
    /\ cur' = IF log.present THEN log.inode ELSE 0
    /\ pc' = "measure"
    /\ UNCHANGED <<world, dbUp, outages, offsets, tables, run, st, size, source,
                   rows, todo, window, dropped>>

\* get_file_inode, and the rotation test against the loaded state
StatInode ==
    /\ pc = "stat"
    /\ LET inode == IF log.present THEN log.inode ELSE 0
       IN  /\ cur' = inode
           /\ st' = IF inode # st.inode THEN [st EXCEPT !.offset = 0] ELSE st
    /\ pc' = "measure"
    /\ UNCHANGED <<world, dbUp, outages, offsets, tables, run, size, source,
                   rows, todo, window, dropped>>

\* os.path.getsize: a file that has gone ends the read with no lines
Measure ==
    /\ pc = "measure"
    /\ source' = "auth.log"
    /\ IF log.present
       THEN /\ size' = Size
            /\ pc' = "read"
            /\ UNCHANGED st
       ELSE /\ pc' = "save_db"
            /\ st' = [st EXCEPT !.inode = cur]
            /\ UNCHANGED size
    /\ UNCHANGED <<world, dbUp, outages, offsets, tables, run, cur, rows, todo,
                   window, dropped>>

\* the lines of a batch that some pattern of the parser matches
Recognised(batch) == {n \in batch : EventType[text[n]] # "none"}

\* the call for line n finds the dictionary larger than max_entries
Outgrown(batch, n) ==
    Cardinality(seen \cup {text[m] : m \in {k \in Recognised(batch) : k < n}})
        > MaxEntries

\* Mutant: _prune deletes the fresh keys and keeps the stale ones.
RememberedStale(batch, n) == IF Outgrown(batch, n) THEN seen \ young ELSE seen

\* the keys of earlier batches is_duplicate still holds at line n: _prune, called
\* when the dictionary has outgrown max_entries, leaves those of the window
Remembered(batch, n) == IF Outgrown(batch, n) THEN young ELSE seen

Unremembered(batch) ==
    {n \in Recognised(batch) : text[n] \notin Remembered(batch, n)}

\* Mutant: a batch is compared with itself only, not with earlier cycles.
FreshInBatch(batch) ==
    {n \in Recognised(batch) :
        \A m \in Recognised(batch) : m < n => text[m] # text[n]}

\* Mutant: a batch is compared with earlier cycles only, not with itself.
FreshAcrossCycles(batch) == Unremembered(batch)

\* the lines is_duplicate lets pass: of a text the window does not hold, the
\* first (a batch is parsed in less than window_seconds)
Fresh(batch) ==
    {n \in Unremembered(batch) :
        \A m \in Unremembered(batch) : m < n => text[m] # text[n]}

RowAt(n, type) == [at |-> n, type |-> type, period |-> period[text[n]]]

\* normalize_events: one row each, and a login.root row for a login of root
Normalized(batch) ==
         {RowAt(n, EventType[text[n]]) : n \in Fresh(batch)}
    \cup {RowAt(n, "login.root") :
             n \in {m \in Fresh(batch) : text[m] \in RootLogin}}

\* parse_lines and normalize_events on a batch, which change only memory
Parse(batch) ==
    /\ rows' = Normalized(batch)
    /\ LET pruned == \E n \in Recognised(batch) : Outgrown(batch, n)
           passed == {text[n] : n \in Fresh(batch)}
       IN  /\ seen' = (IF pruned THEN young ELSE seen) \cup passed
           /\ young' = young \cup passed
    /\ UNCHANGED period

\* texts leave the window: what they say may be let pass once more
Forget(S) ==
    /\ young' = young \ S
    /\ period' = [l \in Line |-> IF l \in S THEN period[l] + 1 ELSE period[l]]

\* window_seconds have gone by since a text was let pass.  Its key stays in the
\* dictionary until some call prunes it.  Texts may leave in any order.
Age ==
    /\ \E l \in young :
          /\ period[l] < MaxPeriods
          /\ Forget({l})
    /\ UNCHANGED <<world, dbUp, outages, offsets, tables, run, pc, st, cur, size,
                   source, rows, todo, seen, dropped>>

\* open, seek, read to the end, tell; st is set as it will be saved
ReadFile ==
    /\ pc = "read"
    /\ LET from  == IF size < st.offset THEN 0 ELSE st.offset
           batch == (log.base + from + 1)..written
       IN  IF log.present
           THEN /\ st' = [inode |-> cur,
                          offset |-> IF from > Size THEN from ELSE Size]
                /\ Parse(batch)
                /\ pc' = IF batch = {} THEN "save_db" ELSE "store"
           ELSE /\ st' = [inode |-> cur, offset |-> from]
                /\ pc' = "save_db"
                /\ UNCHANGED <<rows, window>>
    /\ UNCHANGED <<world, dbUp, outages, offsets, tables, run, cur, size,
                   source, todo, dropped>>

\* read_journal: the lines of the last since_seconds, however many those are
ReadJournal ==
    /\ pc = "journal"
    /\ source' = "journalctl"
    /\ \E k \in 0..written :
          /\ Parse((k + 1)..written)
          /\ pc' = IF k = written THEN "idle" ELSE "store"
    /\ UNCHANGED <<world, dbUp, outages, offsets, tables, run, st, cur, size,
                   todo, dropped>>

AfterStore == IF source = "auth.log" THEN "save_db" ELSE "idle"

Drop == dropped' = dropped \cup {text[r.at] : r \in rows}

\* _db_available before the insert: without it the rows are only logged
CheckDatabase ==
    /\ pc = "store"
    /\ IF dbUp
       THEN /\ pc' = "insert"
            /\ UNCHANGED <<dropped, rows>>
       ELSE /\ pc' = AfterStore
            /\ Drop
            /\ rows' = {}
    /\ UNCHANGED <<world, dbUp, outages, offsets, tables, run, st, cur, size,
                   source, todo, window>>

\* _insert_events: one statement for the batch, refused as a whole if one
\* row has no timestamp; the exception is swallowed either way
InsertEvents ==
    /\ pc = "insert"
    /\ IF dbUp /\ \A r \in rows : text[r.at] \in Dated
       THEN /\ events' = events \cup
                  {[at |-> r.at, type |-> r.type, period |-> r.period,
                    stmt |-> inserts + 1] : r \in rows}
            /\ inserts' = IF rows = {} THEN inserts ELSE inserts + 1
            /\ UNCHANGED dropped
       ELSE /\ Drop
            /\ UNCHANGED <<events, inserts>>
    /\ pc' = "failures"
    /\ UNCHANGED <<world, dbUp, outages, offsets, stats, run, local>>

RowsOf(type) == {r \in rows : r.type = type}

\* _update_attacker_stats: nothing without the database
BeginFailures ==
    /\ pc = "failures"
    /\ todo' = IF dbUp THEN RowsOf("login.failure") ELSE {}
    /\ pc' = "count_failures"
    /\ UNCHANGED <<world, dbUp, outages, offsets, tables, run, st, cur, size,
                   source, rows, window, dropped>>

\* INSERT ... ON DUPLICATE KEY UPDATE of one row of attacker_stats
Upsert(s, at, type) ==
    [total      |-> s.total + 1,
     failed     |-> s.failed + (IF type = "login.failure" THEN 1 ELSE 0),
     successful |-> s.successful + (IF type = "login.success" THEN 1 ELSE 0),
     first      |-> IF s.total = 0 THEN at ELSE s.first,
     last       |-> IF s.total = 0 \/ at > s.last THEN at ELSE s.last]

\* one upsert in log order; its failure is swallowed
Count ==
    /\ pc \in {"count_failures", "count_successes"}
    /\ \E r \in todo :
          /\ \A q \in todo : r.at <= q.at
          /\ todo' = todo \ {r}
          /\ stats' = IF dbUp /\ text[r.at] \in Dated
                      THEN [stats EXCEPT ![Who[text[r.at]]] =
                               Upsert(@, r.at, r.type)]
                      ELSE stats
    /\ UNCHANGED <<world, dbUp, outages, offsets, events, inserts, run, pc, st,
                   cur, size, source, rows, window, dropped>>

\* _update_attacker_stats_success
BeginSuccesses ==
    /\ pc = "count_failures"
    /\ todo = {}
    /\ todo' = IF dbUp THEN RowsOf("login.success") ELSE {}
    /\ pc' = "count_successes"
    /\ UNCHANGED <<world, dbUp, outages, offsets, tables, run, st, cur, size,
                   source, rows, window, dropped>>

EndCounting ==
    /\ pc = "count_successes"
    /\ todo = {}
    /\ pc' = AfterStore
    /\ rows' = {}
    /\ UNCHANGED <<world, dbUp, outages, offsets, tables, run, st, cur, size,
                   source, todo, window, dropped>>

\* save_offset, first backend: best effort
SaveToDb ==
    /\ pc = "save_db"
    /\ dbRow' = IF dbUp THEN st ELSE dbRow
    /\ pc' = "save_json"
    /\ UNCHANGED <<world, dbUp, outages, jsonRow, tables, run, local,
                   dropped>>

\* save_offset, second backend
SaveToJson ==
    /\ pc = "save_json"
    /\ jsonRow' = st
    /\ pc' = "idle"
    /\ UNCHANGED <<world, dbUp, outages, dbRow, tables, run, local, dropped>>

Cycle ==
    \/ LoadOffset \/ LocateLog \/ StatInode \/ Measure \/ ReadFile \/ ReadJournal
    \/ CheckDatabase \/ InsertEvents \/ BeginFailures \/ Count \/ BeginSuccesses
    \/ EndCounting \/ SaveToDb \/ SaveToJson

-----------------------------------------------------------------------------
(* A kill of the daemon loses its memory, and the JSON file it was writing *)
(* (opened for writing, so emptied first).                                 *)

Crash ==
    /\ pc # "down"
    /\ run < MaxRuns
    /\ pc' = "down"
    /\ jsonRow' \in (IF pc = "save_json" THEN {jsonRow, Corrupt} ELSE {jsonRow})
    /\ st' = ZeroOffset
    /\ cur' = 0
    /\ size' = 0
    /\ source' = "none"
    /\ rows' = {}
    /\ todo' = {}
    /\ seen' = {}
    /\ Forget(young)
    /\ UNCHANGED <<world, dbUp, outages, dbRow, tables, run, dropped>>

Restart ==
    /\ pc = "down"
    /\ pc' = "idle"
    /\ run' = run + 1
    /\ UNCHANGED <<world, dbUp, outages, offsets, tables, local, dropped>>

Next ==
    \/ WriteLine \/ RenameAway \/ Recreate \/ Truncate
    \/ DatabaseFails \/ DatabaseReturns
    \/ Age
    \/ Cycle
    \/ Crash \/ Restart

Spec == Init /\ [][Next]_vars

\* The scheduler calls ingest() for ever, the daemon is started again after a
\* kill, and logrotate creates the file it has renamed.
FairSpec == Spec /\ WF_vars(Cycle) /\ WF_vars(Restart) /\ WF_vars(Recreate)

-----------------------------------------------------------------------------
(* Properties                                                              *)

Phases == {"idle", "locate", "stat", "measure", "read", "journal", "store",
           "insert", "failures", "count_failures", "count_successes",
           "save_db", "save_json", "down"}

RowTypes == {"login.failure", "login.success", "session.open", "login.root"}
Row      == [at : Occurrence, type : RowTypes, period : Nat \ {0}]
EventRow == [at : Occurrence, type : RowTypes, period : Nat \ {0}, stmt : Nat]
StatsRow == [total : Nat, failed : Nat, successful : Nat, first : Nat,
             last : Nat]

\* Every variable stays in its domain.
TypeOK ==
    /\ text \in [Occurrence -> Line]
    /\ written \in 0..MaxLines
    /\ log \in [present : BOOLEAN, inode : Nat, base : 0..MaxLines]
    /\ log.base <= written
    /\ rotations \in Nat
    /\ truncated \in BOOLEAN
    /\ dbUp \in BOOLEAN
    /\ outages \in Nat
    /\ dbRow \in OffsetState \cup {NoRow}
    /\ jsonRow \in OffsetState \cup {NoRow, Corrupt}
    /\ events \subseteq EventRow
    /\ inserts \in Nat
    /\ stats \in [Attacker -> StatsRow]
    /\ run \in Nat
    /\ pc \in Phases
    /\ st \in OffsetState
    /\ cur \in Nat
    /\ size \in Nat
    /\ source \in {"none", "auth.log", "journalctl"}
    /\ rows \subseteq Row
    /\ todo \subseteq Row
    /\ seen \subseteq Line
    /\ young \subseteq seen
    /\ period \in [Line -> Nat \ {0}]
    /\ dropped \subseteq Line

\* A line is settled when it says nothing, when an event with its text is in
\* the table, or when such an event was lost to the database.
Settled(n) ==
    \/ EventType[text[n]] = "none"
    \/ \E e \in events : text[e.at] = text[n]
    \/ text[n] \in dropped

Saved == {dbRow, jsonRow} \ {NoRow, Corrupt}

\* No saved position of the current file, in either backend, stale or not,
\* covers a line that does not exist yet or is not settled.
SavedIsCovered ==
    \A r \in Saved :
        r.inode = log.inode =>
            \A n \in (log.base + 1)..(log.base + r.offset) :
                n <= written /\ Settled(n)

\* The position is saved after the events (ingest, step 7 after step 5): as
\* long as rotation renames the file and does not truncate it in place, no
\* crash, outage or rotation between the steps makes a saved position cover
\* lines that were not ingested.
SavedIsSettled == ~truncated => SavedIsCovered

\* The dedup window is what stands between a position that is read again and a
\* second row: however often the file, a stale position or the journal hands the
\* same text to the daemon, it is stored once until window_seconds have gone by
\* since it was let pass, or the daemon was started anew, also when _prune has
\* cut the dictionary meanwhile.
StoredOncePerWindow ==
    \A e, f \in events :
        (e.period = f.period /\ e.type = f.type /\ text[e.at] = text[f.at]) => e = f

\* what the texts of an attacker may have been let pass for: each text once per
\* period
Passes(w, type) ==
    UNION {{l} \X (1..period[l]) : l \in {k \in Line : Who[k] = w /\ EventType[k] = type}}

\* attacker_stats count what passed the dedup window: an attacker's attempts
\* are the sum of failures and successes, were first seen before they were last
\* seen, and each distinct text of that attacker counts at most once until
\* window_seconds have gone by or the daemon was started anew.
StatsAreDeduplicated ==
    \A w \in Attacker :
        /\ stats[w].total = stats[w].failed + stats[w].successful
        /\ stats[w].first <= stats[w].last
        /\ stats[w].failed <= Cardinality(Passes(w, "login.failure"))
        /\ stats[w].successful <= Cardinality(Passes(w, "login.success"))

\* Every logged line is settled in the end, unless its file is rotated away
\* before the daemon has read it, or some file is truncated in place.
EventuallySettled ==
    \A n \in Occurrence :
        (n <= written) ~> (Settled(n) \/ n <= log.base \/ truncated)

\* The abstract table: what the rows say instead of where they stand.
Table == {[line |-> text[e.at], type |-> e.type, period |-> e.period,
           id |-> <<e.stmt, e.at>>] : e \in events}

Abstract == INSTANCE EventTable WITH table <- Table

\* Rows are only added, and never a message twice in one period of its text:
\* every step of the cycle is a step of EventTable or leaves it alone.
ImplementsEventTable == Abstract!ASpec

-----------------------------------------------------------------------------
(* The invariants the proofs carry through every step                      *)

\* rows that have been normalized but not yet handed to the database
Pending(l) == pc \in {"store", "insert"} /\ \E r \in rows : text[r.at] = l

SettledText(l) ==
    \/ EventType[l] = "none"
    \/ \E e \in events : text[e.at] = l
    \/ l \in dropped

\* what was let pass in the current period of a text is still in the window
InWindow(r) ==
    /\ r.period <= period[text[r.at]]
    /\ r.period = period[text[r.at]] => text[r.at] \in young

\* The rows of the table and the pending ones were let pass in past periods, or
\* are in the window; the pending rows are different and new to the table.
DedupInv ==
    /\ \A e \in events : InWindow(e)
    /\ StoredOncePerWindow
    /\ pc \in {"store", "insert"} =>
          /\ \A r \in rows : InWindow(r)
          /\ \A r, q \in rows :
                (r.type = q.type /\ text[r.at] = text[q.at]) => r = q
          /\ \A r \in rows, e \in events :
                e.period = r.period => text[e.at] # text[r.at]

\* While no file is truncated in place:
\* positions carry inodes that exist already; everything the window has seen is
\* settled or about to be; and so is what the working position covers.
OffsetInv ==
    /\ \A r \in Saved \cup {st} : r.inode <= log.inode
    /\ cur <= log.inode
    /\ pc \in {"measure", "read"} => (st.inode = cur \/ st.offset = 0)
    /\ \A l \in seen : SettledText(l) \/ Pending(l)
    /\ SavedIsCovered
    /\ st.inode = log.inode =>
          \A n \in (log.base + 1)..(log.base + st.offset) :
              n <= written /\ (Settled(n) \/ Pending(text[n]))
=============================================================================
