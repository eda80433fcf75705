-------------------------------- MODULE Config --------------------------------
(***************************************************************************)
(* The configuration (lib/config.py) in the panel's process, whose         *)
(* requests save a setting and reload the file, or reload it alone         *)
(* (sec_mon_main.py, api_save_config and api_reload_config).  Requests run *)
(* in threads that share the one instance, its mutex and the file.         *)
(*                                                                         *)
(* The instance is made while the modules are imported (lib/logger.py asks *)
(* for it), before there is a second thread.  A dotted key is one of Key,  *)
(* and the default of a key that has none is a value like any other.       *)
(***************************************************************************)
EXTENDS Naturals

CONSTANTS
    Thread,   \* of the panel that serve requests
    NoThread,
    Key,      \* dotted keys
    Value,
    Default,  \* [Key -> Value]: config/default.json
    Torn,     \* a config.json that is no JSON: emptied, or half written
    MaxFaults \* bound: saves that fail and kills of the process

ASSUME ConfigAssumption ==
    /\ Default \in [Key -> Value]
    /\ NoThread \notin Thread
    /\ MaxFaults \in Nat

Settings == [Key -> Value]
\* what a config.json that can be read may hold; a file that is absent holds nothing
Overrides == UNION {[S -> Value] : S \in SUBSET Key}

ASSUME TornAssumption == Torn \notin Overrides

VARIABLES
    file,  \* config.json
    data,  \* _data
    mutex, \* _mutex: the thread that holds it
    pc,    \* where each thread stands
    read,  \* merged, as each thread's reload has read it
    faults,
    acked, \* observer: the settings as the saves have set them
    cut,   \* observer: a save has failed or was killed
    overlapped \* observer: a reload and a save of two threads have overlapped

observers == <<acked, cut, overlapped>>
vars == <<file, data, mutex, pc, read, faults, observers>>

\* Mutant: the file replaces the defaults.
MergedShallow(f) == IF f # Torn THEN f ELSE Default

\* _deep_merge of the defaults with what json.load makes of the file.  A key is the
\* path of a setting that is no dict ("daemon.pid_file"): dicts are merged key by
\* key, so that each of these is the file's or the default, and a dict that replaces
\* a plain value, or the other way round, is left out.
Merged(f) == [k \in Key |-> IF f # Torn /\ k \in DOMAIN f THEN f[k] ELSE Default[k]]

Init ==
    /\ file \in Overrides
    /\ data = Merged(file)
    /\ mutex = NoThread
    /\ pc = [t \in Thread |-> "idle"]
    /\ read = [t \in Thread |-> Default]
    /\ faults = 0
    /\ acked = data
    /\ cut = FALSE
    /\ overlapped = FALSE

GoTo(t, step) == pc' = [pc EXCEPT ![t] = step]

-----------------------------------------------------------------------------
(* set: under the mutex, memory first, then the file                       *)

\* Mutant: the mutex is released before the file is written.
SetUnlocked(t) ==
    /\ pc[t] = "idle"
    /\ mutex = NoThread
    /\ \E k \in Key, v \in Value :
          /\ data' = [data EXCEPT ![k] = v]
          /\ acked' = [acked EXCEPT ![k] = v]
    /\ file' = Torn
    /\ GoTo(t, "persist")
    /\ overlapped' = (overlapped \/ \E u \in Thread : pc[u] = "assign")
    /\ UNCHANGED <<mutex, read, faults, cut>>

\* open(CONFIG_PATH, "w") empties the file.
Set(t) ==
    /\ pc[t] = "idle"
    /\ mutex = NoThread
    /\ mutex' = t
    /\ \E k \in Key, v \in Value :
          /\ data' = [data EXCEPT ![k] = v]
          /\ acked' = [acked EXCEPT ![k] = v]
    /\ file' = Torn
    /\ GoTo(t, "persist")
    /\ overlapped' = (overlapped \/ \E u \in Thread : pc[u] = "assign")
    /\ UNCHANGED <<read, faults, cut>>

\* json.dump of all of _data, close, and the mutex is released; then
\* api_save_config reloads.
Persist(t) ==
    /\ pc[t] = "persist"
    /\ file' = data
    /\ mutex' = NoThread
    /\ GoTo(t, "reload")
    /\ UNCHANGED <<data, read, faults, observers>>

\* The file cannot be opened, or not be written to its end: the setting stays
\* in memory and the request answers with the error.
Fail(t) ==
    /\ faults < MaxFaults
    /\ \/ /\ pc[t] = "idle" /\ mutex = NoThread
          /\ \E k \in Key, v \in Value : data' = [data EXCEPT ![k] = v]
       \/ /\ pc[t] = "persist"
          /\ UNCHANGED data
    /\ mutex' = NoThread
    /\ GoTo(t, "idle")
    /\ faults' = faults + 1
    /\ cut' = TRUE
    /\ UNCHANGED <<file, read, acked, overlapped>>

-----------------------------------------------------------------------------
(* reload: the file is read without the mutex                              *)

\* A file that is no JSON counts as none; one cut inside a character raises
\* UnicodeDecodeError, which ends the request.
Read(t) ==
    /\ pc[t] \in {"idle", "reload"}
    /\ \/ /\ read' = [read EXCEPT ![t] = Merged(file)]
          /\ GoTo(t, "assign")
       \/ /\ file = Torn
          /\ GoTo(t, "idle")
          /\ UNCHANGED read
    /\ overlapped' = (overlapped \/ mutex # NoThread)
    /\ UNCHANGED <<file, data, mutex, faults, acked, cut>>

Assign(t) ==
    /\ pc[t] = "assign"
    /\ mutex = NoThread
    /\ data' = read[t]
    /\ GoTo(t, "idle")
    /\ UNCHANGED <<file, mutex, read, faults, observers>>

\* The process is killed and started again.
Restart ==
    /\ faults < MaxFaults
    /\ faults' = faults + 1
    /\ data' = Merged(file)
    /\ mutex' = NoThread
    /\ pc' = [t \in Thread |-> "idle"]
    /\ read' = [t \in Thread |-> Default]
    /\ cut' = (cut \/ mutex # NoThread)
    /\ UNCHANGED <<file, acked, overlapped>>

Next ==
    \/ \E t \in Thread : Set(t) \/ Persist(t) \/ Fail(t) \/ Read(t) \/ Assign(t)
    \/ Restart

Spec == Init /\ [][Next]_vars

-----------------------------------------------------------------------------
(* Properties                                                              *)

TypeOK ==
    /\ file \in Overrides \cup {Torn}
    /\ data \in Settings
    /\ mutex \in Thread \cup {NoThread}
    /\ pc \in [Thread -> {"idle", "persist", "reload", "assign"}]
    /\ read \in [Thread -> Settings]
    /\ faults \in Nat
    /\ acked \in Settings
    /\ cut \in BOOLEAN
    /\ overlapped \in BOOLEAN

\* A setting that has been saved stays: it is in force, and whenever nobody
\* writes the file a reload or a restart finds it there, until it is saved
\* again, whichever others are saved in between.  Two things break that: a save
\* cut short, after which the file counts as none, and a reload that overlaps
\* another thread's save ("Thread-safe, merge-on-top configuration singleton",
\* config.py:29, does not cover it).
SettingsSurvive ==
    (~cut /\ ~overlapped) =>
        /\ data = acked
        /\ mutex = NoThread => Merged(file) = acked

\* What the proof carries: the settings that are being saved are those in
\* memory, and what a reload has read and not yet assigned are the same.
SavedInv ==
    (~cut /\ ~overlapped) =>
        /\ data = acked
        /\ mutex = NoThread => Merged(file) = acked
        /\ \A t \in Thread : pc[t] = "assign" => read[t] = acked
===============================================================================
