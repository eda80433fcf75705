--------------------------------- MODULE Daemon ---------------------------------
(***************************************************************************)
(* The background daemon (modules/daemon/scheduler.py): the pid file that  *)
(* is to keep it single, its loop over the periodic tasks, its signals,    *)
(* and the panel that starts it and reports on it (sec_mon_main.py).       *)
(*                                                                         *)
(* Every process of the machine is known by its pid, and a pid is used     *)
(* again once its process is gone, by a daemon or by anything else.  Each  *)
(* access to the pid file is a step of its own.  Pids are written with the *)
(* same number of digits, so that of two overlapping writes the later one  *)
(* stands.                                                                 *)
(***************************************************************************)
EXTENDS Naturals

CONSTANTS
    Pid,
    NoFile,   \* there is no pid file
    Empty,    \* it has been opened for writing and holds nothing
    Tasks,    \* how many tasks: fast, medium, slow and daily
    Interval, \* [task -> its interval], in ticks
    Longest   \* bound: times beyond it are not told apart

Task == 1..Tasks

ASSUME DaemonAssumption ==
    /\ Tasks \in Nat
    /\ Longest \in Nat
    /\ Interval \in [Task -> 1..Longest]
    /\ NoFile \notin Pid /\ Empty \notin Pid /\ NoFile # Empty

VARIABLES
    file,    \* the pid file: NoFile, Empty or the pid in it
    pc,      \* what the process of each pid is doing
    old,     \* old_pid, as each process has read it
    running, \* _running of each daemon
    task,    \* the task each daemon's loop looks at
    age,     \* [daemon -> [task -> now - last_<task>, up to the task's interval]]
    spent,   \* time since each daemon's loop has read its "now", up to Longest
    raced    \* two daemons have been starting at once

memory == <<old, running, task, age, spent>>
vars   == <<file, pc, memory, raced>>

\* "other" is a process that is no daemon.
Starting == {"isfile", "read", "probe", "create", "write"}
Active   == {"loop", "tasks", "run", "remove"}
Step     == Starting \cup Active \cup {"dead", "other"}

Capped(time, bound) == IF time <= bound THEN time ELSE bound

Init ==
    /\ file = NoFile
    /\ pc = [p \in Pid |-> "dead"]
    /\ old = [p \in Pid |-> p]
    /\ running = [p \in Pid |-> TRUE]
    /\ task = [p \in Pid |-> 1]
    /\ age = [p \in Pid |-> Interval]
    /\ spent = [p \in Pid |-> 0]
    /\ raced = FALSE

Become(p, step) == pc' = [pc EXCEPT ![p] = step]

\* The process ends, and its memory with it.
End(p) ==
    /\ Become(p, "dead")
    /\ old' = [old EXCEPT ![p] = p]
    /\ running' = [running EXCEPT ![p] = TRUE]
    /\ task' = [task EXCEPT ![p] = 1]
    /\ age' = [age EXCEPT ![p] = Interval]
    /\ spent' = [spent EXCEPT ![p] = 0]

-----------------------------------------------------------------------------
(* Startup                                                                 *)

\* api_daemon_start, or a user: whatever is running, a process is created.  With
\* every last_<task> = 0 all tasks are due.
Start(p) ==
    /\ pc[p] = "dead"
    /\ Become(p, "isfile")
    /\ raced' = (raced \/ \E q \in Pid : pc[q] \in Starting)
    /\ UNCHANGED <<file, memory>>

IsFile(p) ==
    /\ pc[p] = "isfile"
    /\ Become(p, IF file = NoFile THEN "create" ELSE "read")
    /\ UNCHANGED <<file, memory, raced>>

\* Mutant: what the file holds is taken for a pid.
ReadUnparsed(p) ==
    /\ pc[p] = "read"
    /\ old' = [old EXCEPT ![p] = file]
    /\ Become(p, "probe")
    /\ UNCHANGED <<file, running, task, age, spent, raced>>

\* A file that has gone, or holds no number, counts as none.
Read(p) ==
    /\ pc[p] = "read"
    /\ \/ /\ file \in Pid
          /\ old' = [old EXCEPT ![p] = file]
          /\ Become(p, "probe")
       \/ /\ file \notin Pid
          /\ Become(p, "create")
          /\ UNCHANGED old
    /\ UNCHANGED <<file, running, task, age, spent, raced>>

\* os.kill(q, 0)
Alive(q) == pc[q] # "dead"

\* Mutant: a daemon that is at work does not answer.
ProbeIdle(p) ==
    /\ pc[p] = "probe"
    /\ \/ /\ pc[old[p]] \in {"loop", "other"}
          /\ End(p)
       \/ /\ pc[old[p]] \notin {"loop", "other"}
          /\ Become(p, "create")
          /\ UNCHANGED memory
    /\ UNCHANGED <<file, raced>>

\* The process may be the daemon, this one or any other that has the pid now.
Probe(p) ==
    /\ pc[p] = "probe"
    /\ \/ /\ Alive(old[p])
          /\ End(p)
       \/ /\ ~Alive(old[p])
          /\ Become(p, "create")
          /\ UNCHANGED memory
    /\ UNCHANGED <<file, raced>>

Create(p) ==
    /\ pc[p] = "create"
    /\ file' = Empty
    /\ Become(p, "write")
    /\ UNCHANGED <<memory, raced>>

\* Mutant: the file is written when the process ends.
WriteUnflushed(p) ==
    /\ pc[p] = "write"
    /\ Become(p, "loop")
    /\ UNCHANGED <<file, memory, raced>>

Write(p) ==
    /\ pc[p] = "write"
    /\ file' = p
    /\ Become(p, "loop")
    /\ UNCHANGED <<memory, raced>>

-----------------------------------------------------------------------------
(* The loop                                                                *)

\* now = time.time()
ReadClock(p) ==
    /\ age' = [age EXCEPT ![p] =
                 [t \in Task |-> Capped(age[p][t] + spent[p], Interval[t])]]
    /\ spent' = [spent EXCEPT ![p] = 0]
    /\ task' = [task EXCEPT ![p] = 1]

\* Mutant: while True
LoopForever(p) ==
    /\ pc[p] = "loop"
    /\ Become(p, "tasks")
    /\ ReadClock(p)
    /\ UNCHANGED <<file, old, running, raced>>

\* while _running
Loop(p) ==
    /\ pc[p] = "loop"
    /\ \/ /\ running[p]
          /\ Become(p, "tasks")
          /\ ReadClock(p)
       \/ /\ ~running[p]
          /\ Become(p, "remove")
          /\ UNCHANGED <<task, age, spent>>
    /\ UNCHANGED <<file, old, running, raced>>

\* One of the four ifs; behind the last of them the loop sleeps.
NextTask(p) ==
    /\ pc[p] = "tasks"
    /\ \/ /\ task[p] \in Task /\ age[p][task[p]] >= Interval[task[p]]
          /\ Become(p, "run")
          /\ UNCHANGED task
       \/ /\ task[p] \in Task /\ age[p][task[p]] < Interval[task[p]]
          /\ task' = [task EXCEPT ![p] = @ + 1]
          /\ UNCHANGED pc
       \/ /\ task[p] \notin Task
          /\ Become(p, "loop")
          /\ UNCHANGED task
    /\ UNCHANGED <<file, old, running, age, spent, raced>>

\* Mutant: one last_<task> for all.
RanAll(p) == [t \in Task |-> 0]

\* last_<task> = now
Ran(p) == [age[p] EXCEPT ![task[p]] = 0]

\* A task ends, whatever went wrong in it: each catches its exceptions.
EndTask(p) ==
    /\ pc[p] = "run"
    /\ Become(p, "tasks")
    /\ age' = [age EXCEPT ![p] = Ran(p)]
    /\ task' = [task EXCEPT ![p] = @ + 1]
    /\ UNCHANGED <<file, old, running, spent, raced>>

\* finally: the file is removed, whoever wrote it, and the process ends
Remove(p) ==
    /\ pc[p] = "remove"
    /\ file' = NoFile
    /\ End(p)
    /\ UNCHANGED raced

-----------------------------------------------------------------------------
(* The machine                                                             *)

\* SIGTERM or SIGINT
Signal(p) ==
    /\ pc[p] \in Starting \cup Active
    /\ running' = [running EXCEPT ![p] = FALSE]
    /\ UNCHANGED <<file, pc, old, task, age, spent, raced>>

\* SIGKILL, a crash or a power failure: nothing is cleaned up
Die(p) ==
    /\ pc[p] # "dead"
    /\ End(p)
    /\ UNCHANGED <<file, raced>>

\* another program gets the pid
Recycle(p) ==
    /\ pc[p] = "dead"
    /\ Become(p, "other")
    /\ UNCHANGED <<file, memory, raced>>

\* Time counts for the daemons at work.
Tick ==
    /\ spent' = [p \in Pid |->
                    IF pc[p] \in Active THEN Capped(spent[p] + 1, Longest) ELSE spent[p]]
    /\ UNCHANGED <<file, pc, old, running, task, age, raced>>

StartUp(p) == IsFile(p) \/ Read(p) \/ Probe(p) \/ Create(p) \/ Write(p)
Work(p)    == Loop(p) \/ NextTask(p) \/ EndTask(p) \/ Remove(p)

Next ==
    \/ \E p \in Pid :
          \/ Start(p) \/ StartUp(p) \/ Work(p)
          \/ Signal(p) \/ Die(p) \/ Recycle(p)
    \/ Tick

Spec == Init /\ [][Next]_vars

\* Processes are scheduled, time passes, and tasks end: their subprocesses and
\* their database connections have time limits.
FairSpec ==
    /\ Spec
    /\ \A p \in Pid : WF_vars(StartUp(p)) /\ WF_vars(Work(p))
    /\ WF_vars(Tick)

-----------------------------------------------------------------------------
(* Properties                                                              *)

TypeOK ==
    /\ file \in Pid \cup {NoFile, Empty}
    /\ pc \in [Pid -> Step]
    /\ old \in [Pid -> Pid]
    /\ running \in [Pid -> BOOLEAN]
    /\ task \in [Pid -> 1..(Tasks + 1)]
    /\ age \in [Pid -> [Task -> 0..Longest]]
    /\ spent \in [Pid -> 0..Longest]
    /\ raced \in BOOLEAN

\* There is one daemon, whatever dies, is started again or gets a daemon's pid,
\* unless two were starting at once; between _is_already_running and _write_pid
\* nothing keeps them apart.
OneDaemon ==
    ~raced => \A p, q \in Pid : (pc[p] \in Active /\ pc[q] \in Active) => p = q

\* what api_daemon_status reports
Reported == file \in Pid /\ Alive(file)

\* The panel reports a daemon exactly when there is one, unless one is starting,
\* two were starting at once, or the pid of a daemon that died now belongs to
\* another program.
StatusIsRight ==
    (/\ ~raced
     /\ \A p \in Pid : pc[p] \notin Starting
     /\ file \in Pid => pc[file] # "other") =>
        (Reported <=> \E p \in Pid : pc[p] \in Active)

\* A daemon that is told to stop stops, after the tasks of its iteration.
StopsWhenTold ==
    \A p \in Pid : (pc[p] \in Active /\ ~running[p]) ~> (pc[p] \notin Active)

\* No task starves, however long the others take: while the daemon runs, each
\* task is run again and again.
EveryTaskRuns ==
    \A p \in Pid, t \in Task :
        (pc[p] = "loop" /\ running[p]) ~>
            \/ pc[p] = "run" /\ task[p] = t
            \/ pc[p] \notin Active
            \/ ~running[p]
=============================================================================
