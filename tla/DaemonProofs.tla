------------------------------ MODULE DaemonProofs ------------------------------
(***************************************************************************)
(* Proofs about Daemon, for any number of processes and tasks: the pid     *)
(* file keeps the daemon single and tells the panel the truth, as long as  *)
(* no two daemons start at once.                                           *)
(***************************************************************************)
EXTENDS Daemon, TLAPS

-----------------------------------------------------------------------------
(* Types                                                                   *)

LEMMA EndTypes ==
    ASSUME TypeOK, NEW p \in Pid, End(p)
    PROVE  /\ pc' \in [Pid -> Step]
           /\ old' \in [Pid -> Pid]
           /\ running' \in [Pid -> BOOLEAN]
           /\ task' \in [Pid -> 1..(Tasks + 1)]
           /\ age' \in [Pid -> [Task -> 0..Longest]]
           /\ spent' \in [Pid -> 0..Longest]
<1>1. Interval \in [Task -> 0..Longest] /\ 1 \in 1..(Tasks + 1) /\ 0 \in 0..Longest
  BY DaemonAssumption
<1>2. "dead" \in Step
  BY DEF Step
<1> QED BY <1>1, <1>2 DEF End, Become, TypeOK

LEMMA CappedType ==
    ASSUME NEW n \in Nat, NEW b \in 0..Longest
    PROVE  Capped(n, b) \in 0..Longest
BY DaemonAssumption DEF Capped

LEMMA ReadClockTypes ==
    ASSUME TypeOK, NEW p \in Pid, ReadClock(p)
    PROVE  /\ task' \in [Pid -> 1..(Tasks + 1)]
           /\ age' \in [Pid -> [Task -> 0..Longest]]
           /\ spent' \in [Pid -> 0..Longest]
<1>1. ASSUME NEW t \in Task
      PROVE  Capped(age[p][t] + spent[p], Interval[t]) \in 0..Longest
  <2>1. age[p][t] + spent[p] \in Nat
    BY DaemonAssumption DEF TypeOK
  <2>2. Interval[t] \in 0..Longest
    BY DaemonAssumption
  <2> QED BY <2>1, <2>2, CappedType
<1>2. [t \in Task |-> Capped(age[p][t] + spent[p], Interval[t])] \in [Task -> 0..Longest]
  BY <1>1
<1>3. 1 \in 1..(Tasks + 1) /\ 0 \in 0..Longest
  BY DaemonAssumption
<1> QED BY <1>2, <1>3 DEF ReadClock, TypeOK

LEMMA TypeInit == Init => TypeOK
<1>1. Interval \in [Task -> 0..Longest] /\ 1 \in 1..(Tasks + 1) /\ 0 \in 0..Longest
  BY DaemonAssumption
<1>2. "dead" \in Step
  BY DEF Step
<1> SUFFICES ASSUME Init PROVE TypeOK
  OBVIOUS
<1>3. file \in Pid \cup {NoFile, Empty} /\ raced \in BOOLEAN
  BY DEF Init
<1>4. pc \in [Pid -> Step] /\ old \in [Pid -> Pid] /\ running \in [Pid -> BOOLEAN]
  BY <1>2 DEF Init
<1>5. /\ task \in [Pid -> 1..(Tasks + 1)]
      /\ spent \in [Pid -> 0..Longest]
  BY <1>1 DEF Init
<1>6. age \in [Pid -> [Task -> 0..Longest]]
  BY <1>1 DEF Init
<1> QED BY <1>3, <1>4, <1>5, <1>6 DEF TypeOK

\* A task is run only while the loop looks at one.
RunsTask == \A p \in Pid : pc[p] = "run" => task[p] \in Task

LEMMA RunsTaskStep == TypeOK /\ RunsTask /\ [Next]_vars => RunsTask'
<1> SUFFICES ASSUME TypeOK, RunsTask, [Next]_vars PROVE RunsTask'
  OBVIOUS
<1> USE DEF Become
<1>0. pc \in [Pid -> Step] /\ task \in [Pid -> 1..(Tasks + 1)]
  BY DEF TypeOK
<1>1. ASSUME NEW p \in Pid,
             \/ Start(p) \/ IsFile(p) \/ Read(p) \/ Create(p) \/ Write(p) \/ Recycle(p)
      PROVE  RunsTask'
  BY <1>0, <1>1 DEF Start, IsFile, Read, Create, Write, Recycle, memory, RunsTask
<1>2. ASSUME NEW p \in Pid, Probe(p) \/ Remove(p) \/ Die(p) PROVE RunsTask'
  BY <1>0, <1>2 DEF Probe, Remove, Die, End, memory, RunsTask
<1>3. ASSUME NEW p \in Pid, Loop(p) PROVE RunsTask'
  BY <1>0, <1>3 DEF Loop, ReadClock, RunsTask
<1>4. ASSUME NEW p \in Pid, NextTask(p) PROVE RunsTask'
  BY <1>0, <1>4 DEF NextTask, RunsTask
<1>5. ASSUME NEW p \in Pid, EndTask(p) PROVE RunsTask'
  BY <1>0, <1>5 DEF EndTask, RunsTask
<1>6. ASSUME NEW p \in Pid, Signal(p) PROVE RunsTask'
  BY <1>6 DEF Signal, RunsTask
<1>7. CASE Tick \/ UNCHANGED vars
  BY <1>7 DEF Tick, vars, memory, RunsTask
<1> QED
  BY <1>1, <1>2, <1>3, <1>4, <1>5, <1>6, <1>7 DEF Next, StartUp, Work

LEMMA TypeStep == TypeOK /\ RunsTask /\ [Next]_vars => TypeOK'
<1> SUFFICES ASSUME TypeOK, RunsTask, [Next]_vars PROVE TypeOK'
  OBVIOUS
<1> USE DEF Become
<1>1. ASSUME NEW p \in Pid, Start(p) PROVE TypeOK'
  BY <1>1 DEF Start, TypeOK, memory, Step, Starting
<1>2. ASSUME NEW p \in Pid, StartUp(p) PROVE TypeOK'
  <2>1. CASE IsFile(p)
    BY <2>1 DEF IsFile, TypeOK, memory, Step, Starting
  <2>2. CASE Read(p)
    <3>1. pc' \in [Pid -> Step]
      BY <2>2 DEF Read, TypeOK, Step, Starting
    <3>2. old' \in [Pid -> Pid]
      BY <2>2 DEF Read, TypeOK
    <3> QED BY <2>2, <3>1, <3>2 DEF Read, TypeOK
  <2>3. CASE Probe(p)
    <3>1. CASE End(p)
      BY <2>3, <3>1, EndTypes DEF Probe, TypeOK
    <3>2. CASE pc' = [pc EXCEPT ![p] = "create"] /\ UNCHANGED memory
      BY <2>3, <3>2 DEF Probe, TypeOK, memory, Step, Starting
    <3> QED BY <2>3, <3>1, <3>2 DEF Probe
  <2>4. CASE Create(p)
    BY <2>4 DEF Create, TypeOK, memory, Step, Starting
  <2>5. CASE Write(p)
    BY <2>5 DEF Write, TypeOK, memory, Step, Active
  <2> QED BY <1>2, <2>1, <2>2, <2>3, <2>4, <2>5 DEF StartUp
<1>3. ASSUME NEW p \in Pid, Work(p) PROVE TypeOK'
  <2>1. CASE Loop(p)
    <3>1. CASE pc' = [pc EXCEPT ![p] = "tasks"] /\ ReadClock(p)
      BY <2>1, <3>1, ReadClockTypes DEF Loop, TypeOK, Step, Active
    <3>2. CASE pc' = [pc EXCEPT ![p] = "remove"] /\ UNCHANGED <<task, age, spent>>
      BY <2>1, <3>2 DEF Loop, TypeOK, Step, Active
    <3> QED BY <2>1, <3>1, <3>2 DEF Loop
  <2>2. CASE NextTask(p)
    <3>1. /\ pc' \in {[pc EXCEPT ![p] = "run"], pc, [pc EXCEPT ![p] = "loop"]}
          /\ task' = task \/ (task[p] \in Task /\ task' = [task EXCEPT ![p] = @ + 1])
      BY <2>2 DEF NextTask
    <3>2. task' \in [Pid -> 1..(Tasks + 1)]
      <4>1. ASSUME task[p] \in Task PROVE task[p] + 1 \in 1..(Tasks + 1)
        BY <4>1, DaemonAssumption DEF Task
      <4> QED BY <3>1, <4>1 DEF TypeOK
    <3>3. pc' \in [Pid -> Step]
      BY <3>1 DEF TypeOK, Step, Active
    <3> QED BY <2>2, <3>2, <3>3 DEF NextTask, TypeOK
  <2>3. CASE EndTask(p)
    <3>1. Ran(p) \in [Task -> 0..Longest]
      <4>1. age[p] \in [Task -> 0..Longest] /\ 0 \in 0..Longest
        BY DaemonAssumption DEF TypeOK
      <4> QED BY <4>1 DEF Ran
    <3>2. age' \in [Pid -> [Task -> 0..Longest]]
      BY <2>3, <3>1 DEF EndTask, TypeOK
    <3>3. pc' \in [Pid -> Step]
      BY <2>3 DEF EndTask, TypeOK, Step, Active
    <3>4. task' \in [Pid -> 1..(Tasks + 1)]
      <4>1. task[p] \in Task
        BY <2>3 DEF EndTask, RunsTask
      <4>2. task[p] + 1 \in 1..(Tasks + 1)
        BY <4>1, DaemonAssumption DEF Task
      <4> QED BY <2>3, <4>2 DEF EndTask, TypeOK
    <3> QED BY <2>3, <3>2, <3>3, <3>4 DEF EndTask, TypeOK
  <2>4. CASE Remove(p)
    BY <2>4, EndTypes DEF Remove, TypeOK
  <2> QED BY <1>3, <2>1, <2>2, <2>3, <2>4 DEF Work
<1>4. ASSUME NEW p \in Pid, Signal(p) PROVE TypeOK'
  BY <1>4 DEF Signal, TypeOK
<1>5. ASSUME NEW p \in Pid, Die(p) PROVE TypeOK'
  BY <1>5, EndTypes DEF Die, TypeOK
<1>6. ASSUME NEW p \in Pid, Recycle(p) PROVE TypeOK'
  BY <1>6 DEF Recycle, TypeOK, memory, Step
<1>7. CASE Tick
  <2>1. ASSUME NEW p \in Pid PROVE Capped(spent[p] + 1, Longest) \in 0..Longest
    BY DaemonAssumption DEF Capped, TypeOK
  <2>2. spent' \in [Pid -> 0..Longest]
    BY <1>7, <2>1 DEF Tick, TypeOK
  <2> QED BY <1>7, <2>2 DEF Tick, TypeOK
<1>8. CASE UNCHANGED vars
  BY <1>8 DEF vars, memory, TypeOK
<1> QED BY <1>1, <1>2, <1>3, <1>4, <1>5, <1>6, <1>7, <1>8 DEF Next

\* Type correctness, for any processes, tasks and intervals.
THEOREM TypeCorrect == Spec => []TypeOK
<1>1. Init => RunsTask
  BY DEF Init, RunsTask
<1> QED BY <1>1, TypeInit, TypeStep, RunsTaskStep, PTL DEF Spec

-----------------------------------------------------------------------------
(* The pid file                                                            *)

\* While daemons start one at a time, the one at work owns the pid file, and the
\* one that starts is either alone or has yet to find that out.
PidInv ==
    ~raced =>
        /\ \A p \in Pid : pc[p] \in Active => file = p
        /\ \A p, q \in Pid : pc[p] \in Starting /\ pc[q] \in Starting => p = q
        /\ \A p, q \in Pid : pc[p] \in {"create", "write"} => pc[q] \notin Active
        /\ \A p, q \in Pid : pc[p] = "probe" /\ pc[q] \in Active => old[p] = q

LEMMA PidStep == TypeOK /\ PidInv /\ [Next]_vars => PidInv'
<1> SUFFICES ASSUME TypeOK, PidInv, [Next]_vars, ~raced' PROVE PidInv'
  BY DEF PidInv
<1> USE DEF Become
<1>0. ~raced
  BY DEF Next, StartUp, Work, Start, IsFile, Read, Probe, Create, Write, Loop,
         NextTask, EndTask, Remove, Signal, Die, Recycle, Tick, vars
<1>t. pc \in [Pid -> Step] /\ old \in [Pid -> Pid]
  BY DEF TypeOK
<1>1. ASSUME NEW p \in Pid, Start(p) PROVE PidInv'
  BY <1>0, <1>t, <1>1 DEF Start, PidInv, memory, Starting, Active
<1>2. ASSUME NEW p \in Pid, StartUp(p) PROVE PidInv'
  <2>1. CASE IsFile(p)
    BY <1>0, <1>t, <2>1, DaemonAssumption DEF IsFile, PidInv, memory, Starting, Active
  <2>2. CASE Read(p)
    BY <1>0, <1>t, <2>2 DEF Read, PidInv, Starting, Active
  <2>3. CASE Probe(p)
    <3>1. CASE End(p)
      BY <1>0, <1>t, <2>3, <3>1 DEF Probe, End, PidInv, Starting, Active
    <3>2. CASE /\ ~Alive(old[p])
               /\ pc' = [pc EXCEPT ![p] = "create"]
               /\ UNCHANGED memory
      BY <1>0, <1>t, <2>3, <3>2 DEF Probe, Alive, PidInv, memory, Starting, Active
    <3> QED BY <2>3, <3>1, <3>2 DEF Probe
  <2>4. CASE Create(p)
    BY <1>0, <1>t, <2>4 DEF Create, PidInv, memory, Starting, Active
  <2>5. CASE Write(p)
    BY <1>0, <1>t, <2>5 DEF Write, PidInv, memory, Starting, Active
  <2> QED BY <1>2, <2>1, <2>2, <2>3, <2>4, <2>5 DEF StartUp
<1>3. ASSUME NEW p \in Pid, Work(p) PROVE PidInv'
  <2>1. CASE Loop(p) \/ NextTask(p) \/ EndTask(p)
    <3>1. /\ UNCHANGED <<file, old>>
          /\ pc[p] \in Active
          /\ \E s \in Active : pc' = [pc EXCEPT ![p] = s] \/ pc' = pc
      BY <2>1 DEF Loop, NextTask, EndTask, Active
    <3> QED BY <1>0, <1>t, <3>1 DEF PidInv, Starting, Active
  <2>2. CASE Remove(p)
    BY <1>0, <1>t, <2>2 DEF Remove, End, PidInv, Starting, Active
  <2> QED BY <1>3, <2>1, <2>2 DEF Work
<1>4. ASSUME NEW p \in Pid, Signal(p) PROVE PidInv'
  BY <1>0, <1>4 DEF Signal, PidInv
<1>5. ASSUME NEW p \in Pid, Die(p) PROVE PidInv'
  BY <1>0, <1>t, <1>5 DEF Die, End, PidInv, Starting, Active
<1>6. ASSUME NEW p \in Pid, Recycle(p) PROVE PidInv'
  BY <1>0, <1>t, <1>6 DEF Recycle, PidInv, memory, Starting, Active
<1>7. CASE Tick \/ UNCHANGED vars
  BY <1>0, <1>7 DEF Tick, vars, memory, PidInv
<1> QED BY <1>1, <1>2, <1>3, <1>4, <1>5, <1>6, <1>7 DEF Next

LEMMA PidInvariance == Spec => [](TypeOK /\ PidInv)
<1>1. Init => PidInv
  BY DEF Init, PidInv, Starting, Active
<1> QED BY <1>1, TypeCorrect, PidStep, PTL DEF Spec

\* The daemon is single, whatever dies or recycles a pid, while no two start at
\* once: the one at work owns the file, and whoever starts finds it there.
THEOREM Single == Spec => []OneDaemon
<1>1. PidInv => OneDaemon
  BY DEF PidInv, OneDaemon
<1> QED BY <1>1, PidInvariance, PTL

\* The panel's report is right under the conditions StatusIsRight names.
THEOREM Truthful == Spec => []StatusIsRight
<1>1. TypeOK /\ PidInv => StatusIsRight
  <2> SUFFICES ASSUME TypeOK, PidInv, ~raced,
                      \A p \in Pid : pc[p] \notin Starting,
                      file \in Pid => pc[file] # "other"
               PROVE  Reported <=> \E p \in Pid : pc[p] \in Active
    BY DEF StatusIsRight
  <2>1. ASSUME Reported PROVE \E p \in Pid : pc[p] \in Active
    BY <2>1 DEF Reported, Alive, TypeOK, Step
  <2>2. ASSUME NEW p \in Pid, pc[p] \in Active PROVE Reported
    BY <2>2 DEF PidInv, Reported, Alive, Active
  <2> QED BY <2>1, <2>2
<1> QED BY <1>1, PidInvariance, PTL
=============================================================================
