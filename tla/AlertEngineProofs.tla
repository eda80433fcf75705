--------------------------- MODULE AlertEngineProofs ---------------------------
(***************************************************************************)
(* Proofs about AlertEngine, for any rules, subjects, runners and bounds:  *)
(* type correctness, that alerts of a rule stay its dedup window apart,    *)
(* that what is raised is queued, and that what one row suffices for is    *)
(* noticed in time.                                                        *)
(***************************************************************************)
EXTENDS AlertEngine, SequenceTheorems, FiniteSetTheorems, WellFoundedInduction, TLAPS

\* What a runner's check has looked at is older than the rule's window, and
\* stays so: alerts are only appended and the clock only advances.
SeenIsOld ==
    \A p \in Runner : \A j \in 1..known[p] :
        alerts[j].rule = rule[p] => now > alerts[j].at + Dedup[rule[p]]

Inv == TypeOK /\ SeenIsOld

LEMMA RuleOne == 1 \in Rule
BY EngineAssumption DEF Rule

\* A later rule or the first: GoTo keeps the types of what it sets.
LEMMA GoToTypes ==
    ASSUME TypeOK, NEW p \in Runner, NEW r, GoTo(p, r)
    PROVE  /\ known' \in [Runner -> Nat]
           /\ \A q \in Runner : known'[q] <= known[q]
           /\ known'[p] = 0
           /\ rule' \in [Runner -> Rule]
           /\ \A q \in Runner \ {p} : rule'[q] = rule[q] /\ known'[q] = known[q]
           /\ pc' \in [Runner -> {"idle", "check", "query", "store", "queue"}]
BY RuleOne DEF GoTo, TypeOK

\* An alert stored is appended.
LEMMA StoredTypes ==
    ASSUME TypeOK, NEW p \in Runner,
           alerts' = Append(alerts, [rule |-> rule[p], at |-> now, by |-> p])
    PROVE  /\ alerts' \in Seq(Alert)
           /\ Len(alerts') = Len(alerts) + 1
           /\ DOMAIN alerts' = 1..(Len(alerts) + 1)
           /\ \A i \in 1..Len(alerts) : alerts'[i] = alerts[i]
           /\ alerts'[Len(alerts) + 1] = [rule |-> rule[p], at |-> now, by |-> p]
<1>1. [rule |-> rule[p], at |-> now, by |-> p] \in Alert
  BY DEF TypeOK, Alert
<1> QED BY <1>1, AppendProperties DEF TypeOK

\* A row is inserted now, with the time of its log line.
LEMMA Recorded ==
    ASSUME TypeOK, Record
    PROVE  /\ UNCHANGED <<now, alerts, queued, due, local, calls, faults>>
           /\ \E row \in [rule : Rule, subject : Subject \cup {Nobody}, at : Nat, stored : Nat] :
                 /\ facts' = facts \cup {row}
                 /\ row.rule \in Standing \/ row.stored = now
                 /\ IF row.rule \in PerSubject THEN row.subject \in Subject
                                               ELSE row.subject = Nobody
<1>1. PICK r \in Rule, s \in Subject, t \in 0..now : facts' = facts \cup {NewRow(r, s, t)}
  BY DEF Record
<1>2. /\ NewRow(r, s, t) \in [rule : Rule, subject : Subject \cup {Nobody}, at : Nat, stored : Nat]
      /\ NewRow(r, s, t).rule = r
      /\ NewRow(r, s, t).stored = IF r \in Standing THEN 0 ELSE now
      /\ NewRow(r, s, t).subject = IF r \in PerSubject THEN s ELSE Nobody
  BY DEF NewRow, TypeOK
<1>3. UNCHANGED <<now, alerts, queued, due, local, calls, faults>>
  BY DEF Record
<1> QED BY <1>1, <1>2, <1>3

\* What a query reports is among what it finds.
LEMMA ReportedHits ==
    ASSUME NEW r, NEW S \in Reported(r)
    PROVE  S \subseteq Hits(r) /\ S \subseteq Subject \cup {Nobody}
<1>1. S \subseteq Hits(r) BY DEF Reported
<1>2. Hits(r) \subseteq Subject \cup {Nobody} BY DEF Hits
<1> QED BY <1>1, <1>2

LEMMA InitInv == Init => Inv
<1> SUFFICES ASSUME Init PROVE Inv
  OBVIOUS
<1>1. TypeOK
  BY RuleOne, EngineAssumption DEF Init, TypeOK, AlertId
<1>2. SeenIsOld
  BY DEF Init, SeenIsOld
<1> QED BY <1>1, <1>2 DEF Inv

LEMMA StepInv == Inv /\ [Next]_vars => Inv'
<1> SUFFICES ASSUME Inv, [Next]_vars PROVE Inv'
  OBVIOUS
<1> USE DEF Inv
<1>0. /\ now \in Nat /\ due \in Nat /\ Len(alerts) \in Nat
      /\ AlertId = 1..Len(alerts)
      /\ \A j \in AlertId : alerts[j] \in Alert
      /\ Period \in Nat
  BY EngineAssumption DEF TypeOK, AlertId
<1>1. ASSUME Tick PROVE Inv'
  <2>1. TypeOK'
    BY <1>1, <1>0 DEF Tick, TypeOK, local, AlertId
  <2>2. SeenIsOld'
    <3> SUFFICES ASSUME NEW p \in Runner, NEW j \in 1..known[p],
                        alerts[j].rule = rule[p]
                 PROVE  now + 1 > alerts[j].at + Dedup[rule[p]]
      BY <1>1 DEF Tick, SeenIsOld, local
    <3>1. now > alerts[j].at + Dedup[rule[p]]
      BY DEF SeenIsOld
    <3>2. j \in AlertId /\ rule[p] \in Rule
      BY <1>0 DEF TypeOK
    <3>3. alerts[j].at \in Nat /\ Dedup[rule[p]] \in Nat
      BY <3>2, <1>0, EngineAssumption DEF Alert
    <3> QED BY <3>1, <3>3, <1>0
  <2> QED BY <2>1, <2>2
<1>2. ASSUME Record PROVE Inv'
  <2>1. TypeOK'
    BY <1>2, <1>0, Recorded DEF TypeOK, local, AlertId
  <2>2. SeenIsOld'
    BY <1>2, Recorded DEF SeenIsOld, local
  <2> QED BY <2>1, <2>2
<1>3. ASSUME Withdraw PROVE Inv'
  <2>1. TypeOK'
    BY <1>3 DEF Withdraw, TypeOK, local, AlertId
  <2>2. SeenIsOld'
    BY <1>3 DEF Withdraw, SeenIsOld, local
  <2> QED BY <2>1, <2>2
<1>4. ASSUME NEW p \in Runner, Begin(p) PROVE Inv'
  <2>0. GoTo(p, 1)
    BY <1>4 DEF Begin
  <2>1. TypeOK'
    BY <1>4, <1>0, <2>0, GoToTypes DEF Begin, TypeOK, AlertId
  <2>2. SeenIsOld'
    BY <1>4, <2>0, GoToTypes DEF Begin, SeenIsOld
  <2> QED BY <2>1, <2>2
<1>5. ASSUME NEW p \in Runner, CheckRecent(p) PROVE Inv'
  <2> USE DEF CheckRecent
  <2>1. CASE Recent(rule[p]) /\ GoTo(p, rule[p] + 1) /\ UNCHANGED faults
    <3>1. TypeOK'
      BY <1>5, <1>0, <2>1, GoToTypes DEF TypeOK, AlertId
    <3>2. SeenIsOld'
      BY <1>5, <2>1, GoToTypes DEF SeenIsOld
    <3> QED BY <3>1, <3>2
  <2>2. CASE /\ ~Recent(rule[p])
             /\ pc' = [pc EXCEPT ![p] = "query"]
             /\ known' = [known EXCEPT ![p] = Len(alerts)]
             /\ UNCHANGED <<rule, faults>>
    <3>1. TypeOK'
      BY <1>5, <1>0, <2>2 DEF TypeOK, AlertId
    <3>2. ASSUME NEW j \in AlertId, alerts[j].rule = rule[p]
          PROVE  now > alerts[j].at + Dedup[rule[p]]
      <4>1. alerts[j].at \in Nat /\ Dedup[rule[p]] \in Nat
        BY <1>0, EngineAssumption DEF TypeOK, Alert
      <4> QED BY <3>2, <4>1, <2>2, <1>0 DEF Recent
    <3>3. SeenIsOld'
      BY <1>5, <1>0, <2>2, <3>2 DEF SeenIsOld, TypeOK
    <3> QED BY <3>1, <3>3
  <2>3. CASE /\ Fail
             /\ pc' = [pc EXCEPT ![p] = "query"]
             /\ UNCHANGED <<rule, known>>
    <3>1. TypeOK'
      BY <1>5, <1>0, <2>3 DEF TypeOK, AlertId, Fail
    <3>2. SeenIsOld'
      BY <1>5, <2>3 DEF SeenIsOld
    <3> QED BY <3>1, <3>2
  <2> QED BY <1>5, <2>1, <2>2, <2>3
<1>6. ASSUME NEW p \in Runner, Query(p) PROVE Inv'
  <2> USE DEF Query
  <2>1. ASSUME NEW S \in Reported(rule[p]),
               found' = [found EXCEPT ![p] = S],
               pc' = [pc EXCEPT ![p] = "store"],
               UNCHANGED <<rule, known, got, faults>>
        PROVE  Inv'
    <3>1. S \in SUBSET (Subject \cup {Nobody})
      BY ReportedHits
    <3>2. TypeOK'
      BY <1>6, <1>0, <2>1, <3>1 DEF TypeOK, AlertId
    <3>3. SeenIsOld'
      BY <1>6, <2>1 DEF SeenIsOld
    <3> QED BY <3>2, <3>3
  <2>2. CASE GoTo(p, rule[p] + 1) /\ UNCHANGED <<found, got, faults>>
    <3>1. TypeOK'
      BY <1>6, <1>0, <2>2, GoToTypes DEF TypeOK, AlertId
    <3>2. SeenIsOld'
      BY <1>6, <2>2, GoToTypes DEF SeenIsOld
    <3> QED BY <3>1, <3>2
  <2>3. CASE /\ Fail
             /\ GoTo(p, AfterError(rule[p]))
             /\ got' = IF p # Daemon THEN got
                       ELSE {i \in got : Evaluator[alerts[i].rule] # Evaluator[rule[p]]}
             /\ UNCHANGED found
    <3>0. got' \subseteq got /\ faults' = faults + 1
      BY <2>3 DEF Fail
    <3>1. TypeOK'
      BY <1>6, <1>0, <2>3, <3>0, GoToTypes DEF TypeOK, AlertId
    <3>2. SeenIsOld'
      BY <1>6, <2>3, GoToTypes DEF SeenIsOld
    <3> QED BY <3>1, <3>2
  <2> QED BY <1>6, <2>1, <2>2, <2>3
<1>7. ASSUME NEW p \in Runner, StoreAlert(p) PROVE Inv'
  <2>1. PICK s \in found[p] :
            /\ found' = [found EXCEPT ![p] = @ \ {s}]
            /\ GoTo(p, rule[p] + 1) \/ UNCHANGED <<pc, rule, known>>
    BY <1>7 DEF StoreAlert
  <2>2. /\ known' \in [Runner -> Nat]
        /\ \A q \in Runner : known'[q] <= known[q] /\ known'[q] \in 0..Len(alerts)
        /\ \A q \in Runner : known'[q] = 0 \/ (rule'[q] = rule[q] /\ known'[q] = known[q])
        /\ rule' \in [Runner -> Rule]
        /\ pc' \in [Runner -> {"idle", "check", "query", "store", "queue"}]
    BY <2>1, <1>0, GoToTypes DEF TypeOK
  <2>3. found' \in [Runner -> SUBSET (Subject \cup {Nobody})]
    BY <2>1 DEF TypeOK
  <2>4. UNCHANGED <<now, facts, queued, due, calls>>
    BY <1>7 DEF StoreAlert
  <2>5. CASE /\ alerts' = Append(alerts, [rule |-> rule[p], at |-> now, by |-> p])
             /\ got' = Returned(p, Len(alerts) + 1)
             /\ UNCHANGED faults
    <3>1. /\ alerts' \in Seq(Alert)
          /\ Len(alerts') = Len(alerts) + 1
          /\ DOMAIN alerts' = 1..(Len(alerts) + 1)
          /\ \A i \in 1..Len(alerts) : alerts'[i] = alerts[i]
      BY <2>5, StoredTypes
    <3>2. got' \subseteq 1..(Len(alerts) + 1)
      <4>1. got \subseteq 1..Len(alerts) /\ Len(alerts) \in Nat
        BY <1>0 DEF TypeOK
      <4>2. got' \subseteq got \cup {Len(alerts) + 1}
        BY <2>5 DEF Returned
      <4> QED BY <4>1, <4>2
    <3>3. known' \in [Runner -> 0..Len(alerts')] /\ queued' \subseteq DOMAIN alerts'
      BY <1>0, <2>2, <2>4, <3>1 DEF TypeOK
    <3>4. TypeOK'
      BY <2>2, <2>3, <2>4, <2>5, <3>1, <3>2, <3>3 DEF TypeOK, AlertId
    <3>5. SeenIsOld'
      <4> SUFFICES ASSUME NEW q \in Runner, NEW j \in 1..known'[q],
                          alerts'[j].rule = rule'[q]
                   PROVE  now' > alerts'[j].at + Dedup[rule'[q]]
        BY DEF SeenIsOld
      <4>1. rule'[q] = rule[q] /\ known'[q] = known[q] /\ known[q] <= Len(alerts)
        BY <2>2, <1>0
      <4>2. alerts'[j] = alerts[j]
        BY <4>1, <3>1, <2>2, <1>0
      <4> QED BY <4>1, <4>2, <2>4 DEF SeenIsOld
    <3> QED BY <3>4, <3>5
  <2>6. CASE Fail /\ UNCHANGED <<alerts, got>>
    <3>0. faults' \in Nat
      BY <2>6 DEF Fail, TypeOK
    <3>1. known' \in [Runner -> 0..Len(alerts)]
      BY <2>2
    <3>2. TypeOK'
      BY <2>2, <2>3, <2>4, <2>6, <3>0, <3>1 DEF TypeOK, AlertId
    <3>3. SeenIsOld'
      <4> SUFFICES ASSUME NEW q \in Runner, NEW j \in 1..known'[q],
                          alerts[j].rule = rule'[q]
                   PROVE  now > alerts[j].at + Dedup[rule'[q]]
        BY <2>4, <2>6 DEF SeenIsOld
      <4>1. rule'[q] = rule[q] /\ known'[q] = known[q]
        BY <2>2
      <4> QED BY <4>1 DEF SeenIsOld
    <3> QED BY <3>2, <3>3
  <2> QED BY <1>7, <2>5, <2>6 DEF StoreAlert
<1>8. ASSUME QueueNext PROVE Inv'
  <2>1. /\ got' \subseteq got
        /\ queued' \subseteq queued \cup got
        /\ faults' \in {faults, faults + 1}
        /\ pc' \in {pc, [pc EXCEPT ![Daemon] = "idle"]}
        /\ UNCHANGED <<now, facts, alerts, due, rule, known, found, calls>>
    BY <1>8 DEF QueueNext, Fail
  <2>2. TypeOK'
    <3>1. pc' \in [Runner -> {"idle", "check", "query", "store", "queue"}]
      BY <2>1 DEF TypeOK
    <3>2. queued' \subseteq AlertId /\ got' \subseteq AlertId /\ faults' \in Nat
      BY <2>1 DEF TypeOK
    <3> QED BY <2>1, <3>1, <3>2 DEF TypeOK, AlertId
  <2>3. SeenIsOld'
    BY <2>1 DEF SeenIsOld
  <2> QED BY <2>2, <2>3
<1>9. ASSUME NEW p \in Runner, Kill(p) PROVE Inv'
  <2>1. TypeOK'
    BY <1>9, <1>0, RuleOne DEF Kill, TypeOK, AlertId, Fail
  <2>2. SeenIsOld'
    BY <1>9, <1>0 DEF Kill, SeenIsOld, TypeOK
  <2> QED BY <2>1, <2>2
<1>10. ASSUME UNCHANGED vars PROVE Inv'
  <2>1. TypeOK'
    BY <1>10 DEF vars, local, TypeOK, AlertId
  <2>2. SeenIsOld'
    BY <1>10 DEF vars, local, SeenIsOld
  <2> QED BY <2>1, <2>2
<1> QED
  BY <1>1, <1>2, <1>3, <1>4, <1>5, <1>6, <1>7, <1>8, <1>9, <1>10
  DEF Next, Evaluate

\* The invariant holds in every reachable state.
LEMMA Invariance == Spec => []Inv
BY InitInv, StepInv, PTL DEF Spec

\* Type correctness of the engine, whatever its rules and runners.
THEOREM TypeCorrect == Spec => []TypeOK
<1>1. Inv => TypeOK
  BY DEF Inv
<1> QED BY <1>1, Invariance, PTL

\* an alert stored by this step is apart from those its check has looked at
StoredApart ==
    \A i \in DOMAIN alerts' \ AlertId, j \in AlertId :
        LET a == alerts'[i]
        IN  (a.rule = alerts[j].rule /\ j <= known[a.by]) =>
                a.at > alerts[j].at + Dedup[a.rule]

LEMMA ApartStep == Inv /\ [Next]_vars => [StoredApart]_vars
<1> SUFFICES ASSUME Inv, Next PROVE StoredApart
  BY DEF vars, local, AlertId
<1> USE DEF Inv
<1>1. CASE alerts' = alerts
  BY <1>1 DEF AlertId, StoredApart
<1>2. ASSUME NEW p \in Runner,
             alerts' = Append(alerts, [rule |-> rule[p], at |-> now, by |-> p])
      PROVE  StoredApart
  <2> SUFFICES ASSUME NEW i \in DOMAIN alerts' \ AlertId, NEW j \in AlertId,
                      alerts'[i].rule = alerts[j].rule, j <= known[alerts'[i].by]
               PROVE  alerts'[i].at > alerts[j].at + Dedup[alerts'[i].rule]
    BY DEF StoredApart
  <2>1. alerts'[i] = [rule |-> rule[p], at |-> now, by |-> p]
    BY <1>2, StoredTypes DEF AlertId, TypeOK
  <2>2. j \in 1..known[p]
    BY <2>1 DEF TypeOK, AlertId
  <2> QED BY <2>1, <2>2 DEF SeenIsOld
<1>3. alerts' = alerts
      \/ \E p \in Runner :
            alerts' = Append(alerts, [rule |-> rule[p], at |-> now, by |-> p])
  BY DEF Next, Tick, Record, Withdraw, Begin, Evaluate, CheckRecent, Query,
         StoreAlert, QueueNext, Kill
<1> QED BY <1>1, <1>2, <1>3

\* Alerts of a rule are apart, for any number of runners and however long each
\* statement takes: what a check has passed over has left the window for good.
THEOREM Apart == Spec => AlertsApart
<1>1. Spec => [][StoredApart]_vars
  BY ApartStep, Invariance, PTL DEF Spec
<1> QED BY <1>1 DEF AlertsApart, StoredApart

-----------------------------------------------------------------------------
(* What is raised is queued.                                               *)

\* The daemon's alerts are queued or still to be, and nothing is left to queue
\* between two polls.
Covered ==
    /\ pc[Daemon] = "idle" => got = {}
    /\ faults = 0 =>
          \A i \in AlertId : alerts[i].by = Daemon => i \in queued \cup got

LEMMA GoToStaysBusy ==
    ASSUME TypeOK, NEW p \in Runner, NEW r, GoTo(p, r), pc'[Daemon] = "idle"
    PROVE  pc[Daemon] = "idle"
BY EngineAssumption DEF GoTo, TypeOK

LEMMA CoveredStep == TypeOK /\ Covered /\ [Next]_vars => Covered'
<1> SUFFICES ASSUME TypeOK, Covered, [Next]_vars PROVE Covered'
  OBVIOUS
<1>0. faults \in Nat /\ Daemon \in Runner
  BY EngineAssumption DEF TypeOK
<1>1. CASE \/ Tick \/ Record \/ Withdraw \/ UNCHANGED vars
  BY <1>1 DEF Tick, Record, Withdraw, vars, local, Covered, AlertId
<1>2. ASSUME NEW p \in Runner, Begin(p) PROVE Covered'
  BY <1>2, GoToStaysBusy DEF Begin, Covered, AlertId
<1>3. ASSUME NEW p \in Runner, CheckRecent(p) PROVE Covered'
  <2>1. pc'[Daemon] = "idle" => pc[Daemon] = "idle"
    BY <1>0, <1>3, GoToStaysBusy DEF CheckRecent, TypeOK
  <2>2. faults' = 0 => faults = 0
    BY <1>0, <1>3 DEF CheckRecent, Fail
  <2> QED BY <1>3, <2>1, <2>2 DEF CheckRecent, Covered, AlertId
<1>4. ASSUME NEW p \in Runner, Query(p) PROVE Covered'
  <2>1. pc'[Daemon] = "idle" => pc[Daemon] = "idle"
    BY <1>0, <1>4, GoToStaysBusy DEF Query, TypeOK
  <2>2. /\ faults' = 0 => faults = 0 /\ got' = got
        /\ got' \subseteq got
    BY <1>0, <1>4 DEF Query, Fail
  <2> QED BY <1>4, <2>1, <2>2 DEF Query, Covered, AlertId
<1>5. ASSUME NEW p \in Runner, StoreAlert(p) PROVE Covered'
  <2>0. GoTo(p, rule[p] + 1) \/ UNCHANGED <<pc, rule, known>>
    BY <1>5 DEF StoreAlert
  <2>1. pc'[Daemon] = "idle" => p # Daemon /\ pc[Daemon] = "idle"
    BY <1>0, <1>5, <2>0, GoToStaysBusy DEF StoreAlert
  <2>2. CASE /\ alerts' = Append(alerts, [rule |-> rule[p], at |-> now, by |-> p])
             /\ got' = Returned(p, Len(alerts) + 1)
             /\ UNCHANGED faults
    <3>1. /\ DOMAIN alerts' = 1..(Len(alerts) + 1) /\ AlertId = 1..Len(alerts)
          /\ \A i \in AlertId : alerts'[i] = alerts[i]
          /\ alerts'[Len(alerts) + 1].by = p
          /\ Len(alerts) \in Nat
      BY <2>2, StoredTypes DEF TypeOK, AlertId
    <3>2. /\ got' = IF p = Daemon THEN got \cup {Len(alerts) + 1} ELSE got
          /\ queued' = queued
      BY <1>5, <2>2 DEF Returned, StoreAlert
    <3>3. \A i \in DOMAIN alerts' : i \in AlertId \/ i = Len(alerts) + 1
      BY <3>1
    <3> QED BY <2>1, <2>2, <3>1, <3>2, <3>3 DEF Covered, AlertId
  <2>3. CASE Fail /\ UNCHANGED <<alerts, got>>
    BY <1>0, <2>1, <2>3 DEF Fail, Covered
  <2> QED BY <1>5, <2>2, <2>3 DEF StoreAlert
<1>6. ASSUME QueueNext PROVE Covered'
  <2>1. CASE got = {} /\ pc' = [pc EXCEPT ![Daemon] = "idle"]
             /\ UNCHANGED <<queued, got, faults>>
    BY <1>6, <2>1 DEF QueueNext, Covered, AlertId
  <2>2. ASSUME NEW id \in got, UNCHANGED pc,
               \/ /\ queued' = queued \cup {id}
                  /\ got' = got \ {id}
                  /\ UNCHANGED faults
               \/ Fail
        PROVE  Covered'
    <3>1. pc'[Daemon] # "idle"
      BY <1>6, <2>2 DEF QueueNext
    <3>2. CASE queued' = queued \cup {id} /\ got' = got \ {id} /\ UNCHANGED faults
      BY <1>6, <3>1, <3>2 DEF QueueNext, Covered, AlertId
    <3>3. CASE Fail
      BY <1>0, <3>1, <3>3 DEF Fail, Covered
    <3> QED BY <2>2, <3>2, <3>3
  <2> QED BY <1>6, <2>1, <2>2 DEF QueueNext
<1>7. ASSUME NEW p \in Runner, Kill(p) PROVE Covered'
  <2>1. faults' # 0
    BY <1>0, <1>7 DEF Kill, Fail
  <2>2. pc'[Daemon] = "idle" => got' = {}
    BY <1>0, <1>7 DEF Kill, TypeOK, Covered
  <2> QED BY <2>1, <2>2 DEF Covered
<1> QED
  BY <1>1, <1>2, <1>3, <1>4, <1>5, <1>6, <1>7 DEF Next, Evaluate

\* The daemon queues its own alerts and no others.
Own == \A i \in queued \cup got : alerts[i].by = Daemon

LEMMA OwnStep == TypeOK /\ Own /\ [Next]_vars => Own'
<1> SUFFICES ASSUME TypeOK, Own, [Next]_vars PROVE Own'
  OBVIOUS
<1>1. CASE alerts' = alerts /\ queued' \cup got' \subseteq queued \cup got
  BY <1>1 DEF Own
<1>2. ASSUME NEW p \in Runner, StoreAlert(p),
             alerts' = Append(alerts, [rule |-> rule[p], at |-> now, by |-> p]),
             got' = Returned(p, Len(alerts) + 1)
      PROVE  Own'
  <2>1. /\ \A i \in AlertId : alerts'[i] = alerts[i]
        /\ alerts'[Len(alerts) + 1].by = p
    BY <1>2, StoredTypes DEF TypeOK, AlertId
  <2>2. got' \subseteq got \/ (p = Daemon /\ got' = got \cup {Len(alerts) + 1})
    BY <1>2 DEF Returned
  <2>3. queued' = queued BY <1>2 DEF StoreAlert
  <2> QED BY <2>1, <2>2, <2>3 DEF Own, TypeOK
<1>3. ASSUME NEW p \in Runner, StoreAlert(p) PROVE Own'
  BY <1>1, <1>2, <1>3 DEF StoreAlert
<1>4. \/ alerts' = alerts /\ queued' \cup got' \subseteq queued \cup got
      \/ \E p \in Runner : StoreAlert(p)
  BY DEF Next, Tick, Record, Withdraw, Begin, Evaluate, CheckRecent, Query,
         QueueNext, Kill, vars, local
<1> QED BY <1>1, <1>3, <1>4

\* Whatever the daemon raises, for whichever rules and subjects, it has queued
\* for notification by the end of the poll, unless something failed.
THEOREM Announced == Spec => []RaisedIsQueued
<1>1. Init => Covered
  BY EngineAssumption DEF Init, Covered, AlertId
<1>2. Covered => RaisedIsQueued
  BY DEF Covered, RaisedIsQueued
<1> QED BY <1>1, <1>2, CoveredStep, TypeCorrect, PTL DEF Spec

-----------------------------------------------------------------------------
(* What happens often enough is noticed.                                   *)

Start == due - Period   \* of the daemon's last poll

Noticed(f) ==
    \E i \in AlertId : /\ alerts[i].rule = f.rule
                       /\ alerts[i].at + Dedup[f.rule] >= f.stored
                       /\ alerts[i].at <= Deadline(f)

\* the poll has yet to evaluate the rule of the row, or is at it
Ahead(f) ==
    \/ pc[Daemon] = "check" /\ rule[Daemon] <= f.rule
    \/ pc[Daemon] \in {"query", "store"} /\ rule[Daemon] <= f.rule

\* a row that suffices with those before it and has gone unnoticed was stored after
\* the last poll began, or that poll has yet to come to its rule, and began early
\* enough
InTime(f) ==
    Suffices(f) /\ ~Noticed(f) =>
        \/ Start <= f.stored
        \/ Ahead(f) /\ f.stored <= Start /\ Start <= f.stored + Period + Slack

PollsKeepUp ==
    /\ Start <= now /\ now <= Start + Period + Slack
    /\ pc[Daemon] # "idle" => now <= Start + Slack

RowsFit ==
    /\ IsFiniteSet(facts)
    /\ \A f \in facts :
          IF f.rule \in PerSubject THEN f.subject \in Subject ELSE f.subject = Nobody

NoticeInv ==
    /\ RowsFit
    /\ \A i \in AlertId : alerts[i].at <= now
    /\ faults = 0 => PollsKeepUp /\ \A f \in facts : InTime(f)

\* The rows that last until the deadline are among those a query counts that is
\* made before it.
LEMMA HitsOne ==
    ASSUME TypeOK, RowsFit, NEW f \in facts, Suffices(f), now <= Deadline(f)
    PROVE  Hits(f.rule) # {}
<1> DEFINE r == f.rule
<1>1. /\ r \in Rule /\ Threshold[r] \in Nat /\ Window[r] \in Nat
      /\ Deadline(f) \in Nat /\ now \in Nat /\ \A g \in facts : g.at \in Nat
  <2>1. now \in Nat /\ \A g \in facts : g.rule \in Rule /\ g.at \in Nat /\ g.stored \in Nat
    BY DEF TypeOK
  <2>2. Threshold[r] \in Nat /\ Window[r] \in Nat BY <2>1, EngineAssumption
  <2>3. Deadline(f) \in Nat BY <2>1, EngineAssumption DEF Deadline
  <2> QED BY <2>1, <2>2, <2>3
<1>2. Lasting(f) \subseteq Counted(r)
  <2> SUFFICES ASSUME NEW g \in Lasting(f) PROVE g.at + Window[r] >= now
    BY DEF Lasting, Counted
  <2>1. g \in facts /\ g.at + Window[r] >= Deadline(f) BY DEF Lasting
  <2> QED BY <1>1, <2>1
<1>3. \A S \in SUBSET Counted(r) : Lasting(f) \subseteq S => Cardinality(S) >= Threshold[r]
  <2> SUFFICES ASSUME NEW S \in SUBSET Counted(r), Lasting(f) \subseteq S
               PROVE  Cardinality(S) >= Threshold[r]
    OBVIOUS
  <2>1. IsFiniteSet(S) BY FS_Subset DEF Counted, RowsFit
  <2>2. /\ Cardinality(S) \in Nat /\ Cardinality(Lasting(f)) \in Nat
        /\ Cardinality(Lasting(f)) <= Cardinality(S)
    BY <2>1, FS_CardinalityType, FS_Subset
  <2> QED BY <1>1, <2>2 DEF Suffices
<1> DEFINE S == {g \in Counted(r) : g.subject = f.subject}
<1>4. f.subject \in IF r \in PerSubject THEN Subject ELSE {Nobody} BY DEF RowsFit
<1>5. Lasting(f) \subseteq S
  <2> SUFFICES ASSUME NEW g \in Lasting(f) PROVE g.subject = f.subject BY <1>2
  <2>1. g \in facts /\ g.rule = r /\ (r \in PerSubject => g.subject = f.subject)
    BY DEF Lasting
  <2> QED BY <2>1 DEF RowsFit
<1>6. CountOf(r, f.subject) >= Threshold[r] BY <1>3, <1>5 DEF CountOf
<1> QED BY <1>4, <1>6 DEF Hits

LEMMA SufficesLess ==
    ASSUME RowsFit, NEW f, Threshold[f.rule] \in Nat,
           Lasting(f)' \subseteq Lasting(f), Suffices(f)'
    PROVE  Suffices(f)
<1>1. IsFiniteSet(Lasting(f)) BY FS_Subset DEF Lasting, RowsFit
<1>2. /\ Cardinality(Lasting(f)) \in Nat /\ Cardinality(Lasting(f)') \in Nat
      /\ Cardinality(Lasting(f)') <= Cardinality(Lasting(f))
  BY <1>1, FS_CardinalityType, FS_Subset
<1> QED BY <1>2 DEF Suffices

LEMMA RowTypes ==
    ASSUME TypeOK, [Next]_vars
    PROVE  \A f \in facts' : f.rule \in Rule /\ f.at \in Nat /\ f.stored \in Nat
<1>1. facts' \subseteq facts \/ Record
  BY DEF Next, Tick, Withdraw, Begin, Evaluate, CheckRecent, Query, StoreAlert,
         QueueNext, Kill, vars
<1>2. CASE facts' \subseteq facts
  BY <1>2 DEF TypeOK
<1>3. CASE Record
  BY <1>3, Recorded DEF TypeOK
<1> QED BY <1>1, <1>2, <1>3

\* A row that has come to suffice is one of this very moment, or later.
LEMMA SufficesBefore ==
    ASSUME TypeOK, RowsFit, [Next]_vars, NEW f \in facts', Suffices(f)', ~(now <= f.stored)
    PROVE  f \in facts /\ Suffices(f)
<1>1. now \in Nat /\ f.rule \in Rule \ Standing /\ Threshold[f.rule] \in Nat
  BY RowTypes, EngineAssumption DEF TypeOK, Suffices
<1>2. CASE facts' \subseteq facts
  <2>1. Lasting(f)' \subseteq Lasting(f) BY <1>2 DEF Lasting, Deadline
  <2> QED BY <1>1, <1>2, <2>1, SufficesLess
<1>3. CASE Record
  <2>1. PICK row : /\ facts' = facts \cup {row}
                   /\ row.rule \in Standing \/ row.stored = now
    BY <1>3, Recorded
  <2>2. f # row /\ f \in facts BY <1>1, <2>1
  <2>3. row \notin Lasting(f)' BY <1>1, <2>1 DEF Lasting
  <2>4. Lasting(f)' \subseteq Lasting(f) BY <2>1, <2>3 DEF Lasting, Deadline
  <2> QED BY <1>1, <2>2, <2>4, SufficesLess
<1>4. facts' \subseteq facts \/ Record
  BY DEF Next, Tick, Withdraw, Begin, Evaluate, CheckRecent, Query, StoreAlert,
         QueueNext, Kill, vars
<1> QED BY <1>2, <1>3, <1>4

LEMMA AlertTypes ==
    ASSUME TypeOK
    PROVE  /\ AlertId = 1..Len(alerts) /\ Len(alerts) \in Nat
           /\ \A i \in AlertId : alerts[i].at \in Nat
<1>1. AlertId = 1..Len(alerts) /\ Len(alerts) \in Nat
      /\ \A i \in AlertId : alerts[i] \in Alert
  BY DEF TypeOK, AlertId
<1> QED BY <1>1 DEF Alert

\* An alert stored is dated now.
LEMMA StoredNow ==
    ASSUME TypeOK, \A i \in AlertId : alerts[i].at <= now, now' = now,
           NEW p \in Runner,
           alerts' = Append(alerts, [rule |-> rule[p], at |-> now, by |-> p])
    PROVE  \A i \in AlertId' : alerts'[i].at <= now'
<1>1. AlertId' = 1..(Len(alerts) + 1) BY StoredTypes DEF AlertId
<1>2. ASSUME NEW i \in 1..Len(alerts) PROVE alerts'[i].at <= now'
  BY StoredTypes, AlertTypes
<1>3. alerts'[Len(alerts) + 1].at <= now'
  BY StoredTypes DEF TypeOK
<1> QED BY <1>1, <1>2, <1>3, AlertTypes

LEMMA NoticedLasts ==
    ASSUME TypeOK, NEW f, Noticed(f),
           alerts' = alerts \/
             \E p \in Runner : alerts' = Append(alerts, [rule |-> rule[p], at |-> now, by |-> p])
    PROVE  Noticed(f)'
<1>1. PICK i \in AlertId : /\ alerts[i].rule = f.rule
                           /\ alerts[i].at + Dedup[f.rule] >= f.stored
                           /\ alerts[i].at <= Deadline(f)
  BY DEF Noticed
<1>2. i \in DOMAIN alerts' /\ alerts'[i] = alerts[i]
  <2>1. CASE alerts' = alerts BY <2>1 DEF AlertId
  <2>2. ASSUME NEW p \in Runner,
               alerts' = Append(alerts, [rule |-> rule[p], at |-> now, by |-> p])
        PROVE  i \in DOMAIN alerts' /\ alerts'[i] = alerts[i]
    BY <2>2, StoredTypes, AlertTypes
  <2> QED BY <2>1, <2>2
<1> QED BY <1>1, <1>2 DEF Noticed, AlertId, Deadline

\* facts unchanged
LEMMA SufficesSame ==
    ASSUME facts' = facts
    PROVE  \A f : Suffices(f)' <=> Suffices(f)
BY DEF Suffices, Lasting, Deadline

LEMMA FactTypes ==
    ASSUME TypeOK, NEW f \in facts
    PROVE  f.rule \in Rule /\ f.at \in Nat /\ f.stored \in Nat /\ Dedup[f.rule] \in Nat /\ Window[f.rule] \in Nat
BY EngineAssumption DEF TypeOK

LEMMA TimeTypes ==
    ASSUME TypeOK
    PROVE  /\ now \in Nat /\ due \in Nat /\ Start \in Int /\ Period \in Nat /\ Slack \in Nat
           /\ due = Start + Period /\ Daemon \in Runner /\ faults \in Nat
BY EngineAssumption DEF TypeOK, Start

LEMMA NextRule ==
    ASSUME NEW q \in Rule, NEW r \in Rule, q <= r, q # r
    PROVE  q + 1 \in Rule /\ q + 1 <= r
BY EngineAssumption DEF Rule

\* A row that has gone unnoticed since before the last poll began is one that the
\* poll has yet to come to, and recent enough for it.
LEMMA RaisedNotices ==
    ASSUME TypeOK, PollsKeepUp, NEW f \in facts, InTime(f), Suffices(f), ~(Start <= f.stored),
           ~Noticed(f)
    PROVE  /\ Ahead(f) /\ pc[Daemon] # "idle"
           /\ f.stored <= now /\ now <= Deadline(f)
<1>1. Ahead(f) /\ f.stored <= Start /\ Start <= f.stored + Period + Slack BY DEF InTime
<1>2. pc[Daemon] # "idle" BY <1>1 DEF Ahead
<1>3. Start <= now /\ now <= Start + Slack BY <1>2 DEF PollsKeepUp
<1> QED BY <1>1, <1>2, <1>3, TimeTypes, FactTypes DEF Deadline

\* a step that leaves the daemon's poll where it stands
LEMMA NoticeLasts ==
    ASSUME TypeOK, NoticeInv, now' = now, due' = due, faults' \in Nat, faults <= faults',
           facts' = facts,
           pc'[Daemon] = pc[Daemon], rule'[Daemon] = rule[Daemon],
           alerts' = alerts \/
             \E p \in Runner : alerts' = Append(alerts, [rule |-> rule[p], at |-> now, by |-> p])
    PROVE  NoticeInv'
<1>1. RowsFit' BY DEF NoticeInv, RowsFit
<1>2. \A i \in AlertId' : alerts'[i].at <= now'
  <2>1. CASE alerts' = alerts BY <2>1 DEF NoticeInv, AlertId
  <2>2. ASSUME NEW p \in Runner,
               alerts' = Append(alerts, [rule |-> rule[p], at |-> now, by |-> p])
        PROVE  \A i \in AlertId' : alerts'[i].at <= now'
    BY <2>2, StoredNow DEF NoticeInv
  <2> QED BY <2>1, <2>2
<1>3. ASSUME faults' = 0 PROVE PollsKeepUp' /\ \A f \in facts' : InTime(f)'
  <2>1. PollsKeepUp /\ \A f \in facts : InTime(f) BY <1>3, TimeTypes DEF NoticeInv
  <2>2. PollsKeepUp' BY <2>1 DEF PollsKeepUp, Start
  <2>3. ASSUME NEW f \in facts PROVE InTime(f)'
    <3>1. Noticed(f) => Noticed(f)' BY NoticedLasts
    <3> QED BY <2>1, <3>1, SufficesSame DEF InTime, Ahead, Start
  <2> QED BY <2>2, <2>3
<1> QED BY <1>1, <1>2, <1>3 DEF NoticeInv

LEMMA WorldNotices ==
    ASSUME TypeOK, NoticeInv, Tick \/ Record \/ Withdraw
    PROVE  NoticeInv'
<1>0. UNCHANGED <<alerts, due, faults, pc, rule>> BY Recorded DEF Tick, Withdraw, local
<1>1. \A f : Noticed(f)' <=> Noticed(f) BY <1>0 DEF Noticed, AlertId, Deadline
<1>2. CASE Tick
  <2>1. now' = now + 1 /\ facts' = facts BY <1>2 DEF Tick
  <2>2. \A i \in AlertId' : alerts'[i].at <= now'
    <3>1. \A i \in AlertId : alerts[i].at \in Nat BY AlertTypes
    <3> QED BY <1>0, <2>1, <3>1, TimeTypes DEF NoticeInv, AlertId
  <2>3. PollsKeepUp => PollsKeepUp'
    <3>1. now < due + Slack /\ (pc[Daemon] # "idle" => now + Period < due + Slack)
      BY <1>2 DEF Tick
    <3> QED BY <1>0, <2>1, <3>1, TimeTypes DEF PollsKeepUp, Start
  <2> QED BY <1>0, <1>1, <2>1, <2>2, <2>3, SufficesSame
          DEF NoticeInv, RowsFit, InTime, Ahead, Start
<1>3. CASE Record \/ Withdraw
  <2>1. now' = now BY <1>3, Recorded DEF Withdraw
  <2>2. RowsFit'
    <3>1. CASE Withdraw
      BY <3>1, FS_Subset DEF Withdraw, NoticeInv, RowsFit
    <3>2. ASSUME NEW row,
                 IF row.rule \in PerSubject THEN row.subject \in Subject
                                            ELSE row.subject = Nobody,
                 facts' = facts \cup {row}
          PROVE  RowsFit'
      <4>1. IsFiniteSet(facts') BY <3>2, FS_AddElement DEF NoticeInv, RowsFit
      <4> QED BY <3>2, <4>1 DEF NoticeInv, RowsFit
    <3>3. CASE Record
      BY <3>2, <3>3, Recorded
    <3> QED BY <1>3, <3>1, <3>3
  <2>3. PollsKeepUp => PollsKeepUp' BY <1>0, <2>1 DEF PollsKeepUp, Start
  <2>4. ASSUME faults' = 0, NEW f \in facts' PROVE InTime(f)'
    <3>1. PollsKeepUp /\ \A g \in facts : InTime(g) BY <1>0, <2>4 DEF NoticeInv
    <3> SUFFICES ASSUME Suffices(f)', ~(Start <= f.stored) PROVE InTime(f)'
      BY <1>0 DEF InTime, Start
    <3>2. f.stored \in Nat BY RowTypes DEF Next
    <3>3. ~(now <= f.stored) BY <3>1, <3>2, TimeTypes DEF PollsKeepUp
    <3>4. f \in facts /\ Suffices(f) BY <3>3, SufficesBefore DEF NoticeInv, Next
    <3> QED BY <1>0, <1>1, <3>1, <3>4 DEF InTime, Ahead, Start
  <2> QED BY <1>0, <2>1, <2>2, <2>3, <2>4 DEF NoticeInv, AlertId
<1> QED BY <1>2, <1>3

LEMMA BeginNotices ==
    ASSUME TypeOK, NoticeInv, Begin(Daemon)
    PROVE  NoticeInv'
<1>1. UNCHANGED <<now, facts, alerts, faults>> /\ now >= due /\ due' = now + Period
      /\ pc[Daemon] = "idle"
  BY DEF Begin
<1>2. pc'[Daemon] = "check" /\ rule'[Daemon] = 1
  BY RuleOne, TimeTypes DEF Begin, GoTo, TypeOK
<1>3. Start' = now BY <1>1, TimeTypes DEF Start
<1>4. ASSUME faults = 0 PROVE PollsKeepUp' /\ \A f \in facts : InTime(f)'
  <2>1. PollsKeepUp /\ \A f \in facts : InTime(f) BY <1>4 DEF NoticeInv
  <2>2. PollsKeepUp' BY <1>1, <1>3, TimeTypes DEF PollsKeepUp
  <2>3. ASSUME NEW f \in facts, Suffices(f), ~Noticed(f) PROVE InTime(f)'
    <3>1. Start <= f.stored BY <1>1, <2>1, <2>3 DEF InTime, Ahead
    <3>2. now <= Start + Period + Slack BY <2>1 DEF PollsKeepUp
    <3>3. f.rule \in Rule /\ f.at \in Nat /\ f.stored \in Nat BY FactTypes
    <3>4. Ahead(f)' BY <1>2, <3>3 DEF Ahead, Rule
    <3>5. now <= f.stored \/ (f.stored <= now /\ now <= f.stored + Period + Slack)
      BY <3>1, <3>2, <3>3, TimeTypes
    <3> QED BY <1>3, <3>4, <3>5 DEF InTime
  <2>4. \A f \in facts : (Suffices(f)' <=> Suffices(f)) /\ (Noticed(f)' <=> Noticed(f))
    BY <1>1, SufficesSame DEF Noticed, AlertId, Deadline
  <2> QED BY <2>2, <2>3, <2>4 DEF InTime
<1> QED BY <1>1, <1>4 DEF NoticeInv, RowsFit, AlertId

\* The daemon goes on to a later rule, or stores an alert of the one it is at.
LEMMA EvaluateNotices ==
    ASSUME TypeOK, NoticeInv, Evaluate(Daemon)
    PROVE  NoticeInv'
<1>1. UNCHANGED <<now, facts, due>> /\ pc[Daemon] \in {"check", "query", "store"}
  BY DEF Evaluate, CheckRecent, Query, StoreAlert
<1>2. faults' \in {faults, faults + 1}
  BY DEF Evaluate, CheckRecent, Query, StoreAlert, Fail
<1>3. \/ alerts' = alerts
      \/ alerts' = Append(alerts, [rule |-> rule[Daemon], at |-> now, by |-> Daemon])
  BY DEF Evaluate, CheckRecent, Query, StoreAlert
<1>4. \A i \in AlertId' : alerts'[i].at <= now'
  <2>1. CASE alerts' = alerts BY <1>1, <2>1 DEF NoticeInv, AlertId
  <2>2. CASE alerts' = Append(alerts, [rule |-> rule[Daemon], at |-> now, by |-> Daemon])
    BY <1>1, <2>2, TimeTypes, StoredNow DEF NoticeInv
  <2> QED BY <1>3, <2>1, <2>2
<1>5. RowsFit' BY <1>1 DEF NoticeInv, RowsFit
<1>6. ASSUME faults' = 0 PROVE PollsKeepUp' /\ \A f \in facts : InTime(f)'
  <2>1. faults = 0 /\ PollsKeepUp /\ \A f \in facts : InTime(f)
    BY <1>2, <1>6, TimeTypes DEF NoticeInv
  <2>2. PollsKeepUp' BY <1>1, <2>1 DEF PollsKeepUp, Start
  <2>3. ASSUME NEW f \in facts, Suffices(f), ~(Start <= f.stored), ~Noticed(f),
               ~Noticed(f)'
        PROVE  Ahead(f)'
    <3>1. Ahead(f) /\ f.stored <= now /\ now <= Deadline(f)
      BY <2>1, <2>3, RaisedNotices
    <3>2. rule[Daemon] \in Rule /\ f.rule \in Rule /\ Rule \subseteq Nat
          /\ rule[Daemon] <= f.rule
      BY <3>1, FactTypes, TimeTypes DEF Ahead, TypeOK, Rule
    <3>3. Deadline(f) \in Nat BY FactTypes, TimeTypes DEF Deadline
    <3>4. Hits(f.rule) # {} BY <2>3, <3>1, HitsOne DEF NoticeInv
    <3>5. ~Recent(f.rule)
      <4> SUFFICES ASSUME NEW i \in AlertId, alerts[i].rule = f.rule,
                          alerts[i].at + Dedup[f.rule] >= now
                   PROVE  Noticed(f)
        BY <2>3 DEF Recent
      <4>1. alerts[i].at <= now /\ alerts[i].at \in Nat
        BY AlertTypes DEF NoticeInv
      <4>2. /\ alerts[i].at + Dedup[f.rule] >= f.stored
            /\ alerts[i].at <= Deadline(f)
        BY <3>1, <3>3, <4>1, FactTypes, TimeTypes
      <4> QED BY <4>2 DEF Noticed
    <3>6. CASE rule[Daemon] = f.rule
      <4>1. CASE CheckRecent(Daemon)
        <5>1. pc'[Daemon] = "query" /\ rule'[Daemon] = rule[Daemon]
          BY <1>6, <2>1, <3>5, <3>6, <4>1, TimeTypes DEF CheckRecent, Fail, TypeOK
        <5> QED BY <3>2, <5>1 DEF Ahead
      <4>2. CASE Query(Daemon)
        <5>1. pc'[Daemon] = "store" /\ rule'[Daemon] = rule[Daemon]
          BY <1>6, <2>1, <3>4, <3>6, <4>2, TimeTypes DEF Query, Fail, TypeOK
        <5> QED BY <3>2, <5>1 DEF Ahead
      <4>3. CASE StoreAlert(Daemon)
        <5>1. alerts' = Append(alerts, [rule |-> rule[Daemon], at |-> now, by |-> Daemon])
          BY <1>6, <2>1, <4>3 DEF StoreAlert, Fail
        <5>2. /\ Len(alerts) + 1 \in DOMAIN alerts'
              /\ alerts'[Len(alerts) + 1].rule = f.rule
              /\ alerts'[Len(alerts) + 1].at = now
          BY <3>6, <5>1, StoredTypes, AlertTypes, TimeTypes
        <5>3. now + Dedup[f.rule] >= f.stored BY <3>1, FactTypes, TimeTypes
        <5>4. Noticed(f)' BY <3>1, <5>2, <5>3 DEF Noticed, AlertId, Deadline
        <5> QED BY <2>3, <5>4
      <4> QED BY <4>1, <4>2, <4>3 DEF Evaluate
    <3>7. CASE rule[Daemon] # f.rule
      <4>1. rule[Daemon] + 1 \in Rule /\ rule[Daemon] + 1 <= f.rule
        BY <3>2, <3>7, NextRule
      <4>2. \/ UNCHANGED rule /\ pc'[Daemon] \in {"check", "query", "store"}
            \/ GoTo(Daemon, rule[Daemon] + 1)
        BY <1>1, <1>6, <2>1, TimeTypes DEF Evaluate, CheckRecent, Query, StoreAlert, Fail, TypeOK
      <4>3. GoTo(Daemon, rule[Daemon] + 1) =>
               rule'[Daemon] = rule[Daemon] + 1 /\ pc'[Daemon] = "check"
        BY <4>1, TimeTypes DEF GoTo, TypeOK
      <4> QED BY <3>2, <4>1, <4>2, <4>3 DEF Ahead
    <3> QED BY <3>6, <3>7
  <2>4. ASSUME NEW f \in facts PROVE InTime(f)'
    <3>1. Noticed(f) => Noticed(f)' BY <1>3, TimeTypes, NoticedLasts
    <3>2. (Suffices(f)' <=> Suffices(f)) /\ Start' = Start
      BY <1>1, SufficesSame DEF Start
    <3> QED BY <2>1, <2>3, <3>1, <3>2 DEF InTime
  <2> QED BY <2>2, <2>4
<1> QED BY <1>1, <1>4, <1>5, <1>6 DEF NoticeInv

LEMMA NoticeInit == Init => NoticeInv
<1> SUFFICES ASSUME Init PROVE NoticeInv OBVIOUS
<1>1. Start = 0 - Period /\ now = 0 /\ pc[Daemon] = "idle" /\ facts = {} /\ AlertId = {}
  BY EngineAssumption DEF Init, Start, AlertId
<1> QED BY <1>1, EngineAssumption, FS_EmptySet DEF NoticeInv, RowsFit, PollsKeepUp

LEMMA NoticeStep == TypeOK /\ NoticeInv /\ [Next]_vars => NoticeInv'
<1> SUFFICES ASSUME TypeOK, NoticeInv, [Next]_vars PROVE NoticeInv' OBVIOUS
<1>1. ASSUME NEW p \in Runner \ {Daemon}, Begin(p) \/ Evaluate(p) PROVE NoticeInv'
  <2>1. pc'[Daemon] = pc[Daemon] /\ rule'[Daemon] = rule[Daemon]
    BY <1>1, TimeTypes
       DEF Begin, Evaluate, CheckRecent, Query, StoreAlert, GoTo, TypeOK
  <2>2. now' = now /\ due' = due /\ facts' = facts
    BY <1>1 DEF Begin, Evaluate, CheckRecent, Query, StoreAlert
  <2>3. faults' \in {faults, faults + 1}
    BY <1>1 DEF Begin, Evaluate, CheckRecent, Query, StoreAlert, Fail
  <2>4. alerts' = alerts
        \/ alerts' = Append(alerts, [rule |-> rule[p], at |-> now, by |-> p])
    BY <1>1 DEF Begin, Evaluate, CheckRecent, Query, StoreAlert
  <2> QED BY <2>1, <2>2, <2>3, <2>4, TimeTypes, NoticeLasts
<1>2. CASE QueueNext
  <2>1. UNCHANGED <<now, facts, alerts, due, rule>> /\ pc[Daemon] = "queue"
        /\ pc'[Daemon] \in {"queue", "idle"}
    BY <1>2, TimeTypes DEF QueueNext, TypeOK
  <2>2. faults' \in {faults, faults + 1} BY <1>2 DEF QueueNext, Fail
  <2>3. ASSUME faults = 0 PROVE PollsKeepUp' /\ \A f \in facts : InTime(f)'
    <3>1. PollsKeepUp /\ \A f \in facts : InTime(f) BY <2>3 DEF NoticeInv
    <3>2. PollsKeepUp' BY <2>1, <3>1 DEF PollsKeepUp, Start
    <3>3. \A f \in facts : ~Ahead(f) BY <2>1 DEF Ahead
    <3>4. \A f : Noticed(f)' <=> Noticed(f) BY <2>1 DEF Noticed, AlertId, Deadline
    <3> QED BY <2>1, <3>1, <3>2, <3>3, <3>4, SufficesSame DEF InTime, Start
  <2> QED BY <2>1, <2>2, <2>3, TimeTypes DEF NoticeInv, RowsFit, AlertId
<1>3. ASSUME NEW p \in Runner, Kill(p) PROVE NoticeInv'
  <2>1. faults' # 0 BY <1>3, TimeTypes DEF Kill, Fail
  <2>2. UNCHANGED <<now, facts, alerts>> BY <1>3 DEF Kill
  <2> QED BY <2>1, <2>2 DEF NoticeInv, RowsFit, AlertId
<1>4. CASE UNCHANGED vars
  BY <1>4, TimeTypes, NoticeLasts DEF vars, local
<1> QED BY <1>1, <1>2, <1>3, <1>4, WorldNotices, BeginNotices, EvaluateNotices DEF Next

LEMMA NoticeImplies == TypeOK /\ NoticeInv => NoticedInTime
<1> SUFFICES ASSUME TypeOK, NoticeInv, NEW f \in facts, faults = 0, Suffices(f),
                    now > Deadline(f), ~Noticed(f)
             PROVE  FALSE
  BY DEF NoticedInTime, Noticed
<1>1. PollsKeepUp /\ InTime(f) BY DEF NoticeInv
<1>2. CASE Start <= f.stored
  BY <1>1, <1>2, FactTypes, TimeTypes DEF PollsKeepUp, Deadline
<1>3. CASE ~(Start <= f.stored)
  <2>1. now <= Deadline(f) BY <1>1, <1>3, RaisedNotices
  <2> QED BY <2>1, FactTypes, TimeTypes DEF Deadline
<1> QED BY <1>2, <1>3

\* Whatever happens often enough, in a time that the query still spans a poll
\* period and twice the slack later, is noticed by then, as long as nothing fails.
THEOREM NoticedSoon == Spec => []NoticedInTime
BY NoticeInit, NoticeStep, NoticeImplies, TypeCorrect, PTL DEF Spec
-----------------------------------------------------------------------------
(* What an error costs.                                                    *)

\* A nonempty set of naturals has a least element.  (The theorem of the library
\* takes an operator; this one goes by the well-founded order on finite sets.)
LEMMA LeastNatural ==
    ASSUME NEW T \in SUBSET Nat, T # {}
    PROVE  \E x \in T : \A y \in T : x <= y
<1> DEFINE R == StrictSubsetOrdering(Nat)
           U == {0..x : x \in T}
<1>1. IsWellFoundedOn(R, FiniteSubsetsOf(Nat))
  BY FS_StrictSubsetOrderingWellFounded
<1>2. U \subseteq FiniteSubsetsOf(Nat) /\ U # {}
  <2>1. ASSUME NEW x \in T PROVE 0..x \in FiniteSubsetsOf(Nat)
    <3>1. x \in Int /\ 0 \in Int
      OBVIOUS
    <3>2. IsFiniteSet(0..x)
      BY ONLY <3>1, FS_Interval
    <3>3. 0..x \subseteq Nat
      OBVIOUS
    <3> QED
      BY <3>2, <3>3 DEF FiniteSubsetsOf
  <2> QED
    BY <2>1
<1>3. PICK u \in U : \A v \in U : ~(<<v, u>> \in R)
  <2> HIDE DEF R, U
  <2> QED
    BY <1>1, <1>2, WFMin
<1>4. PICK x \in T : u = 0..x
  OBVIOUS
<1>5. ASSUME NEW y \in T, y < x PROVE FALSE
  <2>1. 0..y \subseteq 0..x
    BY <1>5
  <2>2. x \in 0..x /\ x \notin 0..y
    BY <1>5
  <2>3. 0..y \in SUBSET Nat /\ 0..x \in SUBSET Nat
    OBVIOUS
  <2>4. <<0..y, 0..x>> \in R
    BY <2>1, <2>2, <2>3, Zenon DEF StrictSubsetOrdering
  <2>5. 0..y \in U
    OBVIOUS
  <2> HIDE DEF R, U
  <2> QED
    BY <1>3, <1>4, <2>4, <2>5
<1> QED
  BY <1>5

\* There is a rule, or the end of the list, that AfterError picks: an error of an
\* evaluator passes over rules of the same evaluator and no other.
THEOREM ErrorSkips ==
    ASSUME NEW r \in Rule
    PROVE  /\ AfterError(r) \in (r + 1)..(Rules + 1)
           /\ AfterError(r) \in Rule => Evaluator[AfterError(r)] # Evaluator[r]
           /\ \A k \in (r + 1)..(AfterError(r) - 1) : Evaluator[k] = Evaluator[r]
<1> DEFINE Other(q) == q \in Rule => Evaluator[q] # Evaluator[r]
           T == {q \in (r + 1)..(Rules + 1) : Other(q)}
<1>1. r \in Nat /\ r <= Rules /\ Rules \in Nat BY EngineAssumption DEF Rule
<1>2. Rules + 1 \in T BY <1>1 DEF Rule
<1>3. T \in SUBSET Nat BY <1>1
<1>4. PICK q \in T : \A k \in T : q <= k
  <2> HIDE DEF T
  <2> QED BY <1>2, <1>3, LeastNatural
<1>5. q \in (r + 1)..(Rules + 1) /\ Other(q) OBVIOUS
<1>6. \A k \in (r + 1)..(q - 1) : Evaluator[k] = Evaluator[r]
  <2> SUFFICES ASSUME NEW k \in (r + 1)..(q - 1), Evaluator[k] # Evaluator[r] PROVE FALSE
    OBVIOUS
  <2>1. k \in T BY <1>1, <1>5
  <2>2. q <= k BY <1>4, <2>1
  <2> QED BY <1>1, <1>5, <2>2
<1> QED BY <1>5, <1>6 DEF AfterError

=============================================================================
