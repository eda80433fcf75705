------------------------------ MODULE EventTable ------------------------------
(***************************************************************************)
(* What the ingestion pipeline promises the readers of the events table    *)
(* (dashboard, analytics, alert rules): rows are only ever added, and the  *)
(* same message of the same type is not added a second time within one     *)
(* period of its text, that is until the dedup window has gone by since it *)
(* was let pass, or the daemon was started anew.  LogIngest implements     *)
(* this specification.                                                     *)
(***************************************************************************)
EXTENDS Naturals

CONSTANT Line \* what messages say

VARIABLES table, \* the rows: records with the fields line, type, period, id
          period \* how many periods each text has begun

avars == <<table, period>>

AInit == table = {} /\ period = [l \in Line |-> 1]

SameEvent(e, f) == e.line = f.line /\ e.type = f.type /\ e.period = f.period

\* One INSERT adds a batch of messages, new ones in periods already begun.
Store ==
    /\ table \subseteq table'
    /\ \A e \in table' \ table :
          /\ e.period <= period[e.line]
          /\ \A f \in table' : SameEvent(e, f) => e = f
    /\ period' = period

\* The window has gone by for some texts, or all of it was lost.
NewPeriod ==
    /\ \E S \in SUBSET Line :
          period' = [l \in Line |-> IF l \in S THEN period[l] + 1 ELSE period[l]]
    /\ table' = table

ANext == Store \/ NewPeriod

ASpec == AInit /\ [][ANext]_avars
=============================================================================
