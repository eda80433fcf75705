------------------------------- MODULE CertScan -------------------------------
(***************************************************************************)
(* The TLS scanner (modules/ssl_monitor/scanner.py).  A scan lists the     *)
(* certificate files, parses one after the other, and then, for each of    *)
(* them, judges its health, counts its days and upserts its row, which is  *)
(* keyed by domain and path.  The alert engine reads the rows, not the     *)
(* files (modules/alerts/engine.py, _eval_ssl_expiring).                   *)
(*                                                                         *)
(* A certificate is its domain and the tick it expires at.  The code       *)
(* subtracts the local time from an expiry in UTC (scanner.py:129-130,     *)
(* 226, 245): the tick is the one at which its local clock shows the UTC   *)
(* expiry, early or late by the offset of the time zone, and days left are *)
(* counted to it.  An offset that changes (daylight saving) is left out.   *)
(***************************************************************************)
EXTENDS Host

CONSTANTS
    Path,
    Domain,
    Expiry,       \* the ticks certificates expire at
    DayLen,       \* ticks in a day
    CriticalDays, \* ssl_monitor.critical_days, and the 7 of ssl_expiring_7d
    WarnDays,     \* ssl_monitor.warn_days
    Slack         \* lateness of the daemon's scan, and duration of it

ASSUME CertAssumption ==
    /\ Expiry \subseteq Nat
    /\ DayLen \in Nat \ {0}
    /\ CriticalDays \in Nat /\ WarnDays \in Nat /\ CriticalDays <= WarnDays
    /\ Slack \in Nat

VARIABLES
    disk,    \* [Path -> certificate]
    rows,    \* the table ssl_certificates
    todo,    \* files each scan has still to parse
    parsed,  \* certificates it has still to store
    held,    \* the one it is storing, with the health it was given
    (*** observers ***)
    since,   \* [Path -> when the file came to be what it is]
    current, \* <<runner, path>>: what the scan has read is what the file still says
    settled, \* paths whose content a scan has stored
    warned   \* <<path, domain, expires>> the 7-day rule would have selected

certVars == <<disk, rows, todo, parsed, held, since, current, settled, warned>>
certLocal == <<todo, parsed, held>>

NoFile == [domain |-> "none", expires |-> 0]
File   == [domain : Domain, expires : Expiry]
Cert   == [path : Path, domain : Domain, expires : Expiry]
Health == {"healthy", "warning", "critical"}

CertInit ==
    /\ disk = [p \in Path |-> NoFile]
    /\ rows = {}
    /\ todo = [r \in Runner |-> {}]
    /\ parsed = [r \in Runner |-> {}]
    /\ held = [r \in Runner |-> {}]
    /\ since = [p \in Path |-> 0]
    /\ current = {}
    /\ settled = {}
    /\ warned = {}

-----------------------------------------------------------------------------
\* issued, renewed in place, renewed for another domain, or deleted
ChangeFile(p) ==
    /\ Change("certs")
    /\ \E f \in (File \cup {NoFile}) \ {disk[p]} : disk' = [disk EXCEPT ![p] = f]
    /\ since' = [since EXCEPT ![p] = now]
    /\ current' = {c \in current : c[2] # p}
    /\ settled' = settled \ {p}
    /\ UNCHANGED <<rows, certLocal, warned>>

\* (expiry - datetime.now()).days rounds towards minus infinity
DaysRemaining(expires) == (expires - now) \div DayLen

\* Mutant: an expired certificate gets a status the column's ENUM does not have.
EvaluateHealthExpired(expires) ==
    IF DaysRemaining(expires) < 0 THEN "expired"
    ELSE IF DaysRemaining(expires) <= CriticalDays THEN "critical"
    ELSE IF DaysRemaining(expires) <= WarnDays THEN "warning" ELSE "healthy"

EvaluateHealth(expires) ==
    IF DaysRemaining(expires) <= CriticalDays THEN "critical"
    ELSE IF DaysRemaining(expires) <= WarnDays THEN "warning" ELSE "healthy"

\* Mutant: certificates in their last two days are left out.
SelectedLate(row) == row.days <= CriticalDays /\ row.days > 1

\* the WHERE clause of ssl_expiring_7d
Selected(row) == row.days <= CriticalDays /\ row.days > 0

\* _find_cert_files, in the daemon's slow poll and in api_ssl_scan
FindCertFiles(r) ==
    /\ Call(r, "certs", "parse")
    /\ todo' = [todo EXCEPT ![r] = {p \in Path : disk[p] # NoFile}]
    /\ UNCHANGED <<disk, rows, parsed, held, since, current, settled, warned>>

\* parse_certificate: a file that has gone, or that neither parser can read, is
\* counted as an error and skipped
ParseCertificate(r) ==
    /\ At(r, "certs", "parse")
    /\ \E p \in todo[r] :
          /\ todo' = [todo EXCEPT ![r] = @ \ {p}]
          /\ \/ /\ disk[p] # NoFile
                /\ parsed' = [parsed EXCEPT ![r] = @ \cup
                                 {[path |-> p, domain |-> disk[p].domain,
                                   expires |-> disk[p].expires]}]
                /\ current' = current \cup {<<r, p>>}
                /\ UNCHANGED faults
             \/ /\ disk[p] = NoFile
                /\ UNCHANGED <<parsed, current, faults>>
             \/ /\ Fail
                /\ UNCHANGED <<parsed, current>>
    /\ UNCHANGED <<job, step, now, has, due, overlap, calls, changes>>
    /\ UNCHANGED <<disk, rows, held, since, settled, warned>>

\* the first lines of the loop of store_certificates; or the scan is over
JudgeNext(r) ==
    /\ At(r, "certs", "parse") /\ todo[r] = {}
    /\ IF parsed[r] = {}
       THEN Return(r) /\ UNCHANGED <<parsed, held>>
       ELSE \E c \in parsed[r] :
               /\ parsed' = [parsed EXCEPT ![r] = @ \ {c}]
               /\ held' = [held EXCEPT ![r] =
                              {[cert |-> c, status |-> EvaluateHealth(c.expires)]}]
               /\ GoOn(r, "store")
    /\ UNCHANGED <<now, has, due, overlap, calls, changes, faults>>
    /\ UNCHANGED <<disk, rows, todo, since, current, settled, warned>>

RowOf(h) == [path |-> h.cert.path, domain |-> h.cert.domain,
             expires |-> h.cert.expires, status |-> h.status,
             days |-> DaysRemaining(h.cert.expires)]

SameKey(row, c) == row.path = c.path /\ row.domain = c.domain

\* Mutant: INSERT IGNORE, which leaves the row as it is.
UpsertedOnce(h) ==
    IF \E row \in rows : SameKey(row, h.cert) THEN rows ELSE rows \cup {RowOf(h)}

\* Mutant: the status is left as it was first written.
UpsertedStatusKept(h) ==
    {row \in rows : ~SameKey(row, h.cert)} \cup
    {[RowOf(h) EXCEPT !.status =
         IF \E row \in rows : SameKey(row, h.cert)
         THEN (CHOOSE row \in rows : SameKey(row, h.cert)).status ELSE @]}

\* INSERT ... ON DUPLICATE KEY UPDATE
Upserted(h) == {row \in rows : ~SameKey(row, h.cert)} \cup {RowOf(h)}

\* days_remaining and the upsert: an error skips this certificate
StoreCertificate(r) ==
    /\ At(r, "certs", "store")
    /\ \E h \in held[r] :
          /\ \/ /\ rows' = Upserted(h)
                /\ settled' = IF <<r, h.cert.path>> \in current
                              THEN settled \cup {h.cert.path} ELSE settled
                /\ warned' = warned \cup {<<row.path, row.domain, row.expires>> :
                                             row \in {q \in rows' : Selected(q)}}
                /\ UNCHANGED faults
             \/ /\ Fail
                /\ UNCHANGED <<rows, settled, warned>>
          /\ current' = current \ {<<r, h.cert.path>>}
    /\ held' = [held EXCEPT ![r] = {}]
    /\ GoOn(r, "parse")
    /\ UNCHANGED <<now, has, due, overlap, calls, changes>>
    /\ UNCHANGED <<disk, todo, parsed, since>>

CertKill(killed) ==
    /\ todo' = Forgotten(todo, killed, {})
    /\ parsed' = Forgotten(parsed, killed, {})
    /\ held' = Forgotten(held, killed, {})
    /\ current' = {c \in current : c[1] \notin killed}
    /\ UNCHANGED <<disk, rows, since, settled, warned>>

CertNext ==
    \/ \E p \in Path : ChangeFile(p)
    \/ \E r \in Runner : \/ FindCertFiles(r) \/ ParseCertificate(r)
                         \/ JudgeNext(r) \/ StoreCertificate(r)

\* The scheduler's loop comes round at most Slack after the scan is due, and a
\* scan lasts at most Slack: the clock does not go on before.
ScansKeepUp ==
    "certs" \in has =>
        /\ now < due["certs"] + Slack
        /\ job[Daemon] = "certs" => now + Period < due["certs"] + Slack

-----------------------------------------------------------------------------
(* Properties                                                              *)

CertTypeOK ==
    /\ disk \in [Path -> File \cup {NoFile}]
    /\ rows \subseteq [path : Path, domain : Domain, expires : Expiry,
                       status : Health, days : Int]
    /\ todo \in [Runner -> SUBSET Path]
    /\ parsed \in [Runner -> SUBSET Cert]
    /\ held \in [Runner -> SUBSET [cert : Cert, status : Health]]
    /\ since \in [Path -> Nat]
    /\ current \subseteq Runner \X Path
    /\ settled \subseteq Path
    /\ warned \subseteq Path \X Domain \X Expiry

\* The status and the days of a row come from two readings of the clock, and a
\* scan may be slow or overtaken by another: still a row never shows a status
\* worse than its days, so that a badge "critical" is never one the 7-day rule
\* has yet to reach, and never fewer days than are left.
BadgeTrailsDays ==
    \A row \in rows :
        /\ row.status = "critical" => row.days <= CriticalDays
        /\ row.status # "healthy" => row.days <= WarnDays
        /\ row.days >= DaysRemaining(row.expires)

\* The rows follow the files: once a scan has stored what a file says, there is
\* a row with that domain, path and date until the file changes again, unless
\* two scans overlapped, of which the older may write last.
RowsFollowFiles ==
    "certs" \notin overlap =>
        \A p \in settled :
            \E row \in rows : /\ row.path = p
                              /\ row.domain = disk[p].domain
                              /\ row.expires = disk[p].expires

\* No certificate slips through between "more than seven days" and "days
\* remaining > 0": one that is on disk long enough before its last day begins
\* for the daemon to scan it has been a row the 7-day rule selects.
WarnedBeforeLastDay ==
    faults = 0 =>
        \A p \in Path :
            LET e        == disk[p].expires
                opens    == e - (CriticalDays + 1) * DayLen + 1
                from     == IF since[p] > opens THEN since[p] ELSE opens
                deadline == from + Period + 2 * Slack
            IN  (/\ disk[p] # NoFile
                 /\ deadline <= e - DayLen
                 /\ now > deadline) => <<p, disk[p].domain, e>> \in warned
=============================================================================
