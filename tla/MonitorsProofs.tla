---------------------------- MODULE MonitorsProofs ----------------------------
(***************************************************************************)
(* Proofs about the monitors: type correctness, what each monitor's steps  *)
(* leave alone in the others, and the properties of the five monitors, for *)
(* any server, any number of panel threads and any bounds.                 *)
(***************************************************************************)
EXTENDS Monitors, TLAPS

-----------------------------------------------------------------------------
(* Type correctness                                                        *)

LEMMA CallTypes ==
    ASSUME HostTypeOK, NEW r \in Runner, NEW j \in Job, NEW s \in Stage, Call(r, j, s)
    PROVE  HostTypeOK'
BY HostAssumption DEF HostTypeOK, Call

LEMMA ReturnTypes ==
    ASSUME HostTypeOK, NEW r \in Runner, Return(r)
    PROVE  job' \in [Runner -> Job \cup {"none"}] /\ step' \in [Runner -> Stage]
BY DEF HostTypeOK, Return, Stage

LEMMA KillTypes ==
    ASSUME HostTypeOK, NEW killed, KillHost(killed)
    PROVE  HostTypeOK'
<1>1. job' \in [Runner -> Job \cup {"none"}]
  BY DEF HostTypeOK, KillHost
<1>2. step' \in [Runner -> Stage]
  BY DEF HostTypeOK, KillHost, Stage
<1>3. due' \in [Polled \cap has -> Nat] /\ {calls, changes, faults}' \subseteq Nat
  BY DEF HostTypeOK, KillHost, Fail
<1>4. now' \in Nat /\ has' \subseteq Job /\ overlap' \subseteq Job /\ has' = has
  BY DEF HostTypeOK, KillHost
<1> QED BY <1>1, <1>2, <1>3, <1>4 DEF HostTypeOK

LEMMA RowTypes ==
    ASSUME now \in Nat, NEW h \in [cert : Cert, status : Health]
    PROVE  RowOf(h) \in [path : Path, domain : Domain, expires : Expiry,
                         status : Health, days : Int]
<1>1. h.cert.expires - now \in Int
  <2>1. h.cert \in Cert OBVIOUS
  <2>2. h.cert.expires \in Nat BY <2>1, CertAssumption DEF Cert
  <2> QED BY <2>2
<1>2. DaysRemaining(h.cert.expires) \in Int
  BY <1>1, CertAssumption DEF DaysRemaining
<1> QED BY <1>2 DEF RowOf, Cert

LEMMA CertTypes ==
    ASSUME HostTypeOK, CertTypeOK, CertNext
    PROVE  HostTypeOK' /\ CertTypeOK'
<1>1. ASSUME NEW p \in Path, ChangeFile(p) PROVE HostTypeOK' /\ CertTypeOK'
  BY <1>1 DEF ChangeFile, Change, HostTypeOK, CertTypeOK, certLocal, File
<1>2. ASSUME NEW r \in Runner, FindCertFiles(r) PROVE HostTypeOK' /\ CertTypeOK'
  <2>1. HostTypeOK' BY <1>2, CallTypes DEF FindCertFiles, Job, Polled, Stage
  <2>2. CertTypeOK' BY <1>2 DEF FindCertFiles, CertTypeOK
  <2> QED BY <2>1, <2>2
<1>3. ASSUME NEW r \in Runner, ParseCertificate(r) PROVE HostTypeOK' /\ CertTypeOK'
  <2>1. HostTypeOK' BY <1>3 DEF ParseCertificate, HostTypeOK, Fail
  <2>2. parsed' \in [Runner -> SUBSET Cert]
    <3>1. ASSUME NEW p \in Path, disk[p] # NoFile
          PROVE  [path |-> p, domain |-> disk[p].domain, expires |-> disk[p].expires] \in Cert
      BY <3>1 DEF CertTypeOK, File, Cert
    <3> QED BY <1>3, <3>1 DEF ParseCertificate, CertTypeOK
  <2>3. /\ todo' \in [Runner -> SUBSET Path]
        /\ current' \subseteq Runner \X Path
    BY <1>3 DEF ParseCertificate, CertTypeOK
  <2> QED BY <1>3, <2>1, <2>2, <2>3 DEF ParseCertificate, CertTypeOK
<1>4. ASSUME NEW r \in Runner, JudgeNext(r) PROVE HostTypeOK' /\ CertTypeOK'
  <2>1. HostTypeOK' BY <1>4, ReturnTypes DEF JudgeNext, HostTypeOK, GoOn, Stage
  <2>2. /\ parsed' \in [Runner -> SUBSET Cert]
        /\ held' \in [Runner -> SUBSET [cert : Cert, status : Health]]
    BY <1>4 DEF JudgeNext, CertTypeOK, EvaluateHealth, Health
  <2> QED BY <1>4, <2>1, <2>2 DEF JudgeNext, CertTypeOK
<1>5. ASSUME NEW r \in Runner, StoreCertificate(r) PROVE HostTypeOK' /\ CertTypeOK'
  <2>1. HostTypeOK'
    <3>1. job' \in [Runner -> Job \cup {"none"}] /\ step' \in [Runner -> Stage]
      BY <1>5 DEF StoreCertificate, HostTypeOK, GoOn, Stage
    <3>2. {calls, changes, faults}' \subseteq Nat
      BY <1>5 DEF StoreCertificate, HostTypeOK, Fail
    <3> QED BY <1>5, <3>1, <3>2 DEF StoreCertificate, HostTypeOK
  <2> DEFINE R == [path : Path, domain : Domain, expires : Expiry, status : Health, days : Int]
  <2>2. rows' \subseteq R
    BY <1>5, RowTypes DEF StoreCertificate, Upserted, CertTypeOK, HostTypeOK
  <2>3. ASSUME NEW h \in held[r], rows' = Upserted(h),
               warned' = warned \cup {<<row.path, row.domain, row.expires>> :
                                        row \in {q \in rows' : Selected(q)}}
        PROVE  warned' \subseteq Path \X Domain \X Expiry
    BY <2>2, <2>3 DEF CertTypeOK
  <2>4. warned' \subseteq Path \X Domain \X Expiry
    BY <1>5, <2>3 DEF StoreCertificate, CertTypeOK
  <2>5. /\ settled' \subseteq Path
        /\ current' \subseteq Runner \X Path
        /\ held' \in [Runner -> SUBSET [cert : Cert, status : Health]]
    BY <1>5 DEF StoreCertificate, CertTypeOK, Cert
  <2> QED BY <1>5, <2>1, <2>2, <2>4, <2>5 DEF StoreCertificate, CertTypeOK
<1> QED BY <1>1, <1>2, <1>3, <1>4, <1>5 DEF CertNext

LEMMA HidesTypes ==
    ASSUME ServiceTypeOK, NEW r \in Runner, NEW u \in Unit, Hides(r, u)
    PROVE  during' \in [Runner -> [Unit -> SUBSET Seen]]
<1>1. "hidden" \in Seen BY DEF Seen
<1> QED BY <1>1 DEF Hides, ServiceTypeOK

LEMMA ServiceTypes ==
    ASSUME HostTypeOK, ServiceTypeOK, ServiceNext
    PROVE  HostTypeOK' /\ ServiceTypeOK'
<1>1. ASSUME NEW u \in Unit, ChangeUnit(u) PROVE HostTypeOK' /\ ServiceTypeOK'
  <2>1. HostTypeOK' BY <1>1 DEF ChangeUnit, Change, HostTypeOK
  <2>2. PICK s \in UnitState :
           /\ unit' = [unit EXCEPT ![u] = s]
           /\ during' = [r \in Runner |-> IF job[r] = "services"
                                          THEN [during[r] EXCEPT ![u] = @ \cup {s}] ELSE during[r]]
    BY <1>1 DEF ChangeUnit
  <2>3. s \in Seen BY DEF Seen
  <2>4. ASSUME NEW r \in Runner PROVE during'[r] \in [Unit -> SUBSET Seen]
    BY <2>2, <2>3 DEF ServiceTypeOK
  <2>5. during' \in [Runner -> [Unit -> SUBSET Seen]] BY <2>2, <2>4
  <2> QED BY <1>1, <2>1, <2>2, <2>5 DEF ChangeUnit, ServiceTypeOK
<1>2. ASSUME NEW r \in Runner, CheckAll(r) PROVE HostTypeOK' /\ ServiceTypeOK'
  <2>1. HostTypeOK' BY <1>2, CallTypes DEF CheckAll, Job, Polled, Stage
  <2>2. [u \in Unit |-> {unit[u]}] \in [Unit -> SUBSET Seen] BY DEF ServiceTypeOK, Seen
  <2>3. ServiceTypeOK' BY <1>2, <2>2 DEF CheckAll, ServiceTypeOK
  <2> QED BY <2>1, <2>3
<1>3. ASSUME NEW r \in Runner, IsActive(r) PROVE HostTypeOK' /\ ServiceTypeOK'
  <2>1. HostTypeOK'
    <3>1. job' \in [Runner -> Job \cup {"none"}] /\ step' \in [Runner -> Stage]
      BY <1>3 DEF IsActive, HostTypeOK, GoOn, Stage
    <3>2. {calls, changes, faults}' \subseteq Nat
      BY <1>3 DEF IsActive, HostTypeOK, Fail
    <3> QED BY <1>3, <3>1, <3>2 DEF IsActive, HostTypeOK
  <2>2. /\ unasked' \in [Runner -> SUBSET Unit]
        /\ asked' \in [Runner -> SUBSET Unit]
        /\ answers' \in [Runner -> SUBSET Answer]
    <3>1. \A u \in unasked[r] : u \in Unit /\ StatusMap(u) \in Answer
      BY DEF ServiceTypeOK, StatusMap, Answer, SvcStatus
    <3>2. unasked' \in [Runner -> SUBSET Unit] BY <1>3 DEF IsActive, ServiceTypeOK
    <3>3. asked' \in [Runner -> SUBSET Unit] BY <1>3, <3>1 DEF IsActive, ServiceTypeOK
    <3>4. answers' \in [Runner -> SUBSET Answer] BY <1>3, <3>1 DEF IsActive, ServiceTypeOK
    <3> QED BY <3>2, <3>3, <3>4
  <2>3. during' \in [Runner -> [Unit -> SUBSET Seen]]
    <3>1. \A u \in unasked[r] : u \in Unit BY DEF ServiceTypeOK
    <3> QED BY <1>3, <3>1, HidesTypes DEF IsActive, ServiceTypeOK
  <2> QED BY <1>3, <2>1, <2>2, <2>3 DEF IsActive, ServiceTypeOK
<1>4. ASSUME NEW r \in Runner, IsEnabled(r) PROVE HostTypeOK' /\ ServiceTypeOK'
  <2>1. HostTypeOK'
    <3>1. job' \in [Runner -> Job \cup {"none"}] /\ step' \in [Runner -> Stage]
      BY <1>4 DEF IsEnabled, HostTypeOK, GoOn, Stage
    <3>2. {calls, changes, faults}' \subseteq Nat
      BY <1>4 DEF IsEnabled, HostTypeOK, Fail
    <3> QED BY <1>4, <3>1, <3>2 DEF IsEnabled, HostTypeOK
  <2>2. /\ asked' \in [Runner -> SUBSET Unit]
        /\ answers' \in [Runner -> SUBSET Answer]
    BY <1>4 DEF IsEnabled, ServiceTypeOK, NotActive, Answer, SvcStatus
  <2>3. during' \in [Runner -> [Unit -> SUBSET Seen]]
    <3>1. \A u \in asked[r] : u \in Unit BY DEF ServiceTypeOK
    <3> QED BY <1>4, <3>1, HidesTypes DEF IsEnabled, ServiceTypeOK
  <2> QED BY <1>4, <2>1, <2>2, <2>3 DEF IsEnabled, ServiceTypeOK
<1>5. ASSUME NEW r \in Runner, StoreServiceStatus(r) PROVE HostTypeOK' /\ ServiceTypeOK'
  <2>1. HostTypeOK' BY <1>5, ReturnTypes DEF StoreServiceStatus, HostTypeOK, Fail
  <2>2. answers' \in [Runner -> SUBSET Answer]
    BY <1>5 DEF StoreServiceStatus, ServiceTypeOK
  <2>3. /\ during' \in [Runner -> [Unit -> SUBSET Seen]]
        /\ told' \in [Unit -> SUBSET Seen]
    BY <1>5 DEF StoreServiceStatus, ServiceTypeOK, Unseen
  <2>4. history' \subseteq [unit : Unit, status : SvcStatus, at : Nat]
    BY <1>5 DEF StoreServiceStatus, ServiceTypeOK, HostTypeOK, Answer
  <2> QED BY <1>5, <2>1, <2>2, <2>3, <2>4 DEF StoreServiceStatus, ServiceTypeOK
<1> QED BY <1>1, <1>2, <1>3, <1>4, <1>5 DEF ServiceNext

LEMMA JailTypes ==
    ASSUME HostTypeOK, JailTypeOK, JailNext
    PROVE  HostTypeOK' /\ JailTypeOK'
<1>1. ASSUME NEW j \in Jail, Ban(j) \/ Unban(j) PROVE HostTypeOK' /\ JailTypeOK'
  <2>1. HostTypeOK'
    <3>1. now' = now /\ has' = has /\ due' = due /\ job' = job /\ step' = step
      BY <1>1 DEF Ban, Unban, Change
    <3>2. overlap' = overlap /\ {calls, changes, faults}' \subseteq Nat
      BY <1>1 DEF Ban, Unban, Change, HostTypeOK
    <3> QED BY <3>1, <3>2 DEF HostTypeOK
  <2>2. bans' \in [Jail -> Bans] BY <1>1 DEF Ban, Unban, JailTypeOK, Bans
  <2> QED BY <1>1, <2>1, <2>2 DEF Ban, Unban, JailTypeOK
<1>2. ASSUME Reload PROVE HostTypeOK' /\ JailTypeOK'
  <2>1. HostTypeOK' BY <1>2 DEF Reload, Change, HostTypeOK
  <2>2. bans' \in [Jail -> Bans] BY <1>2 DEF Reload, JailTypeOK, Bans, None
  <2> QED BY <1>2, <2>1, <2>2 DEF Reload, JailTypeOK
<1>3. ASSUME NEW r \in Runner, ListJails(r) PROVE HostTypeOK' /\ JailTypeOK'
  <2>1. HostTypeOK' BY <1>3, CallTypes DEF ListJails, Job, Polled, Stage
  <2>2. JailTypeOK' BY <1>3 DEF ListJails, JailTypeOK
  <2> QED BY <2>1, <2>2
<1>4. ASSUME NEW r \in Runner, GetJailStatus(r) PROVE HostTypeOK' /\ JailTypeOK'
  <2>1. HostTypeOK' BY <1>4 DEF GetJailStatus, HostTypeOK, Fail
  <2>2. /\ names' \in [Runner -> SUBSET Jail]
        /\ figures' \in [Runner -> SUBSET [jail : Jail, bans : Bans]]
        /\ lapsed' \subseteq Jail
    BY <1>4 DEF GetJailStatus, JailTypeOK, None, Bans
  <2> QED BY <1>4, <2>1, <2>2 DEF GetJailStatus, JailTypeOK
<1>5. ASSUME NEW r \in Runner, StoreJail(r) PROVE HostTypeOK' /\ JailTypeOK'
  <2>1. HostTypeOK' BY <1>5, ReturnTypes DEF StoreJail, HostTypeOK, Fail
  <2>2. /\ figures' \in [Runner -> SUBSET [jail : Jail, bans : Bans]]
        /\ jailRows' \in [Jail -> Bans \cup {NoRow}]
    BY <1>5 DEF StoreJail, JailTypeOK, Figure
  <2> QED BY <1>5, <2>1, <2>2 DEF StoreJail, JailTypeOK
<1> QED BY <1>1, <1>2, <1>3, <1>4, <1>5 DEF JailNext

LEMMA GeoTypes ==
    ASSUME HostTypeOK, GeoTypeOK, GeoNext
    PROVE  HostTypeOK' /\ GeoTypeOK'
<1>1. ASSUME NEW r \in Runner, NEW ip \in IP, LookupIp(r, ip) PROVE HostTypeOK' /\ GeoTypeOK'
  <2>1. HostTypeOK' BY <1>1, CallTypes DEF LookupIp, Job, Stage
  <2>2. GeoTypeOK' BY <1>1 DEF LookupIp, GeoTypeOK
  <2> QED BY <2>1, <2>2
<1>7. ASSUME NEW r \in Runner, CacheLookup(r) PROVE HostTypeOK' /\ GeoTypeOK'
  <2>1. HostTypeOK'
    <3>1. job' \in [Runner -> Job \cup {"none"}] /\ step' \in [Runner -> Stage]
      BY <1>7, ReturnTypes DEF CacheLookup, HostTypeOK, GoOn, Stage
    <3>2. {calls, changes, faults}' \subseteq Nat
      BY <1>7 DEF CacheLookup, HostTypeOK, Fail
    <3> QED BY <1>7, <3>1, <3>2 DEF CacheLookup, HostTypeOK
  <2>2. GeoTypeOK' BY <1>7 DEF CacheLookup, GeoTypeOK
  <2> QED BY <2>1, <2>2
<1>2. ASSUME NEW r \in Runner, LoadReaders(r) PROVE HostTypeOK' /\ GeoTypeOK'
  <2>1. HostTypeOK' BY <1>2 DEF LoadReaders, HostTypeOK, GoOn, Stage
  <2>2. GeoTypeOK' BY <1>2 DEF LoadReaders, GeoTypeOK
  <2> QED BY <2>1, <2>2
<1>3. ASSUME NEW r \in Runner, NEW p \in Part, NEW a, NEW s \in Stage, LoadReader(r, p, a, s)
      PROVE  HostTypeOK' /\ GeoTypeOK'
  <2>1. HostTypeOK'
    <3>1. job' \in [Runner -> Job \cup {"none"}] /\ step' \in [Runner -> Stage]
      BY <1>3 DEF LoadReader, HostTypeOK, GoOn
    <3>2. {calls, changes, faults}' \subseteq Nat
      BY <1>3 DEF LoadReader, HostTypeOK, Fail
    <3> QED BY <1>3, <3>1, <3>2 DEF LoadReader, HostTypeOK
  <2>2. GeoTypeOK' BY <1>3 DEF LoadReader, GeoTypeOK
  <2> QED BY <2>1, <2>2
<1>4. ASSUME NEW r \in Runner, NEW p \in Part, NEW a, NEW s \in Stage, Resolve(r, p, a, s)
      PROVE  HostTypeOK' /\ GeoTypeOK'
  <2>1. HostTypeOK'
    <3>1. job' \in [Runner -> Job \cup {"none"}] /\ step' \in [Runner -> Stage]
      BY <1>4 DEF Resolve, HostTypeOK, GoOn
    <3>2. {calls, changes, faults}' \subseteq Nat
      BY <1>4 DEF Resolve, HostTypeOK, Fail
    <3> QED BY <1>4, <3>1, <3>2 DEF Resolve, HostTypeOK
  <2>2. result' \in [Runner -> SUBSET Part] /\ flawed' \subseteq IP
    BY <1>4 DEF Resolve, GeoTypeOK
  <2> QED BY <1>4, <2>1, <2>2 DEF Resolve, GeoTypeOK
<1>5. ASSUME NEW r \in Runner, CacheStore(r) PROVE HostTypeOK' /\ GeoTypeOK'
  <2>1. HostTypeOK' BY <1>5, ReturnTypes DEF CacheStore, HostTypeOK, Fail
  <2>2. /\ cache' \in [IP -> SUBSET Part]
        /\ asking' \in [Runner -> SUBSET IP]
        /\ result' \in [Runner -> SUBSET Part]
    BY <1>5 DEF CacheStore, GeoTypeOK
  <2> QED BY <1>5, <2>1, <2>2 DEF CacheStore, GeoTypeOK
<1>6. ASSUME CopyToAttackers PROVE HostTypeOK' /\ GeoTypeOK'
  <2>1. HostTypeOK' BY <1>6 DEF CopyToAttackers, HostTypeOK, hostVars
  <2>2. attacker' \in [IP -> SUBSET Part] BY <1>6 DEF CopyToAttackers, GeoTypeOK
  <2> QED BY <1>6, <2>1, <2>2 DEF CopyToAttackers, GeoTypeOK
<1> QED BY <1>1, <1>2, <1>3, <1>4, <1>5, <1>6, <1>7
        DEF GeoNext, LoadCity, LoadAsn, LookupCity, LookupAsn, Runner, Part, Stage

LEMMA ActiveTypes ==
    ASSUME HostTypeOK, ActiveTypeOK, ActiveNext
    PROVE  HostTypeOK' /\ ActiveTypeOK'
<1>1. ASSUME ChangeLogins PROVE HostTypeOK' /\ ActiveTypeOK'
  BY <1>1 DEF ChangeLogins, Change, HostTypeOK, ActiveTypeOK
<1>2. ASSUME NEW r \in Runner, GetActiveSessions(r) PROVE HostTypeOK' /\ ActiveTypeOK'
  <2>1. HostTypeOK' BY <1>2, CallTypes DEF GetActiveSessions, Job, Stage
  <2>2. ActiveTypeOK' BY <1>2 DEF GetActiveSessions, ActiveTypeOK
  <2> QED BY <2>1, <2>2
<1>3. ASSUME NEW r \in Runner, RunWho(r) PROVE HostTypeOK' /\ ActiveTypeOK'
  <2>1. HostTypeOK'
    <3>1. step' \in [Runner -> Stage] BY <1>3 DEF RunWho, HostTypeOK, Stage
    <3>2. {calls, changes, faults}' \subseteq Nat BY <1>3 DEF RunWho, HostTypeOK, Fail
    <3> QED BY <1>3, <3>1, <3>2 DEF RunWho, HostTypeOK
  <2>2. ActiveTypeOK' BY <1>3 DEF RunWho, ActiveTypeOK
  <2> QED BY <2>1, <2>2
<1>4. ASSUME NEW r \in Runner, RunW(r) PROVE HostTypeOK' /\ ActiveTypeOK'
  <2>1. HostTypeOK'
    <3>1. step' \in [Runner -> Stage] BY <1>4 DEF RunW, HostTypeOK, Stage
    <3>2. {calls, changes, faults}' \subseteq Nat BY <1>4 DEF RunW, HostTypeOK, Fail
    <3> QED BY <1>4, <3>1, <3>2 DEF RunW, HostTypeOK
  <2>2. \A w \in ParsedW \cup {{}} : MergeSessions(listed[r], w) \subseteq Listing
    <3>1. ASSUME NEW w \in ParsedW \cup {{}} PROVE w \subseteq Session
      BY <3>1 DEF ParsedW, ActiveTypeOK
    <3>2. listed[r] \subseteq Session BY DEF ActiveTypeOK
    <3>3. ASSUME NEW w, NEW s \in Session PROVE [session |-> s, idle |-> s \in w] \in Listing
      <4>1. (s \in w) \in BOOLEAN OBVIOUS
      <4> QED BY <4>1, Zenon DEF Listing
    <3> QED BY <3>1, <3>2, <3>3 DEF MergeSessions
  <2>3. answer' \in [Runner -> SUBSET Listing]
    BY <1>4, <2>2 DEF RunW, ActiveTypeOK
  <2> QED BY <1>4, <2>1, <2>3 DEF RunW, ActiveTypeOK
<1>5. ASSUME NEW r \in Runner, Answered(r) PROVE HostTypeOK' /\ ActiveTypeOK'
  <2>1. HostTypeOK' BY <1>5, ReturnTypes DEF Answered, HostTypeOK
  <2>2. ActiveTypeOK' BY <1>5 DEF Answered, ActiveTypeOK
  <2> QED BY <2>1, <2>2
<1> QED BY <1>1, <1>2, <1>3, <1>4, <1>5 DEF ActiveNext

\* The variables of the monitors keep their types, on any server, with any
\* number of panel threads and through kills.
THEOREM TypeCorrect == Spec => []TypeOK
<1>1. Init => TypeOK
  <2>1. HostInit => HostTypeOK BY DEF HostInit, HostTypeOK, Stage
  <2>2. CertInit => CertTypeOK BY DEF CertInit, CertTypeOK, NoFile
  <2>3. ServiceInit => ServiceTypeOK BY DEF ServiceInit, ServiceTypeOK, UnitState, Unseen
  <2>4. JailInit => JailTypeOK BY DEF JailInit, JailTypeOK, Bans, None
  <2>5. GeoInit => GeoTypeOK BY DEF GeoInit, GeoTypeOK
  <2>6. ActiveInit => ActiveTypeOK BY DEF ActiveInit, ActiveTypeOK
  <2> QED BY <2>1, <2>2, <2>3, <2>4, <2>5, <2>6 DEF Init, TypeOK
<1>2. TypeOK /\ [Next]_vars => TypeOK'
  <2> SUFFICES ASSUME TypeOK, [Next]_vars PROVE TypeOK' OBVIOUS
  <2> USE DEF TypeOK
  <2>1. certVars' = certVars => CertTypeOK' BY DEF certVars, CertTypeOK
  <2>2. svcVars' = svcVars => ServiceTypeOK' BY DEF svcVars, ServiceTypeOK
  <2>3. jailVars' = jailVars => JailTypeOK' BY DEF jailVars, JailTypeOK
  <2>4. geoVars' = geoVars => GeoTypeOK' BY DEF geoVars, GeoTypeOK
  <2>5. activeVars' = activeVars => ActiveTypeOK' BY DEF activeVars, ActiveTypeOK
  <2>6. CASE Tick
    BY <2>6, <2>1, <2>2, <2>3, <2>4, <2>5 DEF Tick, HostTypeOK
  <2>7. ASSUME NEW killed, Kill(killed) PROVE TypeOK'
    <3>1. HostTypeOK' BY <2>7, KillTypes DEF Kill
    <3>2. CertTypeOK' BY <2>7 DEF Kill, CertKill, CertTypeOK, Forgotten
    <3>3. ServiceTypeOK' BY <2>7 DEF Kill, ServiceKill, ServiceTypeOK, Forgotten, Unseen
    <3>4. JailTypeOK' BY <2>7 DEF Kill, JailKill, JailTypeOK, Forgotten
    <3>5. GeoTypeOK' BY <2>7 DEF Kill, GeoKill, GeoTypeOK, Forgotten
    <3>6. ActiveTypeOK' BY <2>7 DEF Kill, ActiveKill, ActiveTypeOK, Forgotten
    <3> QED BY <3>1, <3>2, <3>3, <3>4, <3>5, <3>6
  <2>8. CASE CertNext /\ UNCHANGED <<svcVars, jailVars, geoVars, activeVars>>
    BY <2>8, <2>2, <2>3, <2>4, <2>5, CertTypes
  <2>9. CASE ServiceNext /\ UNCHANGED <<certVars, jailVars, geoVars, activeVars>>
    BY <2>9, <2>1, <2>3, <2>4, <2>5, ServiceTypes
  <2>10. CASE JailNext /\ UNCHANGED <<certVars, svcVars, geoVars, activeVars>>
    BY <2>10, <2>1, <2>2, <2>4, <2>5, JailTypes
  <2>11. CASE GeoNext /\ UNCHANGED <<certVars, svcVars, jailVars, activeVars>>
    BY <2>11, <2>1, <2>2, <2>3, <2>5, GeoTypes
  <2>12. CASE ActiveNext /\ UNCHANGED <<certVars, svcVars, jailVars, geoVars>>
    BY <2>12, <2>1, <2>2, <2>3, <2>4, ActiveTypes
  <2>13. CASE UNCHANGED vars
    BY <2>13, <2>1, <2>2, <2>3, <2>4, <2>5 DEF vars, hostVars, HostTypeOK
  <2> QED BY <2>6, <2>7, <2>8, <2>9, <2>10, <2>11, <2>12, <2>13 DEF Next
<1> QED BY <1>1, <1>2, PTL DEF Spec

-----------------------------------------------------------------------------
(* What a step of one monitor does to the others: their runners stay where *)
(* they are, and time does not run backwards.                              *)

Foreign(k) ==
    /\ now' \in Nat /\ now <= now'
    /\ k \in overlap' <=> k \in overlap
    /\ \A r \in Runner : /\ job'[r] = k <=> job[r] = k
                         /\ job[r] = k => step'[r] = step[r]

LEMMA StillForeign ==
    ASSUME HostTypeOK, now' = now, overlap' = overlap, job' = job, step' = step, NEW k
    PROVE  Foreign(k)
BY DEF Foreign, HostTypeOK

LEMMA CallForeign ==
    ASSUME HostTypeOK, NEW r \in Runner, NEW j \in Job, NEW s, Call(r, j, s),
           NEW k \in Job \ {j}
    PROVE  Foreign(k)
<1>1. k # "none" BY DEF Job, Polled
<1>2. now' = now BY DEF Call
<1>3. k \in overlap' <=> k \in overlap BY DEF Call
<1>4. \A o \in Runner : /\ job'[o] = k <=> job[o] = k
                        /\ job[o] = k => step'[o] = step[o]
  BY <1>1 DEF Call, HostTypeOK
<1> QED BY <1>2, <1>3, <1>4 DEF Foreign, HostTypeOK

LEMMA LocalForeign ==
    ASSUME HostTypeOK, NEW r \in Runner, NEW k \in Job, job[r] # k,
           now' = now, overlap' = overlap,
           NEW s, GoOn(r, s) \/ Return(r)
    PROVE  Foreign(k)
<1>1. k # "none" BY DEF Job, Polled
<1>2. \A o \in Runner : /\ job'[o] = k <=> job[o] = k
                        /\ job[o] = k => step'[o] = step[o]
  BY <1>1 DEF GoOn, Return, HostTypeOK
<1> QED BY <1>2 DEF Foreign, HostTypeOK

LEMMA CertForeign ==
    ASSUME HostTypeOK, CertNext, NEW k \in Job \ {"certs"}
    PROVE  Foreign(k)
<1>1. ASSUME NEW p \in Path, ChangeFile(p) PROVE Foreign(k)
  BY <1>1, StillForeign DEF ChangeFile, Change
<1>2. ASSUME NEW r \in Runner, FindCertFiles(r) PROVE Foreign(k)
  BY <1>2, CallForeign DEF FindCertFiles, Job, Polled
<1>3. ASSUME NEW r \in Runner, ParseCertificate(r) PROVE Foreign(k)
  BY <1>3, StillForeign DEF ParseCertificate
<1>4. ASSUME NEW r \in Runner, JudgeNext(r) PROVE Foreign(k)
  <2>1. GoOn(r, "store") \/ Return(r) BY <1>4 DEF JudgeNext
  <2> QED BY <1>4, <2>1, LocalForeign DEF JudgeNext, At
<1>5. ASSUME NEW r \in Runner, StoreCertificate(r) PROVE Foreign(k)
  BY <1>5, LocalForeign DEF StoreCertificate, At
<1> QED BY <1>1, <1>2, <1>3, <1>4, <1>5 DEF CertNext

LEMMA ServiceForeign ==
    ASSUME HostTypeOK, ServiceNext, NEW k \in Job \ {"services"}
    PROVE  Foreign(k)
<1>1. ASSUME NEW u \in Unit, ChangeUnit(u) PROVE Foreign(k)
  BY <1>1, StillForeign DEF ChangeUnit, Change
<1>2. ASSUME NEW r \in Runner, CheckAll(r) PROVE Foreign(k)
  BY <1>2, CallForeign DEF CheckAll, Job, Polled
<1>3. ASSUME NEW r \in Runner, IsActive(r) PROVE Foreign(k)
  <2>1. GoOn(r, "enabled") \/ (job' = job /\ step' = step) BY <1>3 DEF IsActive
  <2> QED BY <1>3, <2>1, LocalForeign, StillForeign DEF IsActive, At
<1>4. ASSUME NEW r \in Runner, IsEnabled(r) PROVE Foreign(k)
  BY <1>4, LocalForeign DEF IsEnabled, At
<1>5. ASSUME NEW r \in Runner, StoreServiceStatus(r) PROVE Foreign(k)
  BY <1>5, LocalForeign DEF StoreServiceStatus, At
<1> QED BY <1>1, <1>2, <1>3, <1>4, <1>5 DEF ServiceNext

LEMMA JailForeign ==
    ASSUME HostTypeOK, JailNext, NEW k \in Job \ {"jails"}
    PROVE  Foreign(k)
<1>1. ASSUME NEW j \in Jail, Ban(j) \/ Unban(j) PROVE Foreign(k)
  BY <1>1, StillForeign DEF Ban, Unban, Change
<1>2. CASE Reload
  BY <1>2, StillForeign DEF Reload, Change
<1>3. ASSUME NEW r \in Runner, ListJails(r) PROVE Foreign(k)
  BY <1>3, CallForeign DEF ListJails, Job, Polled
<1>4. ASSUME NEW r \in Runner, GetJailStatus(r) PROVE Foreign(k)
  BY <1>4, StillForeign DEF GetJailStatus
<1>5. ASSUME NEW r \in Runner, StoreJail(r) PROVE Foreign(k)
  <2>1. Return(r) \/ (job' = job /\ step' = step) BY <1>5 DEF StoreJail
  <2> QED BY <1>5, <2>1, LocalForeign, StillForeign DEF StoreJail, At
<1> QED BY <1>1, <1>2, <1>3, <1>4, <1>5 DEF JailNext

LEMMA GeoForeign ==
    ASSUME HostTypeOK, GeoNext, NEW k \in Job \ {"lookup"}
    PROVE  Foreign(k)
<1>1. ASSUME NEW r \in Runner, NEW ip \in IP, LookupIp(r, ip) PROVE Foreign(k)
  BY <1>1, CallForeign DEF LookupIp, Job
<1>2. ASSUME NEW r \in Runner, CacheLookup(r) PROVE Foreign(k)
  <2>1. GoOn(r, "load") \/ Return(r) BY <1>2 DEF CacheLookup
  <2> QED BY <1>2, <2>1, LocalForeign DEF CacheLookup, At
<1>3. ASSUME NEW r \in Runner, LoadReaders(r) PROVE Foreign(k)
  BY <1>3, LocalForeign DEF LoadReaders, At
<1>4. ASSUME NEW r \in Runner, NEW p, NEW a, NEW s, LoadReader(r, p, a, s) PROVE Foreign(k)
  BY <1>4, LocalForeign DEF LoadReader, At
<1>5. ASSUME NEW r \in Runner, NEW p, NEW a, NEW s, Resolve(r, p, a, s) PROVE Foreign(k)
  BY <1>5, LocalForeign DEF Resolve, At
<1>6. ASSUME NEW r \in Runner, CacheStore(r) PROVE Foreign(k)
  BY <1>6, LocalForeign DEF CacheStore, At
<1>7. CASE CopyToAttackers
  BY <1>7, StillForeign DEF CopyToAttackers, hostVars
<1> QED BY <1>1, <1>2, <1>3, <1>4, <1>5, <1>6, <1>7
        DEF GeoNext, LoadCity, LoadAsn, LookupCity, LookupAsn, Runner

LEMMA ActiveForeign ==
    ASSUME HostTypeOK, ActiveNext, NEW k \in Job \ {"who"}
    PROVE  Foreign(k)
<1>1. CASE ChangeLogins
  BY <1>1, StillForeign DEF ChangeLogins, Change
<1>2. ASSUME NEW r \in Runner, GetActiveSessions(r) PROVE Foreign(k)
  BY <1>2, CallForeign DEF GetActiveSessions, Job
<1>3. ASSUME NEW r \in Runner, RunWho(r) PROVE Foreign(k)
  BY <1>3, LocalForeign DEF RunWho, At, GoOn
<1>4. ASSUME NEW r \in Runner, RunW(r) PROVE Foreign(k)
  BY <1>4, LocalForeign DEF RunW, At, GoOn
<1>5. ASSUME NEW r \in Runner, Answered(r) PROVE Foreign(k)
  BY <1>5, LocalForeign DEF Answered, At
<1> QED BY <1>1, <1>2, <1>3, <1>4, <1>5 DEF ActiveNext

LEMMA TickForeign ==
    ASSUME HostTypeOK, Tick \/ UNCHANGED hostVars, NEW k
    PROVE  Foreign(k)
BY DEF Tick, Foreign, HostTypeOK, hostVars

LEMMA CertSteps ==
    ASSUME TypeOK, [Next]_vars
    PROVE  \/ CertNext
           \/ \E killed : KillHost(killed) /\ CertKill(killed)
           \/ Foreign("certs") /\ UNCHANGED certVars
<1> "certs" \in Job BY DEF Job, Polled
<1> USE DEF TypeOK
<1>1. CASE Tick \/ UNCHANGED vars BY <1>1, TickForeign DEF Tick, vars
<1>2. ASSUME NEW killed, Kill(killed) PROVE KillHost(killed) /\ CertKill(killed)
  BY <1>2 DEF Kill
<1>3. CASE ServiceNext /\ UNCHANGED certVars BY <1>3, ServiceForeign
<1>4. CASE JailNext /\ UNCHANGED certVars BY <1>4, JailForeign
<1>5. CASE GeoNext /\ UNCHANGED certVars BY <1>5, GeoForeign
<1>6. CASE ActiveNext /\ UNCHANGED certVars BY <1>6, ActiveForeign
<1> QED BY <1>1, <1>2, <1>3, <1>4, <1>5, <1>6 DEF Next

LEMMA ServiceSteps ==
    ASSUME TypeOK, [Next]_vars
    PROVE  \/ ServiceNext
           \/ \E killed : /\ killed \in {{Daemon}, Panel}
                          /\ KillHost(killed) /\ ServiceKill(killed)
           \/ Foreign("services") /\ UNCHANGED svcVars
<1> "services" \in Job BY DEF Job, Polled
<1> USE DEF TypeOK
<1>1. CASE Tick \/ UNCHANGED vars BY <1>1, TickForeign DEF Tick, vars
<1>2. ASSUME NEW killed, Kill(killed) PROVE KillHost(killed) /\ ServiceKill(killed)
  BY <1>2 DEF Kill
<1>3. CASE CertNext /\ UNCHANGED svcVars BY <1>3, CertForeign
<1>4. CASE JailNext /\ UNCHANGED svcVars BY <1>4, JailForeign
<1>5. CASE GeoNext /\ UNCHANGED svcVars BY <1>5, GeoForeign
<1>6. CASE ActiveNext /\ UNCHANGED svcVars BY <1>6, ActiveForeign
<1> QED BY <1>1, <1>2, <1>3, <1>4, <1>5, <1>6 DEF Next

LEMMA JailSteps ==
    ASSUME TypeOK, [Next]_vars
    PROVE  \/ JailNext
           \/ \E killed : /\ killed \in {{Daemon}, Panel}
                          /\ KillHost(killed) /\ JailKill(killed)
           \/ Foreign("jails") /\ UNCHANGED jailVars
<1> "jails" \in Job BY DEF Job, Polled
<1> USE DEF TypeOK
<1>1. CASE Tick \/ UNCHANGED vars BY <1>1, TickForeign DEF Tick, vars
<1>2. ASSUME NEW killed, Kill(killed) PROVE KillHost(killed) /\ JailKill(killed)
  BY <1>2 DEF Kill
<1>3. CASE CertNext /\ UNCHANGED jailVars BY <1>3, CertForeign
<1>4. CASE ServiceNext /\ UNCHANGED jailVars BY <1>4, ServiceForeign
<1>5. CASE GeoNext /\ UNCHANGED jailVars BY <1>5, GeoForeign
<1>6. CASE ActiveNext /\ UNCHANGED jailVars BY <1>6, ActiveForeign
<1> QED BY <1>1, <1>2, <1>3, <1>4, <1>5, <1>6 DEF Next

LEMMA GeoSteps ==
    ASSUME TypeOK, [Next]_vars
    PROVE  \/ GeoNext
           \/ \E killed : /\ killed \in {{Daemon}, Panel}
                          /\ KillHost(killed) /\ GeoKill(killed)
           \/ Foreign("lookup") /\ UNCHANGED geoVars
<1> "lookup" \in Job BY DEF Job, Polled
<1> USE DEF TypeOK
<1>1. CASE Tick \/ UNCHANGED vars BY <1>1, TickForeign DEF Tick, vars
<1>2. ASSUME NEW killed, Kill(killed) PROVE KillHost(killed) /\ GeoKill(killed)
  BY <1>2 DEF Kill
<1>3. CASE CertNext /\ UNCHANGED geoVars BY <1>3, CertForeign
<1>4. CASE ServiceNext /\ UNCHANGED geoVars BY <1>4, ServiceForeign
<1>5. CASE JailNext /\ UNCHANGED geoVars BY <1>5, JailForeign
<1>6. CASE ActiveNext /\ UNCHANGED geoVars BY <1>6, ActiveForeign
<1> QED BY <1>1, <1>2, <1>3, <1>4, <1>5, <1>6 DEF Next

LEMMA ActiveSteps ==
    ASSUME TypeOK, [Next]_vars
    PROVE  \/ ActiveNext
           \/ \E killed : /\ killed \in {{Daemon}, Panel}
                          /\ KillHost(killed) /\ ActiveKill(killed)
           \/ Foreign("who") /\ UNCHANGED activeVars
<1> "who" \in Job BY DEF Job, Polled
<1> USE DEF TypeOK
<1>1. CASE Tick \/ UNCHANGED vars BY <1>1, TickForeign DEF Tick, vars
<1>2. ASSUME NEW killed, Kill(killed) PROVE KillHost(killed) /\ ActiveKill(killed)
  BY <1>2 DEF Kill
<1>3. CASE CertNext /\ UNCHANGED activeVars BY <1>3, CertForeign
<1>4. CASE ServiceNext /\ UNCHANGED activeVars BY <1>4, ServiceForeign
<1>5. CASE JailNext /\ UNCHANGED activeVars BY <1>5, JailForeign
<1>6. CASE GeoNext /\ UNCHANGED activeVars BY <1>6, GeoForeign
<1> QED BY <1>1, <1>2, <1>3, <1>4, <1>5, <1>6 DEF Next

-----------------------------------------------------------------------------
(* The badge of a certificate and its days                                 *)

HeldJudged ==
    \A r \in Runner : \A h \in held[r] :
        /\ h.status = "critical" => DaysRemaining(h.cert.expires) <= CriticalDays
        /\ h.status # "healthy" => DaysRemaining(h.cert.expires) <= WarnDays

BadgeInv == HeldJudged /\ BadgeTrailsDays

LEMMA DivFalls ==
    ASSUME NEW a \in Int, NEW b \in Int, b <= a, NEW d \in Nat \ {0}
    PROVE  a \div d \in Int /\ b \div d \in Int /\ b \div d <= a \div d
OBVIOUS

LEMMA DaysFall ==
    ASSUME NEW e \in Nat, now \in Nat, now' \in Nat, now <= now'
    PROVE  /\ DaysRemaining(e) \in Int /\ DaysRemaining(e)' \in Int
           /\ DaysRemaining(e)' <= DaysRemaining(e)
<1>1. e - now \in Int /\ e - now' \in Int /\ e - now' <= e - now
  <2> SUFFICES ASSUME NEW t \in Nat, NEW u \in Nat, t <= u
               PROVE  e - t \in Int /\ e - u \in Int /\ e - u <= e - t
    OBVIOUS
  <2> QED OBVIOUS
<1> QED BY <1>1, DivFalls, CertAssumption DEF DaysRemaining

LEMMA CertDates ==
    ASSUME CertTypeOK, NEW r \in Runner
    PROVE  /\ \A c \in parsed[r] : c \in Cert /\ c.expires \in Nat
           /\ \A h \in held[r] : h.cert \in Cert /\ h.cert.expires \in Nat
<1>1. \A c \in Cert : c.expires \in Nat BY CertAssumption DEF Cert
<1>2. parsed[r] \subseteq Cert BY DEF CertTypeOK
<1>3. \A h \in held[r] : h.cert \in Cert BY DEF CertTypeOK
<1> QED BY <1>1, <1>2, <1>3

LEMMA JudgedHolds ==
    ASSUME NEW e \in Nat, now \in Nat
    PROVE  /\ EvaluateHealth(e) = "critical" => DaysRemaining(e) <= CriticalDays
           /\ EvaluateHealth(e) # "healthy" => DaysRemaining(e) <= WarnDays
<1>1. e - now \in Int OBVIOUS
<1>2. DaysRemaining(e) \in Int BY <1>1, CertAssumption DEF DaysRemaining
<1> QED BY <1>2, CertAssumption DEF EvaluateHealth

LEMMA BadgeLasts ==
    ASSUME TypeOK, BadgeInv, now' \in Nat, now <= now', rows' = rows,
           \A r \in Runner : held'[r] \subseteq held[r]
    PROVE  BadgeInv'
<1> USE DEF TypeOK, HostTypeOK, CertTypeOK
<1>1. CriticalDays \in Int /\ WarnDays \in Int /\ Expiry \subseteq Nat BY CertAssumption
<1>2. HeldJudged'
  <2> SUFFICES ASSUME NEW r \in Runner, NEW h \in held'[r]
               PROVE  /\ h.status = "critical" => DaysRemaining(h.cert.expires)' <= CriticalDays
                      /\ h.status # "healthy" => DaysRemaining(h.cert.expires)' <= WarnDays
    BY DEF HeldJudged
  <2>1. h \in held[r] /\ h.cert.expires \in Nat BY CertDates
  <2>2. /\ h.status = "critical" => DaysRemaining(h.cert.expires) <= CriticalDays
        /\ h.status # "healthy" => DaysRemaining(h.cert.expires) <= WarnDays
    BY <2>1 DEF BadgeInv, HeldJudged
  <2> QED BY <2>1, <2>2, <1>1, DaysFall
<1>3. BadgeTrailsDays'
  <2> SUFFICES ASSUME NEW row \in rows
               PROVE  /\ row.status = "critical" => row.days <= CriticalDays
                      /\ row.status # "healthy" => row.days <= WarnDays
                      /\ row.days >= DaysRemaining(row.expires)'
    BY DEF BadgeTrailsDays
  <2>1. row.expires \in Nat /\ row.days \in Int BY <1>1
  <2>2. /\ row.status = "critical" => row.days <= CriticalDays
        /\ row.status # "healthy" => row.days <= WarnDays
        /\ row.days >= DaysRemaining(row.expires)
    BY DEF BadgeInv, BadgeTrailsDays
  <2> QED BY <2>1, <2>2, DaysFall
<1> QED BY <1>2, <1>3 DEF BadgeInv

\* A row never shows a status worse than its days, nor fewer days than are left,
\* however slow a scan is and however many overlap.
THEOREM BadgeTrails == Spec => []BadgeTrailsDays
<1>1. Init => BadgeInv
  BY DEF Init, CertInit, BadgeInv, HeldJudged, BadgeTrailsDays
<1>2. TypeOK /\ BadgeInv /\ [Next]_vars => BadgeInv'
  <2> SUFFICES ASSUME TypeOK, BadgeInv, [Next]_vars PROVE BadgeInv' OBVIOUS
  <2>0. now \in Nat /\ now <= now /\ Expiry \subseteq Nat
    BY CertAssumption DEF TypeOK, HostTypeOK
  <2>1. ASSUME NEW p \in Path, ChangeFile(p) PROVE BadgeInv'
    BY <2>0, <2>1, BadgeLasts DEF ChangeFile, Change, certLocal
  <2>2. ASSUME NEW r \in Runner, FindCertFiles(r) \/ ParseCertificate(r) PROVE BadgeInv'
    BY <2>0, <2>2, BadgeLasts DEF FindCertFiles, ParseCertificate, Call
  <2>3. ASSUME NEW r \in Runner, JudgeNext(r) PROVE BadgeInv'
    <3>1. CASE parsed[r] = {} BY <2>0, <2>3, <3>1, BadgeLasts DEF JudgeNext
    <3>2. ASSUME NEW c \in parsed[r],
                 held' = [held EXCEPT ![r] =
                             {[cert |-> c, status |-> EvaluateHealth(c.expires)]}]
          PROVE  BadgeInv'
      <4>1. c.expires \in Nat BY CertDates DEF TypeOK
      <4>2. now' = now /\ rows' = rows BY <2>3 DEF JudgeNext
      <4>3. BadgeTrailsDays' BY <4>2 DEF BadgeInv, BadgeTrailsDays, DaysRemaining
      <4>4. ASSUME NEW o \in Runner, NEW h \in held'[o]
            PROVE  /\ h.status = "critical" => DaysRemaining(h.cert.expires) <= CriticalDays
                   /\ h.status # "healthy" => DaysRemaining(h.cert.expires) <= WarnDays
        <5>1. CASE o = r
          <6>1. h = [cert |-> c, status |-> EvaluateHealth(c.expires)]
            BY <5>1, <4>4, <3>2 DEF TypeOK, CertTypeOK
          <6> QED BY <6>1, <4>1, <2>0, JudgedHolds
        <5>2. CASE o # r
          BY <5>2, <4>4, <3>2 DEF TypeOK, CertTypeOK, BadgeInv, HeldJudged
        <5> QED BY <5>1, <5>2
      <4>5. HeldJudged' BY <4>4, <4>2 DEF HeldJudged, DaysRemaining
      <4> QED BY <4>3, <4>5 DEF BadgeInv
    <3> QED BY <2>3, <3>1, <3>2 DEF JudgeNext
  <2>4. ASSUME NEW r \in Runner, StoreCertificate(r) PROVE BadgeInv'
    <3>1. \A o \in Runner : held'[o] \subseteq held[o]
      BY <2>4 DEF StoreCertificate, TypeOK, CertTypeOK
    <3>2. CASE rows' = rows BY <2>0, <2>4, <3>1, <3>2, BadgeLasts DEF StoreCertificate
    <3>3. ASSUME NEW h \in held[r], rows' = Upserted(h) PROVE BadgeInv'
      <4>1. now' = now BY <2>4 DEF StoreCertificate
      <4>2. HeldJudged'
        BY <4>1, <3>1 DEF BadgeInv, HeldJudged, DaysRemaining
      <4>3. ASSUME NEW row \in rows'
            PROVE  /\ row.status = "critical" => row.days <= CriticalDays
                   /\ row.status # "healthy" => row.days <= WarnDays
                   /\ row.days >= DaysRemaining(row.expires)
        <5>1. CASE row \in rows BY <5>1 DEF BadgeInv, BadgeTrailsDays
        <5>2. CASE row = RowOf(h)
          <6>1. h.cert.expires \in Nat BY CertDates DEF TypeOK
          <6>2. DaysRemaining(h.cert.expires) \in Int BY <6>1, <2>0, <4>1, DaysFall
          <6>3. /\ h.status = "critical" => DaysRemaining(h.cert.expires) <= CriticalDays
                /\ h.status # "healthy" => DaysRemaining(h.cert.expires) <= WarnDays
            BY DEF BadgeInv, HeldJudged
          <6> QED BY <5>2, <6>2, <6>3 DEF RowOf
        <5> QED BY <3>3, <4>3, <5>1, <5>2 DEF Upserted
      <4>4. BadgeTrailsDays' BY <4>1, <4>3 DEF BadgeTrailsDays, DaysRemaining
      <4> QED BY <4>2, <4>4 DEF BadgeInv
    <3> QED BY <2>4, <3>2, <3>3 DEF StoreCertificate
  <2>5. ASSUME NEW killed, KillHost(killed), CertKill(killed) PROVE BadgeInv'
    BY <2>0, <2>5, BadgeLasts DEF KillHost, CertKill, Forgotten
  <2>6. CASE Foreign("certs") /\ UNCHANGED certVars
    BY <2>6, BadgeLasts DEF Foreign, certVars, certLocal
  <2> QED BY CertSteps, <2>1, <2>2, <2>3, <2>4, <2>5, <2>6 DEF CertNext
<1>3. BadgeInv => BadgeTrailsDays BY DEF BadgeInv
<1> QED BY <1>1, <1>2, <1>3, TypeCorrect, PTL DEF Spec

-----------------------------------------------------------------------------
(* The rows of certificates and their files                                *)

\* what a scan has parsed and not yet stored
InScan(r) == parsed[r] \cup {h.cert : h \in held[r]}

\* without overlap one runner scans at a time
ScansAlone ==
    "certs" \notin overlap =>
        \A r, o \in Runner : job[r] = "certs" /\ job[o] = "certs" => r = o

\* a scan has a certificate of each path at most, from the parsing to the row
OnePerPath ==
    \A r \in Runner :
        /\ job[r] # "certs" => todo[r] = {} /\ InScan(r) = {}
        /\ \A c \in InScan(r) : c.path \notin todo[r]
        /\ \A c, d \in parsed[r] : c.path = d.path => c = d
        /\ \A c \in parsed[r] : \A h \in held[r] : c.path # h.cert.path
        /\ held[r] # {} => step[r] = "store"

CurrentAgrees ==
    \A r \in Runner : \A c \in InScan(r) :
        <<r, c.path>> \in current =>
            disk[c.path].domain = c.domain /\ disk[c.path].expires = c.expires

\* nobody is about to overwrite a settled row with something older
SettledIsSafe ==
    "certs" \notin overlap =>
        \A r \in Runner : \A c \in InScan(r) : c.path \in settled => <<r, c.path>> \in current

FollowInv == ScansAlone /\ OnePerPath /\ CurrentAgrees /\ SettledIsSafe /\ RowsFollowFiles

\* Steps that read nothing new and store nothing.
LEMMA FollowLasts ==
    ASSUME TypeOK, FollowInv, UNCHANGED <<disk, rows>>,
           "certs" \in overlap' <=> "certs" \in overlap,
           settled' = settled,
           \A r \in Runner : /\ job'[r] = "certs" => job[r] = "certs"
                             /\ \/ /\ todo'[r] \subseteq todo[r]
                                   /\ UNCHANGED <<parsed[r], held[r]>>
                                   /\ \A p \in Path : <<r, p>> \in current' <=> <<r, p>> \in current
                                \/ todo'[r] = {} /\ parsed'[r] = {} /\ held'[r] = {}
                             /\ job'[r] # "certs" =>
                                   todo'[r] = {} /\ parsed'[r] = {} /\ held'[r] = {}
                             /\ held'[r] # {} => step'[r] = step[r]
    PROVE  FollowInv'
<1> USE DEF FollowInv
<1>1. ScansAlone' BY DEF ScansAlone
<1>2. OnePerPath' BY DEF OnePerPath, InScan
<1>3. ASSUME NEW r \in Runner, NEW c \in InScan(r)'
      PROVE  /\ c \in InScan(r) /\ c.path \in Path
             /\ <<r, c.path>> \in current' <=> <<r, c.path>> \in current
  <2>1. c \in InScan(r) BY <1>3 DEF InScan
  <2>2. c \in Cert BY <2>1, CertDates DEF InScan, TypeOK
  <2>3. c.path \in Path BY <2>2 DEF Cert
  <2> QED BY <1>3, <2>1, <2>3 DEF InScan
<1>4. CurrentAgrees' BY <1>3 DEF CurrentAgrees
<1>5. SettledIsSafe' BY <1>3 DEF SettledIsSafe
<1>6. RowsFollowFiles' BY DEF RowsFollowFiles
<1> QED BY <1>1, <1>2, <1>4, <1>5, <1>6

LEMMA ChangeFollows ==
    ASSUME TypeOK, FollowInv, NEW p \in Path, ChangeFile(p)
    PROVE  FollowInv'
<1> USE DEF FollowInv
<1>1. UNCHANGED <<job, overlap, todo, parsed, held, rows>>
  BY DEF ChangeFile, Change, certLocal
<1> step' = step BY DEF ChangeFile, Change
<1>2. ScansAlone' /\ OnePerPath' BY <1>1 DEF ScansAlone, OnePerPath, InScan
<1>3. \A q \in Path \ {p} : disk'[q] = disk[q]
  BY DEF ChangeFile, TypeOK, CertTypeOK
<1>4. \A r \in Runner : InScan(r)' = InScan(r) BY <1>1 DEF InScan
<1>5. \A r \in Runner : \A c \in InScan(r) : c.path \in Path
  BY CertDates DEF InScan, TypeOK, Cert
<1>6. \A r, q : <<r, q>> \in current' <=> <<r, q>> \in current /\ q # p
  BY DEF ChangeFile
<1>7. CurrentAgrees' BY <1>3, <1>4, <1>5, <1>6 DEF CurrentAgrees
<1>8. SettledIsSafe' BY <1>1, <1>4, <1>6 DEF SettledIsSafe, ChangeFile
<1>9. RowsFollowFiles' BY <1>1, <1>3 DEF RowsFollowFiles, ChangeFile, TypeOK, CertTypeOK
<1> QED BY <1>2, <1>7, <1>8, <1>9

LEMMA FindFollows ==
    ASSUME TypeOK, FollowInv, NEW r \in Runner, FindCertFiles(r)
    PROVE  FollowInv'
<1> USE DEF FollowInv
<1>1. UNCHANGED <<disk, rows, parsed, held, current, settled>> BY DEF FindCertFiles
<1>2. job[r] = "none" /\ job' = [job EXCEPT ![r] = "certs"]
  BY DEF FindCertFiles, Call
<1>3. "certs" \notin overlap' => "certs" \notin overlap /\ \A o \in Runner : job[o] # "certs"
  BY DEF FindCertFiles, Call
<1>4. ScansAlone' BY <1>2, <1>3 DEF ScansAlone, TypeOK, HostTypeOK
<1>5. \A o \in Runner : InScan(o)' = InScan(o) BY <1>1 DEF InScan
<1>6. InScan(r) = {} BY <1>2 DEF OnePerPath
<1>7. \A o \in Runner \ {r} : todo'[o] = todo[o] /\ job'[o] = job[o]
  BY <1>2 DEF FindCertFiles, TypeOK, CertTypeOK, HostTypeOK
<1>8. job'[r] = "certs" BY <1>2 DEF TypeOK, HostTypeOK
<1>a. \A o \in Runner \ {r} : step'[o] = step[o]
  BY DEF FindCertFiles, Call, TypeOK, HostTypeOK
<1>b. held[r] = {} /\ parsed[r] = {} BY <1>6 DEF InScan
<1>9. OnePerPath' BY <1>1, <1>5, <1>6, <1>7, <1>8, <1>a, <1>b DEF OnePerPath
<1>10. CurrentAgrees' BY <1>1, <1>5 DEF CurrentAgrees
<1>11. SettledIsSafe' BY <1>1, <1>3, <1>5 DEF SettledIsSafe
<1>12. RowsFollowFiles' BY <1>1, <1>3 DEF RowsFollowFiles
<1> QED BY <1>4, <1>9, <1>10, <1>11, <1>12

LEMMA ParseFollows ==
    ASSUME TypeOK, FollowInv, NEW r \in Runner, ParseCertificate(r)
    PROVE  FollowInv'
<1> USE DEF FollowInv
<1>1. UNCHANGED <<job, step, overlap, disk, rows, held, settled>> BY DEF ParseCertificate
<1>2. PICK p \in todo[r] :
         /\ todo' = [todo EXCEPT ![r] = @ \ {p}]
         /\ \/ /\ parsed' = [parsed EXCEPT ![r] = @ \cup
                                {[path |-> p, domain |-> disk[p].domain,
                                  expires |-> disk[p].expires]}]
               /\ current' = current \cup {<<r, p>>}
            \/ UNCHANGED <<parsed, current>>
  BY DEF ParseCertificate
<1>3. CASE UNCHANGED <<parsed, current>>
  <2>1. \A o \in Runner : todo'[o] \subseteq todo[o] BY <1>2 DEF TypeOK, CertTypeOK
  <2>2. \A o \in Runner : job[o] # "certs" => todo[o] = {} /\ parsed[o] = {} /\ held[o] = {}
    BY DEF OnePerPath, InScan
  <2>3. \A o \in Runner : job'[o] # "certs" => todo'[o] = {} /\ parsed'[o] = {} /\ held'[o] = {}
    BY <1>1, <1>3, <2>1, <2>2
  <2> QED BY <1>1, <1>3, <2>1, <2>3, FollowLasts
<1>4. CASE /\ parsed' = [parsed EXCEPT ![r] = @ \cup
                             {[path |-> p, domain |-> disk[p].domain,
                               expires |-> disk[p].expires]}]
           /\ current' = current \cup {<<r, p>>}
  <2> DEFINE n == [path |-> p, domain |-> disk[p].domain, expires |-> disk[p].expires]
  <2>1. parsed'[r] = parsed[r] \cup {n} /\ \A o \in Runner \ {r} : parsed'[o] = parsed[o]
    BY <1>4 DEF TypeOK, CertTypeOK
  <2>2. n.path = p /\ n.domain = disk[p].domain /\ n.expires = disk[p].expires OBVIOUS
  <2> HIDE DEF n
  <2>3. todo'[r] = todo[r] \ {p} /\ \A o \in Runner \ {r} : todo'[o] = todo[o]
    BY <1>2 DEF TypeOK, CertTypeOK
  <2>4. InScan(r)' = InScan(r) \cup {n} /\ \A o \in Runner \ {r} : InScan(o)' = InScan(o)
    BY <1>1, <2>1 DEF InScan
  <2>5. job[r] = "certs" BY DEF ParseCertificate, At
  <2>6. \A c \in InScan(r) : c.path # p BY <1>2 DEF OnePerPath
  <2>7. ScansAlone' BY <1>1 DEF ScansAlone
  <2>8. OnePerPath'
    <3>1. \A c \in parsed[r] : c.path # p BY <2>6 DEF InScan
    <3>2. \A h \in held[r] : h.cert.path # p BY <2>6 DEF InScan
    <3>3. ASSUME NEW o \in Runner
          PROVE  /\ job'[o] # "certs" => todo'[o] = {} /\ InScan(o)' = {}
                 /\ \A c \in InScan(o)' : c.path \notin todo'[o]
                 /\ \A c, d \in parsed'[o] : c.path = d.path => c = d
                 /\ \A c \in parsed'[o] : \A h \in held'[o] : c.path # h.cert.path
                 /\ held'[o] # {} => step'[o] = "store"
      <4>1. CASE o = r
        <5>1. \A c, d \in parsed[r] : c.path = d.path => c = d BY DEF OnePerPath
        <5>2. \A c, d \in parsed'[r] : c.path = d.path => c = d
          BY <2>1, <2>2, <3>1, <5>1
        <5>3. \A c \in parsed'[r] : \A h \in held'[r] : c.path # h.cert.path
          BY <1>1, <2>1, <2>2, <3>2 DEF OnePerPath
        <5>4. \A c \in InScan(r)' : c.path \notin todo'[r]
          BY <2>2, <2>3, <2>4 DEF OnePerPath
        <5> QED BY <4>1, <1>1, <2>5, <5>2, <5>3, <5>4 DEF OnePerPath
      <4>2. CASE o # r
        <5>1. todo'[o] = todo[o] /\ InScan(o)' = InScan(o) /\ parsed'[o] = parsed[o]
              /\ held'[o] = held[o] /\ job'[o] = job[o] /\ step'[o] = step[o]
          BY <4>2, <1>1, <2>1, <2>3, <2>4
        <5> QED BY <5>1 DEF OnePerPath
      <4> QED BY <4>1, <4>2
    <3> QED BY <3>3 DEF OnePerPath
  <2>9. CurrentAgrees'
    BY <1>1, <1>4, <2>2, <2>4, <2>6 DEF CurrentAgrees
  <2>10. SettledIsSafe'
    BY <1>1, <1>4, <2>2, <2>4 DEF SettledIsSafe
  <2>11. RowsFollowFiles' BY <1>1 DEF RowsFollowFiles
  <2> QED BY <2>7, <2>8, <2>9, <2>10, <2>11
<1> QED BY <1>2, <1>3, <1>4

LEMMA JudgeFollows ==
    ASSUME TypeOK, FollowInv, NEW r \in Runner, JudgeNext(r)
    PROVE  FollowInv'
<1> USE DEF FollowInv
<1>1. UNCHANGED <<overlap, disk, rows, todo, current, settled>> BY DEF JudgeNext
<1>2. job[r] = "certs" /\ todo[r] = {} BY DEF JudgeNext, At
<1>3. held[r] = {} BY DEF JudgeNext, At, OnePerPath
<1>4. CASE parsed[r] = {}
  <2>1. UNCHANGED <<parsed, held>> /\ Return(r) BY <1>4 DEF JudgeNext
  <2>2. \A o \in Runner \ {r} : job'[o] = job[o] /\ step'[o] = step[o]
    BY <2>1 DEF Return, TypeOK, HostTypeOK
  <2>3. job'[r] = "none" BY <2>1 DEF Return, TypeOK, HostTypeOK
  <2> QED BY <1>1, <1>2, <1>3, <1>4, <2>1, <2>2, <2>3, FollowLasts DEF OnePerPath, InScan
<1>5. ASSUME NEW c \in parsed[r],
             parsed' = [parsed EXCEPT ![r] = @ \ {c}],
             held' = [held EXCEPT ![r] =
                         {[cert |-> c, status |-> EvaluateHealth(c.expires)]}],
             GoOn(r, "store")
      PROVE  FollowInv'
  <2>1. /\ parsed'[r] = parsed[r] \ {c}
        /\ held'[r] = {[cert |-> c, status |-> EvaluateHealth(c.expires)]}
        /\ \A o \in Runner \ {r} : parsed'[o] = parsed[o] /\ held'[o] = held[o]
    BY <1>5 DEF TypeOK, CertTypeOK
  <2>2. \A h \in held'[r] : h.cert = c BY <2>1
  <2>3. InScan(r)' = InScan(r) BY <1>3, <2>1, <2>2 DEF InScan
  <2>4. \A o \in Runner : InScan(o)' = InScan(o) BY <2>1, <2>3 DEF InScan
  <2>5. job' = job /\ step'[r] = "store" /\ \A o \in Runner \ {r} : step'[o] = step[o]
    BY <1>5 DEF GoOn, TypeOK, HostTypeOK
  <2>6. ScansAlone' BY <1>1, <2>5 DEF ScansAlone
  <2>7. OnePerPath'
    <3>1. \A d \in parsed'[r] : d.path # c.path BY <2>1 DEF OnePerPath
    <3>2. \A d \in parsed'[r] : \A h \in held'[r] : d.path # h.cert.path
      BY <2>2, <3>1
    <3> QED BY <1>1, <2>1, <2>4, <2>5, <3>2 DEF OnePerPath
  <2>8. CurrentAgrees' BY <1>1, <2>4 DEF CurrentAgrees
  <2>9. SettledIsSafe' BY <1>1, <2>4 DEF SettledIsSafe
  <2>10. RowsFollowFiles' BY <1>1 DEF RowsFollowFiles
  <2> QED BY <2>6, <2>7, <2>8, <2>9, <2>10
<1> QED BY <1>4, <1>5 DEF JudgeNext

LEMMA StoreFollows ==
    ASSUME TypeOK, FollowInv, NEW r \in Runner, StoreCertificate(r)
    PROVE  FollowInv'
<1> USE DEF FollowInv
<1>1. UNCHANGED <<job, overlap, disk, todo, parsed>> BY DEF StoreCertificate, GoOn
<1>2. PICK h \in held[r] :
         /\ \/ /\ rows' = Upserted(h)
               /\ settled' = IF <<r, h.cert.path>> \in current
                             THEN settled \cup {h.cert.path} ELSE settled
            \/ UNCHANGED <<rows, settled>>
         /\ current' = current \ {<<r, h.cert.path>>}
  BY DEF StoreCertificate
<1> DEFINE p == h.cert.path
<1>3. held'[r] = {} /\ \A o \in Runner \ {r} : held'[o] = held[o] /\ step'[o] = step[o]
  BY DEF StoreCertificate, GoOn, TypeOK, CertTypeOK, HostTypeOK
<1>4. job[r] = "certs" BY DEF StoreCertificate, At
<1>5. h.cert \in InScan(r) BY DEF InScan
<1>6. \A c \in parsed[r] : c.path # p BY DEF OnePerPath
<1>7. \A o \in Runner : InScan(o)' \subseteq InScan(o) BY <1>1, <1>3 DEF InScan
<1>8. \A c \in InScan(r)' : c.path # p BY <1>1, <1>3, <1>6 DEF InScan
<1> HIDE DEF p
<1>9. ScansAlone' BY <1>1 DEF ScansAlone
<1>10. OnePerPath' BY <1>1, <1>3, <1>7 DEF OnePerPath
<1>11. CurrentAgrees' BY <1>1, <1>2, <1>7 DEF CurrentAgrees
<1>12. ASSUME "certs" \notin overlap PROVE \A o \in Runner : \A c \in InScan(o)' : c.path # p
  <2>1. ASSUME NEW o \in Runner \ {r} PROVE InScan(o)' = {}
    <3>1. job[o] # "certs" BY <1>4, <1>12 DEF ScansAlone
    <3>2. InScan(o) = {} BY <3>1 DEF OnePerPath
    <3> QED BY <3>2, <1>7
  <2> QED BY <1>8, <2>1
<1>13. SettledIsSafe'
  <2> SUFFICES ASSUME "certs" \notin overlap, NEW o \in Runner, NEW c \in InScan(o)',
                      c.path \in settled'
               PROVE  <<o, c.path>> \in current'
    BY <1>1 DEF SettledIsSafe
  <2>1. c.path # p BY <1>12
  <2>2. c.path \in settled BY <1>2, <2>1 DEF p
  <2>3. <<o, c.path>> \in current BY <1>7, <2>2 DEF SettledIsSafe
  <2> QED BY <1>2, <2>1, <2>3 DEF p
<1>14. RowsFollowFiles'
  <2> SUFFICES ASSUME "certs" \notin overlap, NEW q \in settled'
               PROVE  \E row \in rows' : /\ row.path = q
                                         /\ row.domain = disk[q].domain
                                         /\ row.expires = disk[q].expires
    BY <1>1 DEF RowsFollowFiles
  <2>1. CASE UNCHANGED <<rows, settled>> BY <2>1 DEF RowsFollowFiles
  <2>2. CASE /\ rows' = Upserted(h)
             /\ settled' = IF <<r, p>> \in current THEN settled \cup {p} ELSE settled
    <3>1. CASE q # p
      <4>1. q \in settled BY <2>2, <3>1
      <4>2. PICK row \in rows : /\ row.path = q
                                /\ row.domain = disk[q].domain
                                /\ row.expires = disk[q].expires
        BY <4>1 DEF RowsFollowFiles
      <4>3. row \in rows' BY <2>2, <3>1, <4>2 DEF Upserted, SameKey, p
      <4> QED BY <4>2, <4>3
    <3>2. CASE q = p
      <4>1. <<r, p>> \in current
        <5>1. CASE p \in settled BY <5>1, <1>5 DEF SettledIsSafe, p
        <5>2. CASE p \notin settled BY <5>2, <2>2, <3>2
        <5> QED BY <5>1, <5>2
      <4>2. disk[p].domain = h.cert.domain /\ disk[p].expires = h.cert.expires
        BY <1>5, <4>1 DEF CurrentAgrees, p
      <4>3. /\ RowOf(h) \in rows' /\ RowOf(h).path = p
            /\ RowOf(h).domain = h.cert.domain /\ RowOf(h).expires = h.cert.expires
        BY <2>2 DEF Upserted, RowOf, p
      <4> QED BY <3>2, <4>2, <4>3
    <3> QED BY <3>1, <3>2
  <2> QED BY <1>2, <2>1, <2>2 DEF p
<1> QED BY <1>9, <1>10, <1>11, <1>13, <1>14

\* Once a scan has stored what a file says there is a row that says so, until the
\* file changes again, unless scans have overlapped.
THEOREM RowsFollow == Spec => []RowsFollowFiles
<1>1. Init => FollowInv
  BY DEF Init, HostInit, CertInit, FollowInv, ScansAlone, OnePerPath, InScan, CurrentAgrees,
         SettledIsSafe, RowsFollowFiles
<1>2. TypeOK /\ FollowInv /\ [Next]_vars => FollowInv'
  <2> SUFFICES ASSUME TypeOK, FollowInv, [Next]_vars PROVE FollowInv' OBVIOUS
  <2>0. \A r \in Runner : job[r] # "certs" => todo[r] = {} /\ parsed[r] = {} /\ held[r] = {}
    BY DEF FollowInv, OnePerPath, InScan
  <2>1. CASE CertNext
    BY <2>1, ChangeFollows, FindFollows, ParseFollows, JudgeFollows, StoreFollows DEF CertNext
  <2>2. ASSUME NEW killed, KillHost(killed), CertKill(killed) PROVE FollowInv'
    <3>1. UNCHANGED <<disk, rows, settled, overlap>> BY <2>2 DEF KillHost, CertKill
    <3>2. ASSUME NEW r \in Runner, r \in killed
          PROVE  job'[r] = "none" /\ todo'[r] = {} /\ parsed'[r] = {} /\ held'[r] = {}
      BY <2>2, <3>2 DEF KillHost, CertKill, Forgotten
    <3>3. ASSUME NEW r \in Runner, r \notin killed
          PROVE  /\ job'[r] = job[r] /\ step'[r] = step[r]
                 /\ todo'[r] = todo[r] /\ parsed'[r] = parsed[r] /\ held'[r] = held[r]
                 /\ \A p \in Path : <<r, p>> \in current' <=> <<r, p>> \in current
      BY <2>2, <3>3 DEF KillHost, CertKill, Forgotten
    <3> QED BY <2>0, <3>1, <3>2, <3>3, FollowLasts
  <2>3. CASE Foreign("certs") /\ UNCHANGED certVars
    BY <2>0, <2>3, FollowLasts DEF Foreign, certVars, certLocal
  <2> QED BY CertSteps, <2>1, <2>2, <2>3
<1>3. FollowInv => RowsFollowFiles BY DEF FollowInv
<1> QED BY <1>1, <1>2, <1>3, TypeCorrect, PTL DEF Spec

-----------------------------------------------------------------------------
(* The latest row of a service                                             *)

RowsArePast == \A row \in history : row.at <= now

\* A check has an answer for every unit it has asked about, of a state the unit has
\* had since it began.
Right(u, states, status) == \E s \in states : Tells(u, s, status)

AskedIsDown ==
    \A r \in Runner :
        /\ asked[r] # {} => job[r] = "services" /\ step[r] = "enabled"
        /\ \A u, v \in asked[r] : u = v
        /\ \A u \in asked[r] : during[r][u] \ {"active"} # {}

AnswersAreRight ==
    \A r \in Runner : \A a \in answers[r] : Right(a.unit, during[r][a.unit], a.status)

Asks(r, u) == u \in unasked[r] \/ u \in asked[r] \/ \E a \in answers[r] : a.unit = u

AllAreAsked == \A r \in Runner : job[r] = "services" => \A u \in Unit : Asks(r, u)

StateIsSeen ==
    \A r \in Runner : job[r] = "services" => \A u \in Unit : unit[u] \in during[r][u]

TellsInv ==
    /\ RowsArePast /\ AskedIsDown /\ AnswersAreRight /\ AllAreAsked /\ StateIsSeen
    /\ LatestTellsState

\* What a runner's check holds: the parts of the invariant that are about r.
CheckOK(r) ==
    /\ asked[r] # {} => job[r] = "services" /\ step[r] = "enabled"
    /\ \A u, v \in asked[r] : u = v
    /\ \A u \in asked[r] : during[r][u] \ {"active"} # {}
    /\ \A a \in answers[r] : Right(a.unit, during[r][a.unit], a.status)
    /\ job[r] = "services" => \A u \in Unit : Asks(r, u) /\ unit[u] \in during[r][u]

LEMMA ChecksOK ==
    TellsInv <=> RowsArePast /\ LatestTellsState /\ \A r \in Runner : CheckOK(r)
BY DEF TellsInv, AskedIsDown, AnswersAreRight, AllAreAsked, StateIsSeen, CheckOK

LEMMA ChecksOKNext ==
    RowsArePast' /\ LatestTellsState' /\ (\A r \in Runner : CheckOK(r)') => TellsInv'
BY DEF TellsInv, AskedIsDown, AnswersAreRight, AllAreAsked, StateIsSeen, CheckOK

\* more states explain more
LEMMA RightGrows ==
    ASSUME NEW u, NEW S, NEW T, NEW status, S \subseteq T, Right(u, S, status)
    PROVE  Right(u, T, status)
BY DEF Right

\* the check of a runner that does not take the step
LEMMA CheckLasts ==
    ASSUME NEW r, CheckOK(r), UNCHANGED <<unit, asked[r], unasked[r], answers[r], during[r], job[r]>>,
           asked[r] # {} => step'[r] = step[r]
    PROVE  CheckOK(r)'
BY DEF CheckOK, Asks, Right

\* a runner without a check
LEMMA NoCheck ==
    ASSUME NEW r, asked'[r] = {}, answers'[r] = {}, job'[r] # "services"
    PROVE  CheckOK(r)'
BY DEF CheckOK

LEMMA RowsLast ==
    ASSUME TypeOK, RowsArePast, LatestTellsState, UNCHANGED <<history, told>>,
           now' \in Nat, now <= now'
    PROVE  RowsArePast' /\ LatestTellsState'
<1>1. RowsArePast' BY DEF RowsArePast, TypeOK, HostTypeOK, ServiceTypeOK
<1>2. LatestTellsState' BY DEF LatestTellsState, Latest
<1> QED BY <1>1, <1>2

\* the check of a runner that does something else
LEMMA NoAnswers ==
    ASSUME TypeOK, TellsInv, NEW r \in Runner, job[r] # "services"
    PROVE  asked[r] = {}
BY DEF TellsInv, AskedIsDown

LEMMA UnitTells ==
    ASSUME TypeOK, TellsInv, NEW u \in Unit, ChangeUnit(u)
    PROVE  TellsInv'
<1>1. /\ UNCHANGED <<now, job, step, history, unasked, asked, answers, told>>
      /\ now' \in Nat /\ now <= now'
  BY DEF ChangeUnit, Change, TypeOK, HostTypeOK
<1>2. PICK s \in UnitState :
         /\ unit' = [unit EXCEPT ![u] = s]
         /\ during' = [r \in Runner |-> IF job[r] = "services"
                                        THEN [during[r] EXCEPT ![u] = @ \cup {s}] ELSE during[r]]
  BY DEF ChangeUnit
<1>3. ASSUME NEW r \in Runner PROVE CheckOK(r)'
  <2>1. CheckOK(r) BY ChecksOK
  <2>2. \A v \in Unit : during[r][v] \subseteq during'[r][v]
    BY <1>2 DEF TypeOK, ServiceTypeOK
  <2>3. \A v \in asked[r] : v \in Unit /\ during'[r][v] \ {"active"} # {}
    BY <2>1, <2>2 DEF CheckOK, TypeOK, ServiceTypeOK
  <2>4. \A a \in answers[r] : a.unit \in Unit /\ Right(a.unit, during'[r][a.unit], a.status)
    BY <2>1, <2>2, RightGrows DEF CheckOK, TypeOK, ServiceTypeOK, Answer
  <2>5. ASSUME job[r] = "services", NEW v \in Unit PROVE unit'[v] \in during'[r][v]
    BY <1>2, <2>1, <2>5 DEF CheckOK, TypeOK, ServiceTypeOK
  <2> QED BY <1>1, <2>1, <2>3, <2>4, <2>5 DEF CheckOK, Asks
<1> QED BY <1>1, <1>3, ChecksOK, ChecksOKNext, RowsLast

LEMMA CheckTells ==
    ASSUME TypeOK, TellsInv, NEW r \in Runner, CheckAll(r)
    PROVE  TellsInv'
<1>1. /\ UNCHANGED <<now, unit, history, asked, told>> /\ job[r] = "none"
      /\ now' \in Nat /\ now <= now'
  BY DEF CheckAll, Call, TypeOK, HostTypeOK
<1>2. /\ unasked'[r] = Unit /\ answers'[r] = {} /\ during'[r] = [u \in Unit |-> {unit[u]}]
      /\ \A o \in Runner \ {r} :
            UNCHANGED <<job[o], step[o], unasked[o], answers[o], during[o]>>
  BY DEF CheckAll, Call, TypeOK, HostTypeOK, ServiceTypeOK
<1>3. asked[r] = {} BY <1>1, NoAnswers
<1>4. CheckOK(r)' BY <1>1, <1>2, <1>3 DEF CheckOK, Asks
<1>5. ASSUME NEW o \in Runner \ {r} PROVE CheckOK(o)'
  BY <1>1, <1>2, ChecksOK, CheckLasts
<1> QED BY <1>1, <1>4, <1>5, ChecksOK, ChecksOKNext, RowsLast

\* what a timeout adds to the states of a unit, and leaves of the others
LEMMA HidesAdds ==
    ASSUME TypeOK, NEW r \in Runner, NEW u \in Unit, Hides(r, u)
    PROVE  /\ during'[r][u] = during[r][u] \cup {"hidden"}
           /\ \A v \in Unit : during[r][v] \subseteq during'[r][v]
           /\ \A o \in Runner \ {r} : during'[o] = during[o]
BY DEF Hides, TypeOK, ServiceTypeOK

\* A check that has got on: it has asked about u, or has an answer for it.
LEMMA CheckGoesOn ==
    ASSUME TypeOK, NEW r \in Runner, NEW u \in Unit, CheckOK(r), job[r] = "services",
           UNCHANGED unit, job'[r] = job[r],
           \A v \in Unit : during[r][v] \subseteq during'[r][v],
           unasked[r] \ {u} \subseteq unasked'[r],
           \/ /\ asked'[r] = {u} /\ step'[r] = "enabled" /\ asked[r] = {}
              /\ answers'[r] = answers[r]
              /\ during'[r][u] \ {"active"} # {}
           \/ /\ asked'[r] = {} /\ asked[r] \subseteq {u}
              /\ \E status : /\ answers'[r] = answers[r] \cup {[unit |-> u, status |-> status]}
                             /\ Right(u, during'[r][u], status)
    PROVE  CheckOK(r)'
<1>1. ASSUME NEW a \in answers[r] PROVE a.unit \in Unit /\ Right(a.unit, during'[r][a.unit], a.status)
  BY RightGrows DEF CheckOK, TypeOK, ServiceTypeOK, Answer
<1>2. ASSUME NEW v \in Unit PROVE unit'[v] \in during'[r][v]
  BY DEF CheckOK
<1>3. CASE /\ asked'[r] = {u} /\ step'[r] = "enabled" /\ asked[r] = {}
           /\ answers'[r] = answers[r] /\ during'[r][u] \ {"active"} # {}
  <2>1. \A v \in Unit : Asks(r, v)' BY <1>3 DEF CheckOK, Asks
  <2> QED BY <1>1, <1>2, <1>3, <2>1 DEF CheckOK
<1>4. ASSUME NEW status, asked'[r] = {}, asked[r] \subseteq {u},
             answers'[r] = answers[r] \cup {[unit |-> u, status |-> status]},
             Right(u, during'[r][u], status)
      PROVE  CheckOK(r)'
  <2>1. [unit |-> u, status |-> status].unit = u /\ [unit |-> u, status |-> status].status = status
    OBVIOUS
  <2>2. \A v \in Unit : Asks(r, v)' BY <1>4, <2>1 DEF CheckOK, Asks
  <2>3. \A a \in answers'[r] : Right(a.unit, during'[r][a.unit], a.status)
    BY <1>1, <1>4, <2>1
  <2> QED BY <1>2, <1>4, <2>2, <2>3 DEF CheckOK
<1> QED BY <1>3, <1>4

LEMMA ActiveTells ==
    ASSUME TypeOK, TellsInv, NEW r \in Runner, IsActive(r)
    PROVE  TellsInv'
<1>1. UNCHANGED <<now, unit, history, told>> /\ now' \in Nat /\ now <= now'
  BY DEF IsActive, TypeOK, HostTypeOK
<1>2. job[r] = "services" /\ step[r] = "active" /\ CheckOK(r) BY ChecksOK DEF IsActive, At
<1>3. asked[r] = {} BY <1>2 DEF CheckOK
<1>4. PICK u \in unasked[r] :
         /\ unasked' = [unasked EXCEPT ![r] = @ \ {u}]
         /\ \/ /\ unit[u] = "active"
               /\ answers' = [answers EXCEPT ![r] = @ \cup {StatusMap(u)}]
               /\ UNCHANGED <<asked, job, step, during>>
            \/ /\ unit[u] # "active" /\ UNCHANGED during
               /\ asked' = [asked EXCEPT ![r] = {u}] /\ GoOn(r, "enabled") /\ UNCHANGED answers
            \/ /\ Hides(r, u)
               /\ asked' = [asked EXCEPT ![r] = {u}] /\ GoOn(r, "enabled") /\ UNCHANGED answers
  BY DEF IsActive
<1>5. u \in Unit /\ unasked'[r] = unasked[r] \ {u} /\ unit[u] \in during[r][u]
  BY <1>2, <1>4 DEF CheckOK, TypeOK, ServiceTypeOK
<1>6. \A o \in Runner \ {r} :
         UNCHANGED <<job[o], step[o], unasked[o], asked[o], answers[o], during[o]>>
  BY <1>4, <1>5, HidesAdds DEF GoOn, TypeOK, HostTypeOK, ServiceTypeOK
<1>7. CheckOK(r)'
  <2>1. CASE unit[u] = "active" /\ answers' = [answers EXCEPT ![r] = @ \cup {StatusMap(u)}]
             /\ UNCHANGED <<asked, job, step, during>>
    <3>1. answers'[r] = answers[r] \cup {[unit |-> u, status |-> "running"]}
      BY <2>1 DEF StatusMap, TypeOK, ServiceTypeOK
    <3>2. Right(u, during'[r][u], "running")
      BY <1>5, <2>1 DEF Right, Tells
    <3> QED BY <1>1, <1>2, <1>3, <1>5, <2>1, <3>1, <3>2, CheckGoesOn
  <2>2. CASE asked' = [asked EXCEPT ![r] = {u}] /\ GoOn(r, "enabled") /\ UNCHANGED answers
             /\ (Hides(r, u) \/ (unit[u] # "active" /\ UNCHANGED during))
    <3>1. asked'[r] = {u} /\ step'[r] = "enabled" /\ job'[r] = job[r]
      BY <2>2 DEF GoOn, TypeOK, HostTypeOK, ServiceTypeOK
    <3>2. /\ during'[r][u] \ {"active"} # {}
          /\ \A v \in Unit : during[r][v] \subseteq during'[r][v]
      BY <1>5, <2>2, HidesAdds
    <3> QED BY <1>1, <1>2, <1>3, <1>5, <2>2, <3>1, <3>2, CheckGoesOn
  <2> QED BY <1>4, <2>1, <2>2
<1>8. ASSUME NEW o \in Runner \ {r} PROVE CheckOK(o)'
  BY <1>1, <1>6, ChecksOK, CheckLasts
<1> QED BY <1>1, <1>7, <1>8, ChecksOK, ChecksOKNext, RowsLast

LEMMA EnabledTells ==
    ASSUME TypeOK, TellsInv, NEW r \in Runner, IsEnabled(r)
    PROVE  TellsInv'
<1>1. /\ UNCHANGED <<now, job, unit, history, told, unasked>> /\ now' \in Nat /\ now <= now'
      /\ job[r] = "services"
  BY DEF IsEnabled, GoOn, At, TypeOK, HostTypeOK
<1>2. CheckOK(r) BY ChecksOK
<1>3. asked'[r] = {} BY DEF IsEnabled, TypeOK, ServiceTypeOK
<1>4. PICK u \in asked[r] :
         \/ answers' = [answers EXCEPT ![r] = @ \cup NotActive(u)] /\ UNCHANGED during
         \/ /\ Hides(r, u)
            /\ answers' = [answers EXCEPT ![r] = @ \cup {[unit |-> u, status |-> "unknown"]}]
  BY DEF IsEnabled
<1>5. u \in Unit /\ asked[r] \subseteq {u} /\ during[r][u] \ {"active"} # {}
  BY <1>2 DEF CheckOK, TypeOK, ServiceTypeOK
<1>6. \A o \in Runner \ {r} : UNCHANGED <<step[o], asked[o], answers[o], during[o]>>
  BY <1>4, <1>5, HidesAdds DEF IsEnabled, GoOn, TypeOK, HostTypeOK, ServiceTypeOK
<1>7. CheckOK(r)'
  <2>1. CASE answers' = [answers EXCEPT ![r] = @ \cup NotActive(u)] /\ UNCHANGED during
    <3> DEFINE status == IF u \in Enabled THEN "stopped" ELSE "unknown"
    <3>1. answers'[r] = answers[r] \cup {[unit |-> u, status |-> status]}
      BY <2>1 DEF NotActive, TypeOK, ServiceTypeOK
    <3>2. PICK s \in during[r][u] : s \in {"inactive", "failed", "hidden"}
      BY <1>5 DEF TypeOK, ServiceTypeOK, Seen, UnitState
    <3>3. Tells(u, s, status) BY <3>2 DEF Tells
    <3>4. Right(u, during'[r][u], status) BY <2>1, <3>2, <3>3 DEF Right
    <3> HIDE DEF status
    <3> QED BY <1>1, <1>2, <1>3, <1>5, <2>1, <3>1, <3>4, CheckGoesOn
  <2>2. CASE /\ Hides(r, u)
             /\ answers' = [answers EXCEPT ![r] = @ \cup {[unit |-> u, status |-> "unknown"]}]
    <3>1. answers'[r] = answers[r] \cup {[unit |-> u, status |-> "unknown"]}
      BY <2>2 DEF TypeOK, ServiceTypeOK
    <3>2. /\ during'[r][u] = during[r][u] \cup {"hidden"}
          /\ \A v \in Unit : during[r][v] \subseteq during'[r][v]
      BY <1>5, <2>2, HidesAdds
    <3>3. Right(u, during'[r][u], "unknown") BY <3>2 DEF Right, Tells
    <3> QED BY <1>1, <1>2, <1>3, <1>5, <3>1, <3>2, <3>3, CheckGoesOn
  <2> QED BY <1>4, <2>1, <2>2
<1>8. ASSUME NEW o \in Runner \ {r} PROVE CheckOK(o)'
  BY <1>1, <1>6, ChecksOK, CheckLasts
<1> QED BY <1>1, <1>7, <1>8, ChecksOK, ChecksOKNext, RowsLast

LEMMA StoreTells ==
    ASSUME TypeOK, TellsInv, NEW r \in Runner, StoreServiceStatus(r)
    PROVE  TellsInv'
<1>1. /\ UNCHANGED <<now, unit, unasked, asked>> /\ Return(r)
      /\ now \in Nat /\ now' \in Nat /\ now <= now'
  BY DEF StoreServiceStatus, TypeOK, HostTypeOK
<1>2. /\ job[r] = "services" /\ step[r] = "active" /\ unasked[r] = {} /\ CheckOK(r)
  BY ChecksOK DEF StoreServiceStatus, At
<1>3. asked[r] = {} BY <1>2 DEF CheckOK
<1>4. /\ answers'[r] = {} /\ job'[r] = "none"
      /\ \A o \in Runner \ {r} : UNCHANGED <<job[o], step[o], answers[o], during[o]>>
  BY <1>1 DEF StoreServiceStatus, Return, TypeOK, HostTypeOK, ServiceTypeOK
<1>5. CheckOK(r)' BY <1>1, <1>3, <1>4, NoCheck
<1>6. \A o \in Runner : CheckOK(o)'
  BY <1>1, <1>4, <1>5, ChecksOK, CheckLasts
<1>7. CASE UNCHANGED <<history, told>>
  BY <1>1, <1>6, <1>7, ChecksOK, ChecksOKNext, RowsLast
<1>8. CASE /\ history' = history \cup {[unit |-> a.unit, status |-> a.status, at |-> now] :
                                          a \in answers[r]}
           /\ told' = IF \E row \in history : row.at = now
                      THEN [u \in Unit |-> told[u] \cup during[r][u]] ELSE during[r]
  <2>1. RowsArePast /\ LatestTellsState /\ \A row \in history : row.at \in Nat
    BY ChecksOK DEF TypeOK, ServiceTypeOK
  <2>2. \A row \in history' : row.at <= now BY <1>1, <1>8, <2>1 DEF RowsArePast
  <2>3. \A u \in Unit : /\ during[r][u] \subseteq told'[u]
                        /\ (\E row \in history : row.at = now) => told[u] \subseteq told'[u]
    BY <1>8
  <2>4. ASSUME NEW u \in Unit
        PROVE  \E row \in history' : row.unit = u /\ row.at = now
    <3>1. PICK a \in answers[r] : a.unit = u BY <1>2, <1>3 DEF CheckOK, Asks
    <3>2. [unit |-> a.unit, status |-> a.status, at |-> now] \in history' BY <1>8
    <3> QED BY <3>1, <3>2
  <2>5. ASSUME NEW u \in Unit PROVE Latest(u)' # {}
    <3>1. PICK row \in history' : row.unit = u /\ row.at = now BY <2>4
    <3>2. row \in Latest(u)' BY <2>2, <3>1 DEF Latest
    <3> QED BY <3>2
  <2>6. ASSUME NEW u \in Unit, NEW row \in Latest(u)'
        PROVE  Right(u, told'[u], row.status)
    <3>1. row \in history' /\ row.unit = u BY DEF Latest
    <3>2. PICK q \in history' : q.unit = u /\ q.at = now BY <2>4
    <3>3. now <= row.at BY <3>2 DEF Latest
    <3>4. row.at = now
      <4>1. row.at <= now /\ row.at \in Nat BY <1>1, <1>8, <2>1, <2>2, <3>1
      <4> QED BY <1>1, <3>3, <4>1
    <3>5. CASE row \in history
      <4>1. row \in Latest(u) BY <2>1, <3>1, <3>4, <3>5 DEF Latest, RowsArePast
      <4>2. Right(u, told[u], row.status) BY <2>1, <3>5, <4>1 DEF LatestTellsState, Right
      <4> QED BY <2>3, <3>4, <3>5, <4>2, RightGrows
    <3>6. ASSUME NEW a \in answers[r], row = [unit |-> a.unit, status |-> a.status, at |-> now]
          PROVE  Right(u, told'[u], row.status)
      <4>1. a.unit = u /\ a.status = row.status BY <3>1, <3>6
      <4>2. Right(u, during[r][u], row.status) BY <1>2, <4>1 DEF CheckOK
      <4> QED BY <2>3, <4>2, RightGrows
    <3> QED BY <1>8, <3>1, <3>5, <3>6
  <2>7. LatestTellsState' BY <2>5, <2>6 DEF LatestTellsState, Right
  <2>8. RowsArePast' BY <1>1, <2>2 DEF RowsArePast
  <2> QED BY <1>6, <2>7, <2>8, ChecksOKNext
<1> QED BY <1>7, <1>8 DEF StoreServiceStatus

\* Once a check has inserted, every latest row of a unit shows a state the unit has
\* had since the check that wrote the row began, whatever checks ran at the same time
\* and however many rows there are (store_service_status, get_service_status).
THEOREM LatestTells == Spec => []LatestTellsState
<1>1. Init => TellsInv
  BY DEF Init, HostInit, ServiceInit, TellsInv, RowsArePast, AskedIsDown, AnswersAreRight,
         AllAreAsked, StateIsSeen, LatestTellsState
<1>2. TypeOK /\ TellsInv /\ [Next]_vars => TellsInv'
  <2> SUFFICES ASSUME TypeOK, TellsInv, [Next]_vars PROVE TellsInv' OBVIOUS
  <2>1. CASE ServiceNext
    BY <2>1, UnitTells, CheckTells, ActiveTells, EnabledTells, StoreTells DEF ServiceNext
  <2>2. ASSUME NEW killed, KillHost(killed), ServiceKill(killed) PROVE TellsInv'
    <3>1. UNCHANGED <<now, unit, history, told>> BY <2>2 DEF KillHost, ServiceKill
    <3>2. now' \in Nat /\ now <= now' BY <3>1 DEF TypeOK, HostTypeOK
    <3>3. ASSUME NEW r \in Runner, r \in killed PROVE CheckOK(r)'
      <4>1. asked'[r] = {} /\ answers'[r] = {} /\ job'[r] = "none"
        BY <2>2, <3>3 DEF KillHost, ServiceKill, Forgotten
      <4> QED BY <4>1, NoCheck
    <3>4. ASSUME NEW r \in Runner, r \notin killed PROVE CheckOK(r)'
      <4>1. UNCHANGED <<unit, asked[r], unasked[r], answers[r], during[r], job[r], step[r]>>
        BY <2>2, <3>4 DEF KillHost, ServiceKill, Forgotten
      <4> QED BY <4>1, ChecksOK, CheckLasts
    <3> QED BY <3>1, <3>2, <3>3, <3>4, ChecksOK, ChecksOKNext, RowsLast
  <2>3. CASE Foreign("services") /\ UNCHANGED svcVars
    <3>1. ASSUME NEW r \in Runner PROVE CheckOK(r)'
      BY <2>3, <3>1, ChecksOK DEF Foreign, svcVars, CheckOK, Asks, Right
    <3> QED BY <2>3, <3>1, ChecksOK, ChecksOKNext, RowsLast DEF Foreign, svcVars
  <2> QED BY ServiceSteps, <2>1, <2>2, <2>3
<1>3. TellsInv => LatestTellsState BY DEF TellsInv
<1> QED BY <1>1, <1>2, <1>3, TypeCorrect, PTL DEF Spec

-----------------------------------------------------------------------------
(* The list of active sessions                                             *)

Shown(r) == {l.session : l \in answer[r]}

Between(r, shown) == (r \in blind \/ steady[r] \subseteq shown) /\ shown \subseteq seen[r]

\* a call between its two commands holds what "who" said, and what it holds has
\* been open since it began
Brackets(r) ==
    /\ job[r] = "who" => steady[r] \subseteq logins /\ logins \subseteq seen[r]
    /\ job[r] # "who" \/ step[r] = "who" => listed[r] = {}
    /\ At(r, "who", "w") => Between(r, listed[r])
    /\ At(r, "who", "merged") => Between(r, Shown(r))

SandwichInv == \A r \in Runner : Brackets(r)

LEMMA BracketsLast ==
    ASSUME TypeOK, NEW r \in Runner, Brackets(r), logins' = logins,
           job'[r] = "who" <=> job[r] = "who",
           job[r] = "who" => step'[r] = step[r],
           UNCHANGED <<listed[r], answer[r], steady[r], seen[r]>>,
           r \in blind' <=> r \in blind
    PROVE  Brackets(r)'
BY DEF Brackets, Between, Shown, At

LEMMA BeginBrackets ==
    ASSUME TypeOK, SandwichInv, NEW r \in Runner, GetActiveSessions(r)
    PROVE  SandwichInv'
<1>1. /\ job[r] = "none" /\ job'[r] = "who" /\ step'[r] = "who"
      /\ \A o \in Runner \ {r} : job'[o] = job[o] /\ step'[o] = step[o]
  BY DEF GetActiveSessions, Call, TypeOK, HostTypeOK
<1>2. /\ UNCHANGED <<logins, listed, answer, blind>>
      /\ steady'[r] = logins /\ seen'[r] = logins
      /\ \A o \in Runner \ {r} : steady'[o] = steady[o] /\ seen'[o] = seen[o]
  BY DEF GetActiveSessions, TypeOK, ActiveTypeOK
<1>3. Brackets(r)' BY <1>1, <1>2 DEF SandwichInv, Brackets, At
<1>4. \A o \in Runner \ {r} : Brackets(o)' BY <1>1, <1>2, BracketsLast DEF SandwichInv
<1> QED BY <1>3, <1>4 DEF SandwichInv

LEMMA WhoBrackets ==
    ASSUME TypeOK, SandwichInv, NEW r \in Runner, RunWho(r)
    PROVE  SandwichInv'
<1>1. /\ job[r] = "who" /\ step[r] = "who" /\ job' = job /\ step'[r] = "w"
      /\ \A o \in Runner \ {r} : step'[o] = step[o]
  BY DEF RunWho, At, TypeOK, HostTypeOK
<1>2. UNCHANGED <<logins, answer, steady, seen>> BY DEF RunWho
<1>3. \/ /\ listed'[r] = logins
         /\ \A o \in Runner \ {r} : listed'[o] = listed[o]
         /\ blind' = blind
      \/ listed' = listed /\ blind' = blind \cup {r}
  BY DEF RunWho, TypeOK, ActiveTypeOK
<1>4. steady[r] \subseteq logins /\ logins \subseteq seen[r] /\ listed[r] = {}
  BY <1>1 DEF SandwichInv, Brackets
<1>5. Between(r, listed[r])' BY <1>2, <1>3, <1>4 DEF Between
<1>6. Brackets(r)' BY <1>1, <1>2, <1>4, <1>5 DEF Brackets, At
<1>7. \A o \in Runner \ {r} : Brackets(o)' BY <1>1, <1>2, <1>3, BracketsLast DEF SandwichInv
<1> QED BY <1>6, <1>7 DEF SandwichInv

LEMMA MergeBrackets ==
    ASSUME TypeOK, SandwichInv, NEW r \in Runner, RunW(r)
    PROVE  SandwichInv'
<1>1. /\ job[r] = "who" /\ step[r] = "w" /\ job' = job /\ step'[r] = "merged"
      /\ \A o \in Runner \ {r} : step'[o] = step[o]
  BY DEF RunW, At, TypeOK, HostTypeOK
<1>2. UNCHANGED <<logins, listed, steady, seen, blind>> BY DEF RunW
<1>3. PICK w \in ParsedW \cup {{}} :
         /\ answer'[r] = MergeSessions(listed[r], w)
         /\ \A o \in Runner \ {r} : answer'[o] = answer[o]
  BY DEF RunW, TypeOK, ActiveTypeOK
<1>4. w \subseteq logins BY DEF ParsedW
<1>5. Shown(r)' = listed[r] \cup w
  <2> DEFINE line(s) == [session |-> s, idle |-> s \in w]
  <2>1. \A s : line(s).session = s OBVIOUS
  <2>2. answer'[r] = {line(s) : s \in listed[r] \cup w} BY <1>3 DEF MergeSessions
  <2>3. Shown(r)' = {l.session : l \in {line(s) : s \in listed[r] \cup w}} BY <2>2 DEF Shown
  <2> HIDE DEF line
  <2> QED BY <2>1, <2>3
<1>6. /\ steady[r] \subseteq logins /\ logins \subseteq seen[r]
      /\ Between(r, listed[r])
  BY <1>1 DEF SandwichInv, Brackets, At
<1>7. Between(r, Shown(r))' BY <1>2, <1>4, <1>5, <1>6 DEF Between
<1>8. Brackets(r)' BY <1>1, <1>2, <1>6, <1>7 DEF Brackets, At
<1>9. \A o \in Runner \ {r} : Brackets(o)' BY <1>1, <1>2, <1>3, BracketsLast DEF SandwichInv
<1> QED BY <1>8, <1>9 DEF SandwichInv

LEMMA EndBrackets ==
    ASSUME TypeOK, SandwichInv, NEW r \in Runner, Answered(r)
    PROVE  SandwichInv'
<1>1. job'[r] = "none" /\ \A o \in Runner \ {r} : job'[o] = job[o] /\ step'[o] = step[o]
  BY DEF Answered, Return, TypeOK, HostTypeOK
<1>2. /\ logins' = logins /\ listed'[r] = {}
      /\ \A o \in Runner \ {r} : /\ UNCHANGED <<listed[o], answer[o], steady[o], seen[o]>>
                                 /\ o \in blind' <=> o \in blind
  BY DEF Answered, TypeOK, ActiveTypeOK
<1>3. Brackets(r)' BY <1>1, <1>2 DEF Brackets, At
<1>4. \A o \in Runner \ {r} : Brackets(o)' BY <1>1, <1>2, BracketsLast DEF SandwichInv
<1> QED BY <1>3, <1>4 DEF SandwichInv

\* As long as "who" answers, a session open throughout a call is on its list, and
\* what is on it has been open during the call, whatever lines "w" loses.
THEOREM ListSandwiched == Spec => []ListIsSandwiched
<1>1. Init => SandwichInv
  BY DEF Init, HostInit, ActiveInit, SandwichInv, Brackets, At
<1>2. TypeOK /\ SandwichInv /\ [Next]_vars => SandwichInv'
  <2> SUFFICES ASSUME TypeOK, SandwichInv, [Next]_vars PROVE SandwichInv' OBVIOUS
  <2>1. CASE ChangeLogins
    <3>1. UNCHANGED <<job, step, listed, answer, blind>> BY <2>1 DEF ChangeLogins, Change
    <3>2. \A r \in Runner : steady'[r] = steady[r] \cap logins' /\ seen'[r] = seen[r] \cup logins'
      BY <2>1 DEF ChangeLogins
    <3> QED BY <3>1, <3>2 DEF SandwichInv, Brackets, Between, Shown, At
  <2>2. CASE ActiveNext
    BY <2>1, <2>2, BeginBrackets, WhoBrackets, MergeBrackets, EndBrackets DEF ActiveNext
  <2>3. ASSUME NEW killed, KillHost(killed), ActiveKill(killed) PROVE SandwichInv'
    <3>1. logins' = logins BY <2>3 DEF ActiveKill
    <3>2. ASSUME NEW r \in Runner, r \in killed PROVE Brackets(r)'
      BY <2>3, <3>2 DEF KillHost, ActiveKill, Forgotten, Brackets, At
    <3>3. ASSUME NEW r \in Runner, r \notin killed PROVE Brackets(r)'
      <4>1. job'[r] = job[r] /\ step'[r] = step[r] BY <2>3, <3>3 DEF KillHost
      <4>2. /\ UNCHANGED <<listed[r], answer[r], steady[r], seen[r]>>
            /\ r \in blind' <=> r \in blind
        BY <2>3, <3>3 DEF ActiveKill, Forgotten
      <4> QED BY <3>1, <4>1, <4>2, BracketsLast DEF SandwichInv
    <3> QED BY <3>2, <3>3 DEF SandwichInv
  <2>4. CASE Foreign("who") /\ UNCHANGED activeVars
    BY <2>4, BracketsLast DEF SandwichInv, Foreign, activeVars
  <2> QED BY ActiveSteps, <2>2, <2>3, <2>4
<1>3. SandwichInv => ListIsSandwiched
  BY DEF SandwichInv, Brackets, Between, Shown, ListIsSandwiched
<1> QED BY <1>1, <1>2, <1>3, TypeCorrect, PTL DEF Spec

-----------------------------------------------------------------------------
(* The cache of geolocation                                                *)

Loads(r) == job[r] = "lookup" /\ step[r] \in {"load city", "load asn"}
Past(r)  == job[r] = "lookup" /\ step[r] \in {"city", "asn", "store"}

\* one lookup at most is between the flag and the readers; those that came to the
\* readers outside that time find all of them, unless a file could not be read
ReadersInv ==
    /\ job[Daemon] # "lookup"
    /\ readers \subseteq files
    /\ \A r \in Runner : Loads(r) => ready /\ \A o \in Runner : Loads(o) => o = r
    /\ \A r \in Runner \ early : Past(r) => ready /\ ~Loading
    /\ flawed # IP =>
          /\ ready /\ ~Loading => readers = files
          /\ \A r \in Runner : At(r, "lookup", "load asn") => files \cap {"city"} \subseteq readers

\* what a lookup has found so far
LookupOK(r) ==
    /\ result[r] # {} => job[r] = "lookup" /\ step[r] \in {"asn", "store"}
    /\ \A a, b \in asking[r] : a = b
    /\ \A ip \in asking[r] \ flawed :
          /\ At(r, "lookup", "asn") => r \notin early /\ result[r] = files \cap Known[ip] \cap {"city"}
          /\ At(r, "lookup", "store") => result[r] = files \cap Known[ip]

CacheInv == ReadersInv /\ (\A r \in Runner : LookupOK(r)) /\ CachedIsComplete

LEMMA ReadersLast ==
    ASSUME TypeOK, ReadersInv, UNCHANGED <<files, ready, readers>>, flawed \subseteq flawed',
           flawed' \subseteq IP, job'[Daemon] # "lookup",
           \A r \in Runner : /\ Loads(r)' <=> Loads(r)
                             /\ At(r, "lookup", "load asn")' => At(r, "lookup", "load asn")
                             /\ Past(r)' => Past(r) /\ (r \notin early' => r \notin early)
    PROVE  ReadersInv'
<1>1. Loading' <=> Loading BY DEF Loading, Loads
<1>2. flawed' # IP => flawed # IP OBVIOUS
<1> QED BY <1>1, <1>2 DEF ReadersInv

LEMMA LookupLasts ==
    ASSUME NEW r \in Runner, LookupOK(r), files' = files, flawed \subseteq flawed',
           UNCHANGED <<asking[r], result[r]>>,
           job'[r] = "lookup" <=> job[r] = "lookup",
           job[r] = "lookup" => step'[r] = step[r] /\ (r \in early' <=> r \in early)
    PROVE  LookupOK(r)'
BY DEF LookupOK, At

LEMMA CompleteLasts ==
    ASSUME CachedIsComplete, UNCHANGED <<files, cache, attacker>>, flawed \subseteq flawed'
    PROVE  CachedIsComplete'
BY DEF CachedIsComplete

LEMMA AskCaches ==
    ASSUME TypeOK, CacheInv, NEW r \in Panel, NEW ip \in IP, LookupIp(r, ip)
    PROVE  CacheInv'
<1> USE DEF CacheInv
<1>1. r \in Runner /\ r # Daemon BY HostAssumption DEF Runner
<1>2. /\ job[r] = "none" /\ job'[r] = "lookup" /\ step'[r] = "cache"
      /\ \A o \in Runner \ {r} : job'[o] = job[o] /\ step'[o] = step[o]
  BY <1>1 DEF LookupIp, Call, TypeOK, HostTypeOK
<1>3. UNCHANGED <<files, ready, readers, result, cache, attacker, early, flawed>> BY DEF LookupIp
<1>4. asking'[r] = {ip} /\ \A o \in Runner \ {r} : asking'[o] = asking[o]
  BY <1>1 DEF LookupIp, TypeOK, GeoTypeOK
<1>5. LookupOK(r)' BY <1>1, <1>2, <1>3, <1>4 DEF LookupOK, At
<1>6. \A o \in Runner \ {r} : LookupOK(o)' BY <1>2, <1>3, <1>4, LookupLasts
<1>7. Daemon \in Runner BY DEF Runner
<1>8. ReadersInv'
  BY <1>1, <1>2, <1>3, <1>7, ReadersLast DEF Loads, Past, At, ReadersInv, TypeOK, GeoTypeOK
<1> QED BY <1>3, <1>5, <1>6, <1>8, CompleteLasts

LEMMA HitCaches ==
    ASSUME TypeOK, CacheInv, NEW r \in Panel, CacheLookup(r)
    PROVE  CacheInv'
<1> USE DEF CacheInv
<1>1. r \in Runner /\ r # Daemon /\ Daemon \in Runner BY HostAssumption DEF Runner
<1>2. /\ job[r] = "lookup" /\ step[r] = "cache"
      /\ job'[r] = "none" \/ (job'[r] = "lookup" /\ step'[r] = "load")
      /\ \A o \in Runner \ {r} : job'[o] = job[o] /\ step'[o] = step[o]
  BY <1>1 DEF CacheLookup, At, Return, GoOn, TypeOK, HostTypeOK
<1>3. UNCHANGED <<files, ready, readers, result, cache, attacker, early, flawed>>
  BY DEF CacheLookup
<1>4. asking'[r] \subseteq asking[r] /\ \A o \in Runner \ {r} : asking'[o] = asking[o]
  BY <1>1 DEF CacheLookup, TypeOK, GeoTypeOK
<1>5. LookupOK(r)' BY <1>1, <1>2, <1>3, <1>4 DEF LookupOK, At
<1>6. \A o \in Runner \ {r} : LookupOK(o)' BY <1>2, <1>3, <1>4, LookupLasts
<1>7. ReadersInv'
  BY <1>1, <1>2, <1>3, ReadersLast DEF Loads, Past, At, ReadersInv, TypeOK, GeoTypeOK
<1> QED BY <1>3, <1>5, <1>6, <1>7, CompleteLasts

LEMMA FlagCaches ==
    ASSUME TypeOK, CacheInv, NEW r \in Panel, LoadReaders(r)
    PROVE  CacheInv'
<1> USE DEF CacheInv
<1>1. r \in Runner /\ r # Daemon /\ Daemon \in Runner BY HostAssumption DEF Runner
<1>2. /\ job[r] = "lookup" /\ step[r] = "load" /\ job' = job
      /\ step'[r] = IF ready THEN "city" ELSE "load city"
      /\ \A o \in Runner \ {r} : step'[o] = step[o]
  BY <1>1 DEF LoadReaders, At, GoOn, TypeOK, HostTypeOK
<1>3. UNCHANGED <<files, readers, asking, result, cache, attacker, flawed>> /\ ready' = TRUE
  BY DEF LoadReaders
<1>4. early' = IF ready /\ Loading THEN early \cup {r} ELSE early BY DEF LoadReaders
<1>5. LookupOK(r)'
  <2>1. result[r] = {} /\ \A a, b \in asking[r] : a = b
    BY <1>1, <1>2 DEF LookupOK
  <2>2. ~At(r, "lookup", "asn")' /\ ~At(r, "lookup", "store")'
    BY <1>2 DEF At
  <2> QED BY <1>3, <2>1, <2>2 DEF LookupOK
<1>6. \A o \in Runner \ {r} : LookupOK(o)' BY <1>2, <1>3, <1>4, LookupLasts
<1>7. CASE ready
  <2>1. \A o \in Runner : Loads(o)' <=> Loads(o) BY <1>2, <1>7 DEF Loads
  <2>2. Loading' <=> Loading BY <2>1 DEF Loading, Loads
  <2>3. \A o \in Runner \ {r} : Past(o)' <=> Past(o) BY <1>2 DEF Past
  <2>4. \A o \in Runner : At(o, "lookup", "load asn")' => At(o, "lookup", "load asn")
    BY <1>2, <1>7 DEF At
  <2>5. \A o \in Runner \ early' : Past(o)' => ready' /\ ~Loading'
    BY <1>1, <1>3, <1>4, <1>7, <2>2, <2>3 DEF ReadersInv
  <2>6. ReadersInv' BY <1>2, <1>3, <1>7, <2>1, <2>2, <2>4, <2>5 DEF ReadersInv
  <2> QED BY <1>3, <1>5, <1>6, <2>6, CompleteLasts
<1>8. CASE ~ready
  <2>1. \A o \in Runner : ~Loads(o) BY <1>8 DEF ReadersInv
  <2>2. Loads(r)' /\ \A o \in Runner \ {r} : ~Loads(o)' BY <1>2, <1>8, <2>1 DEF Loads
  <2>3. Loading' BY <1>1, <2>2 DEF Loading, Loads
  <2>4. \A o \in Runner : ~At(o, "lookup", "load asn")' BY <1>2, <1>8, <2>1 DEF At, Loads
  <2>5. \A o \in Runner \ early : ~Past(o)' BY <1>2, <1>8 DEF ReadersInv, Past
  <2>6. ReadersInv' BY <1>2, <1>3, <1>4, <1>8, <2>2, <2>3, <2>4, <2>5 DEF ReadersInv
  <2> QED BY <1>3, <1>5, <1>6, <2>6, CompleteLasts
<1> QED BY <1>7, <1>8

LEMMA LoadCaches ==
    ASSUME TypeOK, CacheInv, NEW r \in Panel, LoadCity(r) \/ LoadAsn(r)
    PROVE  CacheInv'
<1> USE DEF CacheInv
<1>1. r \in Runner /\ r # Daemon /\ Daemon \in Runner BY HostAssumption DEF Runner
<1>2. Loads(r) /\ job' = job /\ \A o \in Runner \ {r} : step'[o] = step[o]
  BY <1>1 DEF LoadCity, LoadAsn, LoadReader, Loads, At, GoOn, TypeOK, HostTypeOK
<1>3. UNCHANGED <<files, ready, asking, result, cache, attacker, early>>
  BY DEF LoadCity, LoadAsn, LoadReader
<1>4. flawed \subseteq flawed' BY DEF LoadCity, LoadAsn, LoadReader, TypeOK, GeoTypeOK
<1>5. readers \subseteq readers' /\ readers' \subseteq files
  BY DEF LoadCity, LoadAsn, LoadReader, ReadersInv
<1>6. \A o \in Runner \ {r} : ~Loads(o) BY <1>1, <1>2 DEF ReadersInv
<1>7. ready BY <1>1, <1>2 DEF ReadersInv
<1>8. \A o \in Runner \ early : ~Past(o) BY <1>1, <1>2 DEF ReadersInv, Loading, Loads
<1>9. \A o \in Runner \ {r} : LookupOK(o)' BY <1>2, <1>3, <1>4, LookupLasts
<1>10. CASE LoadCity(r)
  <2>1. step'[r] = "load asn"
    BY <1>1, <1>10 DEF LoadCity, LoadReader, GoOn, TypeOK, HostTypeOK
  <2>2. flawed' # IP => files \cap {"city"} \subseteq readers'
    BY <1>10 DEF LoadCity, LoadReader
  <2>3. Loads(r)' /\ \A o \in Runner \ {r} : ~Loads(o)' BY <1>2, <1>6, <2>1 DEF Loads
  <2>4. Loading' BY <1>1, <2>3 DEF Loading, Loads
  <2>5. \A o \in Runner \ early : ~Past(o)' BY <1>2, <1>8, <2>1 DEF Past
  <2>6. ReadersInv' BY <1>2, <1>3, <1>5, <1>7, <2>2, <2>3, <2>4, <2>5 DEF ReadersInv
  <2>7. LookupOK(r)'
    <3>1. result[r] = {} /\ \A a, b \in asking[r] : a = b
      BY <1>1, <1>2 DEF LookupOK, Loads, At
    <3>2. ~At(r, "lookup", "asn")' /\ ~At(r, "lookup", "store")'
      BY <2>1 DEF At
    <3> QED BY <1>3, <3>1, <3>2 DEF LookupOK
  <2> QED BY <1>3, <1>4, <1>9, <2>6, <2>7, CompleteLasts
<1>11. CASE LoadAsn(r)
  <2>1. step'[r] = "city"
    BY <1>1, <1>11 DEF LoadAsn, LoadReader, GoOn, TypeOK, HostTypeOK
  <2>2. \A o \in Runner : ~Loads(o)' BY <1>2, <1>6, <2>1 DEF Loads
  <2>3. ~Loading' BY <2>2 DEF Loading, Loads
  <2>4. ASSUME flawed' # IP PROVE readers' = files
    <3>1. flawed' \subseteq IP /\ flawed # IP
      BY <1>4, <2>4, <1>11 DEF LoadAsn, LoadReader, TypeOK, GeoTypeOK
    <3>2. files \cap {"city"} \subseteq readers
      BY <1>1, <1>11, <3>1 DEF LoadAsn, LoadReader, ReadersInv
    <3>3. files \cap {"asn"} \subseteq readers' BY <1>11, <2>4 DEF LoadAsn, LoadReader
    <3> QED BY <1>5, <3>2, <3>3 DEF TypeOK, GeoTypeOK, Part
  <2>5. \A o \in Runner : ~At(o, "lookup", "load asn")' BY <2>2 DEF Loads, At
  <2>6. ReadersInv' BY <1>2, <1>3, <1>5, <1>7, <2>2, <2>3, <2>4, <2>5 DEF ReadersInv
  <2>7. LookupOK(r)'
    <3>1. result[r] = {} /\ \A a, b \in asking[r] : a = b
      BY <1>1, <1>2 DEF LookupOK, Loads, At
    <3>2. ~At(r, "lookup", "asn")' /\ ~At(r, "lookup", "store")'
      BY <2>1 DEF At
    <3> QED BY <1>3, <3>1, <3>2 DEF LookupOK
  <2> QED BY <1>3, <1>4, <1>9, <2>6, <2>7, CompleteLasts
<1> QED BY <1>10, <1>11

LEMMA ResolveCaches ==
    ASSUME TypeOK, CacheInv, NEW r \in Panel, LookupCity(r) \/ LookupAsn(r)
    PROVE  CacheInv'
<1> USE DEF CacheInv
<1>1. r \in Runner /\ r # Daemon /\ Daemon \in Runner BY HostAssumption DEF Runner
<1>2. /\ job[r] = "lookup" /\ job' = job
      /\ \A o \in Runner \ {r} : step'[o] = step[o]
      /\ \/ LookupCity(r) /\ step[r] = "city" /\ step'[r] = "asn"
         \/ LookupAsn(r) /\ step[r] = "asn" /\ step'[r] = "store"
  BY <1>1 DEF LookupCity, LookupAsn, Resolve, At, GoOn, TypeOK, HostTypeOK
<1>3. UNCHANGED <<files, ready, readers, asking, cache, attacker, early>>
  BY DEF LookupCity, LookupAsn, Resolve
<1>4. flawed \subseteq flawed' /\ flawed' \subseteq IP
  BY <1>1 DEF LookupCity, LookupAsn, Resolve, TypeOK, GeoTypeOK
<1>5. /\ result'[r] \in SUBSET Part
      /\ \A o \in Runner \ {r} : result'[o] = result[o]
  BY <1>1 DEF LookupCity, LookupAsn, Resolve, TypeOK, GeoTypeOK
<1>6. \A o \in Runner \ {r} : LookupOK(o)' BY <1>2, <1>3, <1>4, <1>5, LookupLasts
<1>7. ReadersInv'
  BY <1>1, <1>2, <1>3, <1>4, ReadersLast DEF Loads, Past, At, ReadersInv, TypeOK, GeoTypeOK
<1>8. ASSUME NEW ip \in asking[r] \ flawed', NEW part \in Part, NEW a, NEW s,
             Resolve(r, part, a, s)
      PROVE  r \notin early /\ result'[r] = result[r] \cup (files \cap Known[ip] \cap {part})
  <2>1. PICK q \in asking[r] :
           \/ /\ result' = [result EXCEPT ![r] = @ \cup (readers \cap Known[q] \cap {part})]
              /\ flawed' = IF r \in early THEN flawed \cup {q} ELSE flawed
           \/ flawed' = flawed \cup {q}
    BY <1>8 DEF Resolve
  <2>2. q = ip BY <1>1, <1>8 DEF LookupOK
  <2>3. r \notin early BY <1>8, <2>1, <2>2
  <2>4. ip \in IP /\ flawed # IP BY <1>1, <1>4, <1>8 DEF TypeOK, GeoTypeOK
  <2>5. readers = files BY <1>1, <1>2, <2>3, <2>4 DEF ReadersInv, Past
  <2> QED BY <1>1, <1>8, <2>1, <2>2, <2>3, <2>5 DEF TypeOK, GeoTypeOK
<1>9. LookupOK(r)'
  <2>1. CASE LookupCity(r) /\ step[r] = "city" /\ step'[r] = "asn"
    <3>1. result[r] = {} BY <1>1, <2>1 DEF LookupOK
    <3>2. \A ip \in asking[r] \ flawed' :
             r \notin early /\ result'[r] = files \cap Known[ip] \cap {"city"}
      BY <1>8, <2>1, <3>1 DEF LookupCity, Part
    <3>3. \A p, q \in asking[r] : p = q BY <1>1 DEF LookupOK
    <3> QED BY <1>2, <1>3, <2>1, <3>2, <3>3 DEF LookupOK, At
  <2>2. CASE LookupAsn(r) /\ step[r] = "asn" /\ step'[r] = "store"
    <3>1. \A ip \in asking[r] \ flawed' : result[r] = files \cap Known[ip] \cap {"city"}
      BY <1>1, <1>2, <1>4, <2>2 DEF LookupOK, At
    <3>2. ASSUME NEW ip \in asking[r] \ flawed' PROVE result'[r] = files \cap Known[ip]
      <4>1. result'[r] = result[r] \cup (files \cap Known[ip] \cap {"asn"})
        BY <1>8, <2>2 DEF LookupAsn, Part
      <4>2. files \subseteq {"city", "asn"} BY DEF TypeOK, GeoTypeOK, Part
      <4> QED BY <3>1, <4>1, <4>2
    <3>3. \A p, q \in asking[r] : p = q BY <1>1 DEF LookupOK
    <3> QED BY <1>2, <1>3, <2>2, <3>2, <3>3 DEF LookupOK, At
  <2> QED BY <1>2, <2>1, <2>2
<1> QED BY <1>3, <1>4, <1>6, <1>7, <1>9, CompleteLasts

LEMMA StoreCaches ==
    ASSUME TypeOK, CacheInv, NEW r \in Panel, CacheStore(r)
    PROVE  CacheInv'
<1> USE DEF CacheInv
<1>1. r \in Runner /\ r # Daemon /\ Daemon \in Runner BY HostAssumption DEF Runner
<1>2. /\ At(r, "lookup", "store") /\ job'[r] = "none"
      /\ \A o \in Runner \ {r} : job'[o] = job[o] /\ step'[o] = step[o]
  BY <1>1 DEF CacheStore, Return, TypeOK, HostTypeOK
<1>3. UNCHANGED <<files, ready, readers, attacker, flawed>> /\ early' = early \ {r}
  BY DEF CacheStore
<1>4. /\ asking'[r] = {} /\ result'[r] = {}
      /\ \A o \in Runner \ {r} : asking'[o] = asking[o] /\ result'[o] = result[o]
  BY <1>1 DEF CacheStore, TypeOK, GeoTypeOK
<1>5. LookupOK(r)' BY <1>4 DEF LookupOK
<1>6. \A o \in Runner \ {r} : LookupOK(o)' BY <1>2, <1>3, <1>4, LookupLasts
<1>7. ReadersInv'
  BY <1>1, <1>2, <1>3, ReadersLast DEF Loads, Past, At, ReadersInv, TypeOK, GeoTypeOK
<1>8. ASSUME NEW ip \in IP \ flawed
      PROVE  \/ cache'[ip] = cache[ip]
             \/ cache[ip] = {} /\ cache'[ip] = files \cap Known[ip]
  <2>1. PICK q \in asking[r] :
           \/ cache' = IF result[r] = {} THEN cache ELSE [cache EXCEPT ![q] = result[r]]
           \/ cache' = cache
    BY DEF CacheStore
  <2>2. CASE cache'[ip] # cache[ip]
    <3>1. q = ip /\ cache'[ip] = result[r] BY <2>1, <2>2 DEF TypeOK, GeoTypeOK
    <3>2. result[r] = files \cap Known[ip] BY <1>1, <1>2, <1>8, <3>1, <2>1 DEF LookupOK
    <3>3. cache[ip] = {} BY <2>2, <3>1, <3>2 DEF CachedIsComplete
    <3> QED BY <3>1, <3>2, <3>3
  <2> QED BY <2>2
<1>9. CachedIsComplete' BY <1>3, <1>8 DEF CachedIsComplete
<1> QED BY <1>5, <1>6, <1>7, <1>9

\* What is cached of an address and what the attackers get of it is all the files
\* have, except for a lookup between the flag and the readers, or a file that
\* could not be read.
THEOREM CachedComplete == Spec => []CachedIsComplete
<1>1. Init => CacheInv
  BY DEF Init, HostInit, GeoInit, CacheInv, ReadersInv, Loads, Past, LookupOK, At, Runner,
         CachedIsComplete
<1>2. TypeOK /\ CacheInv /\ [Next]_vars => CacheInv'
  <2> SUFFICES ASSUME TypeOK, CacheInv, [Next]_vars PROVE CacheInv' OBVIOUS
  <2> USE DEF CacheInv
  <2>0. Daemon \in Runner /\ Panel \subseteq Runner /\ Daemon \notin Panel
    BY HostAssumption DEF Runner
  <2>1. CASE CopyToAttackers
    <3>1. UNCHANGED <<job, step, files, ready, readers, asking, result, cache, early, flawed>>
      BY <2>1 DEF CopyToAttackers, hostVars
    <3>2. ReadersInv' BY <3>1 DEF ReadersInv, Loads, Past, Loading, At
    <3>3. \A r \in Runner : LookupOK(r)' BY <3>1 DEF LookupOK, At
    <3>4. \A ip \in IP : attacker'[ip] \in {attacker[ip], cache[ip]} BY <2>1 DEF CopyToAttackers
    <3>5. CachedIsComplete' BY <3>1, <3>4 DEF CachedIsComplete
    <3> QED BY <3>2, <3>3, <3>5
  <2>2. CASE GeoNext
    BY <2>1, <2>2, AskCaches, HitCaches, FlagCaches, LoadCaches, ResolveCaches, StoreCaches
       DEF GeoNext
  <2>3. ASSUME KillHost({Daemon}), GeoKill({Daemon}) PROVE CacheInv'
    <3>1. \A r \in Runner \ {Daemon} : job'[r] = job[r] /\ step'[r] = step[r]
      BY <2>3 DEF KillHost
    <3>2. job'[Daemon] = "none" /\ job[Daemon] # "lookup"
      BY <2>0, <2>3 DEF KillHost, ReadersInv
    <3>3. UNCHANGED <<files, ready, readers, cache, attacker, flawed>> /\ early' = early \ {Daemon}
      BY <2>0, <2>3 DEF GeoKill
    <3>4. /\ \A r \in Runner \ {Daemon} : asking'[r] = asking[r] /\ result'[r] = result[r]
          /\ asking'[Daemon] = {} /\ result'[Daemon] = {}
      BY <2>0, <2>3 DEF GeoKill, Forgotten
    <3>5. ReadersInv'
      BY <2>0, <3>1, <3>2, <3>3, ReadersLast DEF Loads, Past, At, TypeOK, GeoTypeOK
    <3>6. \A r \in Runner \ {Daemon} : LookupOK(r)' BY <3>1, <3>3, <3>4, LookupLasts
    <3>7. LookupOK(Daemon)' BY <3>4 DEF LookupOK
    <3> QED BY <3>3, <3>5, <3>6, <3>7, CompleteLasts
  <2>4. ASSUME KillHost(Panel), GeoKill(Panel) PROVE CacheInv'
    <3>1. \A r \in Runner : job'[r] # "lookup"
      BY <2>0, <2>4 DEF KillHost, ReadersInv, Runner
    <3>2. ready' = FALSE /\ readers' = {}
      BY <2>4 DEF GeoKill, KillHost
    <3>3. UNCHANGED <<files, cache, attacker, flawed>> BY <2>4 DEF GeoKill
    <3>4. ReadersInv' BY <2>0, <3>1, <3>2, <3>3 DEF ReadersInv, Loads, Past, At
    <3>5. ASSUME NEW r \in Runner PROVE LookupOK(r)'
      <4>1. asking'[r] = IF r \in Panel THEN {} ELSE asking[r]
        BY <2>4 DEF GeoKill, Forgotten
      <4>2. result'[r] = {}
        BY <2>0, <2>4 DEF GeoKill, Forgotten, LookupOK, ReadersInv, Runner
      <4> QED BY <3>1, <4>1, <4>2 DEF LookupOK, At
    <3> QED BY <3>3, <3>4, <3>5, CompleteLasts
  <2>5. CASE Foreign("lookup") /\ UNCHANGED geoVars
    <3>1. UNCHANGED geoVars BY <2>5
    <3>2. ReadersInv'
      BY <2>0, <2>5, ReadersLast DEF Foreign, geoVars, Loads, Past, At, ReadersInv, TypeOK, GeoTypeOK
    <3>3. \A r \in Runner : LookupOK(r)' BY <2>5, LookupLasts DEF Foreign, geoVars
    <3> QED BY <3>1, <3>2, <3>3, CompleteLasts DEF geoVars
  <2> QED BY GeoSteps, <2>2, <2>3, <2>4, <2>5
<1>3. CacheInv => CachedIsComplete BY DEF CacheInv
<1> QED BY <1>1, <1>2, <1>3, TypeCorrect, PTL DEF Spec

-----------------------------------------------------------------------------
(* The totals of the jails                                                 *)

CollectsAlone ==
    "jails" \notin overlap =>
        \A r, o \in Runner : job[r] = "jails" /\ job[o] = "jails" => r = o

\* the figures a collection has still to store lie between what is stored and
\* what Fail2Ban counts by now
CollectionOK(r) ==
    /\ job[r] # "jails" => names[r] = {} /\ figures[r] = {}
    /\ \A f \in figures[r] :
          /\ f.jail \notin names[r]
          /\ \A g \in figures[r] : g.jail = f.jail => g = f
          /\ f.jail \notin lapsed =>
                /\ f.bans.total <= bans[f.jail].total
                /\ "jails" \notin overlap => jailRows[f.jail].total <= f.bans.total

TotalsInv ==
    /\ CollectsAlone
    /\ Jail \ up \subseteq lapsed
    /\ \A j \in Jail \ lapsed : jailRows[j].total <= bans[j].total
    /\ \A r \in Runner : CollectionOK(r)

LEMMA TotalsLast ==
    ASSUME TypeOK, TotalsInv, "jails" \in overlap' <=> "jails" \in overlap,
           up' \subseteq Jail, Jail \ up' \subseteq lapsed', lapsed \subseteq lapsed',
           jailRows' = jailRows, bans' \in [Jail -> Bans],
           \A j \in Jail \ lapsed' : bans[j].total <= bans'[j].total,
           \A r \in Runner : /\ job'[r] = "jails" => job[r] = "jails"
                             /\ \/ UNCHANGED <<names[r], figures[r]>> /\ job'[r] = job[r]
                                \/ UNCHANGED <<names[r], figures[r]>>
                                   /\ job[r] # "jails" /\ job'[r] # "jails"
                                \/ names'[r] = {} /\ figures'[r] = {}
    PROVE  TotalsInv'
<1>1. CollectsAlone' BY DEF TotalsInv, CollectsAlone
<1>2. ASSUME NEW j \in Jail \ lapsed' PROVE jailRows'[j].total <= bans'[j].total
  <2>1. jailRows[j].total <= bans[j].total BY <1>2 DEF TotalsInv
  <2>2. /\ jailRows[j].total \in Int /\ bans[j].total \in Int /\ bans'[j].total \in Int
        /\ bans[j].total <= bans'[j].total
    BY <1>2 DEF TypeOK, JailTypeOK, Bans, NoRow
  <2> QED BY <2>1, <2>2
<1>3. ASSUME NEW r \in Runner PROVE CollectionOK(r)'
  <2>1. CASE names'[r] = {} /\ figures'[r] = {} BY <2>1 DEF CollectionOK
  <2>2. CASE /\ UNCHANGED <<names[r], figures[r]>>
             /\ job'[r] # "jails" => job[r] # "jails"
    <3>1. CollectionOK(r) BY DEF TotalsInv
    <3>2. ASSUME NEW f \in figures[r], f.jail \notin lapsed'
          PROVE  /\ f.bans.total <= bans'[f.jail].total
                 /\ "jails" \notin overlap => jailRows[f.jail].total <= f.bans.total
      <4>1. f \in [jail : Jail, bans : Bans] BY DEF TypeOK, JailTypeOK
      <4>2. f.jail \in Jail /\ f.bans \in Bans BY <4>1
      <4>3. /\ f.bans.total <= bans[f.jail].total
            /\ "jails" \notin overlap => jailRows[f.jail].total <= f.bans.total
        BY <3>1, <3>2 DEF CollectionOK
      <4>4. bans[f.jail].total <= bans'[f.jail].total BY <3>2, <4>2
      <4>5. /\ f.bans.total \in Int /\ bans[f.jail].total \in Int
            /\ bans'[f.jail].total \in Int
        BY <4>2 DEF TypeOK, JailTypeOK, Bans
      <4> QED BY <4>3, <4>4, <4>5
    <3> QED BY <2>2, <3>1, <3>2 DEF CollectionOK
  <2> QED BY <2>1, <2>2
<1> QED BY <1>1, <1>2, <1>3 DEF TotalsInv

LEMMA ChangeTotals ==
    ASSUME TypeOK, TotalsInv, Reload \/ \E j \in Jail : Ban(j) \/ Unban(j)
    PROVE  TotalsInv'
<1> USE DEF TypeOK, JailTypeOK
<1>1. UNCHANGED <<job, overlap, jailRows, names, figures>>
  BY DEF Reload, Ban, Unban, Change
<1>2. ASSUME NEW j \in Jail, Ban(j) \/ Unban(j) PROVE TotalsInv'
  <2>1. UNCHANGED <<up, lapsed>> BY <1>2 DEF Ban, Unban
  <2>2. /\ bans' \in [Jail -> Bans]
        /\ \A k \in Jail : bans[k].total <= bans'[k].total
    BY <1>2 DEF Ban, Unban, Bans
  <2> QED BY <1>1, <2>1, <2>2, TotalsLast DEF TotalsInv
<1>3. CASE Reload
  <2>1. /\ up' \subseteq Jail /\ lapsed' = lapsed \cup (up \ up')
        /\ bans' = [j \in Jail |-> IF j \in up \cap up' THEN bans[j] ELSE None]
    BY <1>3 DEF Reload
  <2>2. bans' \in [Jail -> Bans] BY <2>1 DEF Bans, None
  <2>3. Jail \ up' \subseteq lapsed' /\ lapsed \subseteq lapsed' BY <2>1 DEF TotalsInv
  <2>4. ASSUME NEW j \in Jail \ lapsed' PROVE bans[j].total <= bans'[j].total
    <3>1. j \in up \cap up' BY <2>1, <2>3, <2>4 DEF TotalsInv
    <3>2. bans'[j] = bans[j] /\ bans[j] \in Bans BY <2>1, <3>1
    <3> QED BY <3>2 DEF Bans
  <2> QED BY <1>1, <2>1, <2>2, <2>3, <2>4, TotalsLast
<1> QED BY <1>2, <1>3

LEMMA ListTotals ==
    ASSUME TypeOK, TotalsInv, NEW r \in Runner, ListJails(r)
    PROVE  TotalsInv'
<1> USE DEF TypeOK, JailTypeOK
<1>1. /\ job[r] = "none" /\ job'[r] = "jails"
      /\ \A o \in Runner \ {r} : job'[o] = job[o]
      /\ overlap' = IF \E o \in Runner : job[o] = "jails" THEN overlap \cup {"jails"} ELSE overlap
  BY DEF ListJails, Call, HostTypeOK
<1>2. UNCHANGED <<up, bans, jailRows, lapsed>> BY DEF ListJails
<1>3. /\ figures'[r] = {}
      /\ \A o \in Runner \ {r} : names'[o] = names[o] /\ figures'[o] = figures[o]
  BY DEF ListJails
<1>4. CollectsAlone' BY <1>1 DEF TotalsInv, CollectsAlone
<1>5. CollectionOK(r)' BY <1>1, <1>3 DEF CollectionOK
<1>6. \A o \in Runner \ {r} : CollectionOK(o)' BY <1>1, <1>2, <1>3 DEF TotalsInv, CollectionOK
<1> QED BY <1>2, <1>4, <1>5, <1>6 DEF TotalsInv

LEMMA StatusTotals ==
    ASSUME TypeOK, TotalsInv, NEW r \in Runner, GetJailStatus(r)
    PROVE  TotalsInv'
<1> USE DEF TypeOK, JailTypeOK
<1>1. job' = job /\ overlap' = overlap /\ UNCHANGED <<up, bans, jailRows>> /\ job[r] = "jails"
  BY DEF GetJailStatus, At
<1>2. PICK j \in names[r] :
         /\ names' = [names EXCEPT ![r] = @ \ {j}]
         /\ \/ /\ figures' = [figures EXCEPT ![r] = @ \cup {[jail |-> j, bans |-> bans[j]]}]
               /\ lapsed' = lapsed
            \/ /\ figures' = [figures EXCEPT ![r] = @ \cup {[jail |-> j, bans |-> None]}]
               /\ lapsed' = lapsed \cup {j}
  BY DEF GetJailStatus
<1>3. /\ names'[r] = names[r] \ {j}
      /\ \A o \in Runner \ {r} : names'[o] = names[o] /\ figures'[o] = figures[o]
  BY <1>2
<1>4. lapsed \subseteq lapsed' /\ j \in Jail BY <1>2
<1>5. PICK b \in Bans : /\ figures'[r] = figures[r] \cup {[jail |-> j, bans |-> b]}
                        /\ j \in lapsed' \/ b = bans[j]
  <2>1. bans[j] \in Bans /\ None \in Bans BY <1>4 DEF Bans, None
  <2>2. CASE figures' = [figures EXCEPT ![r] = @ \cup {[jail |-> j, bans |-> bans[j]]}]
    <3>1. figures'[r] = figures[r] \cup {[jail |-> j, bans |-> bans[j]]} BY <2>2
    <3> QED BY <2>1, <3>1
  <2>3. CASE /\ figures' = [figures EXCEPT ![r] = @ \cup {[jail |-> j, bans |-> None]}]
             /\ lapsed' = lapsed \cup {j}
    <3>1. figures'[r] = figures[r] \cup {[jail |-> j, bans |-> None]} BY <2>3
    <3> QED BY <2>1, <2>3, <3>1
  <2> QED BY <1>2, <2>2, <2>3
<1>6. \A o \in Runner \ {r} : CollectionOK(o)' BY <1>1, <1>3, <1>4 DEF TotalsInv, CollectionOK
<1>7. CollectionOK(r)'
  <2> DEFINE new == [jail |-> j, bans |-> b]
  <2>1. new.jail = j /\ new.bans = b OBVIOUS
  <2>2. figures'[r] = figures[r] \cup {new} BY <1>5
  <2>3. CollectionOK(r) BY DEF TotalsInv
  <2> HIDE DEF new
  <2>4. \A f \in figures[r] : f.jail # j BY <1>2, <2>3 DEF CollectionOK
  <2>5. j \notin lapsed' => /\ new.bans.total <= bans[j].total
                            /\ jailRows[j].total <= new.bans.total
    <3>1. bans[j].total \in Nat BY <1>4 DEF Bans
    <3>2. j \notin lapsed => jailRows[j].total <= bans[j].total BY <1>4 DEF TotalsInv
    <3> QED BY <1>4, <1>5, <2>1, <3>1, <3>2
  <2> QED BY <1>1, <1>3, <1>4, <2>1, <2>2, <2>3, <2>4, <2>5 DEF CollectionOK
<1>8. CollectsAlone' BY <1>1 DEF TotalsInv, CollectsAlone
<1> QED BY <1>1, <1>4, <1>6, <1>7, <1>8 DEF TotalsInv

LEMMA StoreTotals ==
    ASSUME TypeOK, TotalsInv, NEW r \in Runner, StoreJail(r)
    PROVE  /\ TotalsInv'
           /\ \A j \in Jail \ lapsed :
                 "jails" \notin overlap => jailRows'[j].total >= jailRows[j].total
<1> USE DEF TypeOK, JailTypeOK
<1>1. overlap' = overlap /\ UNCHANGED <<up, bans, names, lapsed>> /\ job[r] = "jails"
  BY DEF StoreJail, At
<1>2. /\ job'[r] \in {"jails", "none"}
      /\ \A o \in Runner \ {r} : job'[o] = job[o] /\ figures'[o] = figures[o]
  BY <1>1 DEF StoreJail, Return, HostTypeOK
<1>3. names[r] = {} BY DEF StoreJail
<1>4. figures'[r] \subseteq figures[r] BY DEF StoreJail
<1>5. job'[r] = "none" => figures'[r] = {} BY <1>1 DEF StoreJail, Return, HostTypeOK
<1>6. CollectsAlone' BY <1>1, <1>2 DEF TotalsInv, CollectsAlone
<1>7. \A j \in Jail : jailRows[j].total \in Int BY DEF Bans, NoRow
<1>8. CASE jailRows' = jailRows
  <2>1. CollectionOK(r)'
    BY <1>1, <1>2, <1>3, <1>4, <1>5, <1>8 DEF TotalsInv, CollectionOK
  <2>2. \A o \in Runner \ {r} : CollectionOK(o)' BY <1>1, <1>2, <1>8 DEF TotalsInv, CollectionOK
  <2> QED BY <1>1, <1>6, <1>7, <1>8, <2>1, <2>2 DEF TotalsInv
<1>9. ASSUME NEW f \in figures[r], figures'[r] = figures[r] \ {f},
             jailRows' = [jailRows EXCEPT ![f.jail] = f.bans]
      PROVE  /\ TotalsInv'
             /\ \A j \in Jail \ lapsed :
                   "jails" \notin overlap => jailRows'[j].total >= jailRows[j].total
  <2>1. f \in [jail : Jail, bans : Bans] OBVIOUS
  <2>2. f.jail \in Jail /\ f.bans.total \in Nat BY <2>1 DEF Bans
  <2>3. /\ jailRows'[f.jail] = f.bans
        /\ \A j \in Jail \ {f.jail} : jailRows'[j] = jailRows[j]
    BY <1>9, <2>2
  <2>4. CollectionOK(r) BY DEF TotalsInv
  <2>5. f.jail \notin lapsed =>
           /\ f.bans.total <= bans[f.jail].total
           /\ "jails" \notin overlap => jailRows[f.jail].total <= f.bans.total
    BY <2>4 DEF CollectionOK
  <2>6. \A j \in Jail \ lapsed : jailRows'[j].total <= bans[j].total
    BY <2>3, <2>5 DEF TotalsInv
  <2>7. ASSUME NEW g \in figures'[r]
        PROVE  g \in figures[r] /\ g.jail \in Jail /\ jailRows'[g.jail] = jailRows[g.jail]
    <3>1. g \in figures[r] /\ g # f BY <1>9
    <3>2. g.jail # f.jail BY <3>1, <2>4 DEF CollectionOK
    <3>3. g \in [jail : Jail, bans : Bans] BY <3>1
    <3> QED BY <2>3, <3>1, <3>2, <3>3
  <2>8. CollectionOK(r)' BY <1>1, <1>2, <1>3, <1>5, <2>4, <2>7 DEF CollectionOK
  <2>9. ASSUME NEW o \in Runner \ {r} PROVE CollectionOK(o)'
    <3>1. CASE "jails" \in overlap BY <1>1, <1>2, <3>1 DEF TotalsInv, CollectionOK
    <3>2. CASE "jails" \notin overlap
      <4>1. job[o] # "jails" BY <1>1, <3>2 DEF TotalsInv, CollectsAlone
      <4> QED BY <1>1, <1>2, <4>1 DEF TotalsInv, CollectionOK
    <3> QED BY <3>1, <3>2
  <2>10. TotalsInv' BY <1>1, <1>6, <2>6, <2>8, <2>9 DEF TotalsInv
  <2>11. ASSUME NEW j \in Jail \ lapsed, "jails" \notin overlap
         PROVE  jailRows'[j].total >= jailRows[j].total
    <3>1. CASE j = f.jail BY <1>7, <2>2, <2>3, <2>5, <2>11, <3>1
    <3>2. CASE j # f.jail BY <1>7, <2>3, <3>2
    <3> QED BY <3>1, <3>2
  <2> QED BY <2>10, <2>11
<1>10. jailRows' = jailRows \/ \E f \in figures[r] :
          figures'[r] = figures[r] \ {f} /\ jailRows' = [jailRows EXCEPT ![f.jail] = f.bans]
  BY DEF StoreJail, Figure
<1> QED BY <1>8, <1>9, <1>10

\* The total of a jail in the table never falls, whatever is killed, as long as
\* Fail2Ban keeps and answers for the jail and collections do not overlap.
THEOREM TotalsOnlyGrow == Spec => TotalsGrow
<1>1. Init => TotalsInv
  BY DEF Init, HostInit, JailInit, TotalsInv, CollectsAlone, CollectionOK, None, NoRow
<1> DEFINE Grow == \A j \in Jail \ lapsed :
                      "jails" \notin overlap => jailRows'[j].total >= jailRows[j].total
<1>2. TypeOK /\ TotalsInv /\ [Next]_vars => TotalsInv' /\ Grow
  <2> SUFFICES ASSUME TypeOK, TotalsInv, [Next]_vars PROVE TotalsInv' /\ Grow OBVIOUS
  <2>1. \A j \in Jail : jailRows[j].total >= jailRows[j].total
    <3>1. \A j \in Jail : jailRows[j].total \in Int BY DEF TypeOK, JailTypeOK, Bans, NoRow
    <3> QED BY <3>1
  <2>2. jailRows' = jailRows => Grow BY <2>1
  <2>3. up \subseteq Jail /\ bans \in [Jail -> Bans] /\ Jail \ up \subseteq lapsed
        /\ \A j \in Jail : bans[j].total <= bans[j].total
    BY DEF TypeOK, JailTypeOK, TotalsInv, Bans
  <2> HIDE DEF Grow
  <2>4. CASE Reload \/ \E j \in Jail : Ban(j) \/ Unban(j)
    <3>1. jailRows' = jailRows BY <2>4 DEF Reload, Ban, Unban
    <3> QED BY <2>2, <2>4, <3>1, ChangeTotals
  <2>5. ASSUME NEW r \in Runner, ListJails(r) PROVE TotalsInv' /\ Grow
    <3>1. jailRows' = jailRows BY <2>5 DEF ListJails
    <3> QED BY <2>2, <2>5, <3>1, ListTotals
  <2>6. ASSUME NEW r \in Runner, GetJailStatus(r) PROVE TotalsInv' /\ Grow
    <3>1. jailRows' = jailRows BY <2>6 DEF GetJailStatus
    <3> QED BY <2>2, <2>6, <3>1, StatusTotals
  <2>7. ASSUME NEW r \in Runner, StoreJail(r) PROVE TotalsInv' /\ Grow
    BY <2>7, StoreTotals DEF Grow
  <2>8. CASE JailNext BY <2>4, <2>5, <2>6, <2>7, <2>8 DEF JailNext
  <2>9. ASSUME NEW killed, KillHost(killed), JailKill(killed) PROVE TotalsInv' /\ Grow
    <3>1. UNCHANGED <<up, bans, jailRows, lapsed, overlap>> BY <2>9 DEF KillHost, JailKill
    <3>2. \A r \in Runner :
             /\ job'[r] = "jails" => job[r] = "jails"
             /\ \/ UNCHANGED <<names[r], figures[r]>> /\ job'[r] = job[r]
                \/ names'[r] = {} /\ figures'[r] = {}
      BY <2>9 DEF KillHost, JailKill, Forgotten
    <3> QED BY <2>2, <2>3, <3>1, <3>2, TotalsLast
  <2>10. CASE Foreign("jails") /\ UNCHANGED jailVars
    <3>1. UNCHANGED <<up, bans, jailRows, names, figures, lapsed>> BY <2>10 DEF jailVars
    <3>2. /\ "jails" \in overlap' <=> "jails" \in overlap
          /\ \A r \in Runner : job'[r] = "jails" <=> job[r] = "jails"
      BY <2>10 DEF Foreign
    <3>3. \A r \in Runner :
             \/ UNCHANGED <<names[r], figures[r]>> /\ job'[r] = job[r]
             \/ UNCHANGED <<names[r], figures[r]>>
                /\ job[r] # "jails" /\ job'[r] # "jails"
      BY <3>1, <3>2
    <3> QED BY <2>2, <2>3, <3>1, <3>2, <3>3, TotalsLast
  <2> QED BY JailSteps, <2>8, <2>9, <2>10
<1>3. Grow => [Grow]_jailVars OBVIOUS
<1>4. Spec => [][Grow]_jailVars BY <1>1, <1>2, <1>3, TypeCorrect, PTL DEF Spec
<1> QED BY <1>4 DEF TotalsGrow

-----------------------------------------------------------------------------
(* The warning before the last day                                         *)

Opens(p) == disk[p].expires - (CriticalDays + 1) * DayLen + 1

\* from when the daemon can find the certificate inside the seven days
From(p) == IF since[p] > Opens(p) THEN since[p] ELSE Opens(p)

Start == due["certs"] - Period   \* of the daemon's last scan

\* the certificate has yet to be warned of, and in time
Awaits(p) ==
    /\ disk[p] # NoFile
    /\ From(p) + Period + 2 * Slack <= disk[p].expires - DayLen
    /\ <<p, disk[p].domain, disk[p].expires>> \notin warned

CertOf(p) == [path |-> p, domain |-> disk[p].domain, expires |-> disk[p].expires]

\* the daemon's scan has still to store what the file says
Carries(p) ==
    \/ p \in todo[Daemon]
    \/ CertOf(p) \in parsed[Daemon]
    \/ \E h \in held[Daemon] : h.cert = CertOf(p)

\* a certificate that awaits its warning came after the last scan began, or the
\* scan that runs carries it, and began early enough
InTime(p) ==
    Awaits(p) =>
        \/ Start <= From(p)
        \/ /\ job[Daemon] = "certs" /\ Carries(p)
           /\ From(p) <= Start /\ Start <= From(p) + Period + Slack

KeepsUp ==
    "certs" \in has =>
        /\ Start <= now /\ now <= Start + Period + Slack
        /\ job[Daemon] = "certs" => now <= Start + Slack

HoldsOne ==
    /\ held[Daemon] # {} => job[Daemon] = "certs" /\ step[Daemon] = "store"
    /\ \A g, h \in held[Daemon] : g = h

WarnInv ==
    /\ \A p \in Path : disk[p] # NoFile => "certs" \in has
    /\ faults = 0 => KeepsUp /\ HoldsOne /\ \A p \in Path : InTime(p)

LEMMA OpensType ==
    ASSUME TypeOK, NEW p \in Path
    PROVE  Opens(p) \in Int /\ From(p) \in Int /\ disk[p].expires \in Nat /\ since[p] \in Nat
<1>1. disk[p].expires \in Nat /\ since[p] \in Nat
  <2>1. disk[p] \in File \/ disk[p] = NoFile BY DEF TypeOK, CertTypeOK
  <2>2. CASE disk[p] \in File BY <2>2, CertAssumption DEF File, TypeOK, CertTypeOK
  <2>3. CASE disk[p] = NoFile BY <2>3 DEF NoFile, TypeOK, CertTypeOK
  <2> QED BY <2>1, <2>2, <2>3
<1>2. (CriticalDays + 1) * DayLen \in Int BY CertAssumption
<1>3. Opens(p) \in Int BY <1>1, <1>2 DEF Opens
<1> QED BY <1>1, <1>3 DEF From

LEMMA DueType ==
    ASSUME TypeOK, "certs" \in has
    PROVE  due["certs"] \in Nat /\ Start \in Int
BY HostAssumption DEF TypeOK, HostTypeOK, Polled, Start

\* Inside the seven days, and before the last one, the rule selects the row.
LEMMA DaysInside ==
    ASSUME NEW e \in Nat, now \in Nat,
           e - (CriticalDays + 1) * DayLen + 1 <= now, now <= e - DayLen
    PROVE  0 < DaysRemaining(e) /\ DaysRemaining(e) <= CriticalDays
<1> DEFINE x == e - now
           q == x \div DayLen
<1>1. x \in Int /\ q \in Int /\ DayLen \in Nat /\ DayLen > 0 /\ CriticalDays \in Nat
  BY CertAssumption
<1>2. x >= DayLen /\ x < (CriticalDays + 1) * DayLen
  <2>1. (CriticalDays + 1) * DayLen \in Int BY <1>1
  <2> QED BY <1>1, <2>1
<1>3. q * DayLen <= x /\ x < q * DayLen + DayLen BY <1>1
<1>4. DaysRemaining(e) = q BY DEF DaysRemaining
<1> HIDE DEF x, q
<1>5. q > 0
  <2> SUFFICES ASSUME q <= 0 PROVE FALSE BY <1>1
  <2>1. q * DayLen <= 0 BY <1>1
  <2> QED BY <1>1, <1>2, <1>3, <2>1
<1>6. q <= CriticalDays
  <2> SUFFICES ASSUME q >= CriticalDays + 1 PROVE FALSE BY <1>1
  <2>1. (CriticalDays + 1) * DayLen <= q * DayLen BY <1>1
  <2>2. (CriticalDays + 1) * DayLen \in Int /\ q * DayLen \in Int BY <1>1
  <2> QED BY <1>1, <1>2, <1>3, <2>1, <2>2
<1> QED BY <1>4, <1>5, <1>6

LEMMA InTimeLasts ==
    ASSUME NEW p \in Path, InTime(p), UNCHANGED <<disk[p], since[p], due["certs"]>>,
           job'[Daemon] = "certs" <=> job[Daemon] = "certs",
           UNCHANGED <<todo[Daemon], parsed[Daemon], held[Daemon]>>, warned \subseteq warned'
    PROVE  InTime(p)'
BY DEF InTime, Awaits, From, Opens, Start, Carries, CertOf

\* a step of the daemon's scan, or of another, that does not begin one
LEMMA WarnLasts ==
    ASSUME TypeOK, WarnInv, UNCHANGED <<disk, now, has>>, faults' \in Nat, faults <= faults',
           "certs" \in has => due'["certs"] = due["certs"],
           job'[Daemon] = "certs" => job[Daemon] = "certs",
           faults' = 0 /\ HoldsOne => HoldsOne',
           \A p \in Path : faults' = 0 /\ "certs" \in has /\ KeepsUp /\ HoldsOne /\ InTime(p)
                              => InTime(p)'
    PROVE  WarnInv'
<1>1. \A p \in Path : disk'[p] # NoFile => "certs" \in has' BY DEF WarnInv
<1>2. ASSUME faults' = 0 PROVE KeepsUp' /\ HoldsOne' /\ \A p \in Path : InTime(p)'
  <2>1. faults = 0 BY <1>2 DEF TypeOK, HostTypeOK
  <2>2. KeepsUp /\ HoldsOne /\ \A p \in Path : InTime(p) BY <2>1 DEF WarnInv
  <2>3. KeepsUp' BY <2>2 DEF KeepsUp, Start
  <2>4. ASSUME NEW p \in Path PROVE InTime(p)'
    <3>1. CASE "certs" \in has BY <1>2, <2>2, <3>1
    <3>2. CASE "certs" \notin has BY <3>2 DEF WarnInv, InTime, Awaits
    <3> QED BY <3>1, <3>2
  <2> QED BY <1>2, <2>2, <2>3, <2>4
<1> QED BY <1>1, <1>2 DEF WarnInv

LEMMA ElsewhereWarns ==
    ASSUME TypeOK, WarnInv, UNCHANGED <<disk, since, now, has>>, faults' \in Nat,
           faults <= faults', "certs" \in has => due'["certs"] = due["certs"],
           job'[Daemon] = "certs" <=> job[Daemon] = "certs",
           job[Daemon] = "certs" => step'[Daemon] = step[Daemon],
           UNCHANGED <<todo[Daemon], parsed[Daemon], held[Daemon]>>, warned \subseteq warned'
    PROVE  WarnInv'
<1>1. HoldsOne => HoldsOne' BY DEF HoldsOne
<1>2. \A p \in Path : "certs" \in has /\ InTime(p) => InTime(p)' BY InTimeLasts
<1> QED BY <1>1, <1>2, WarnLasts

LEMMA FileWarns ==
    ASSUME TypeOK, WarnInv, NEW q \in Path, ChangeFile(q)
    PROVE  WarnInv'
<1>1. UNCHANGED <<now, has, due, job, step, faults, todo, parsed, held, warned>>
  BY DEF ChangeFile, Change, certLocal
<1>2. "certs" \in has BY DEF ChangeFile, Change
<1>3. since'[q] = now /\ \A p \in Path \ {q} : disk'[p] = disk[p] /\ since'[p] = since[p]
  BY DEF ChangeFile, TypeOK, CertTypeOK
<1>4. ASSUME faults' = 0 PROVE KeepsUp' /\ HoldsOne' /\ \A p \in Path : InTime(p)'
  <2>1. KeepsUp /\ HoldsOne /\ \A p \in Path : InTime(p) BY <1>1, <1>4 DEF WarnInv
  <2>2. KeepsUp' /\ HoldsOne' BY <1>1, <2>1 DEF KeepsUp, HoldsOne, Start
  <2>3. \A p \in Path \ {q} : InTime(p)' BY <1>1, <1>3, <2>1, InTimeLasts
  <2>4. InTime(q)'
    <3>1. disk'[q].expires \in Nat
      <4>1. CertTypeOK' BY CertTypes DEF CertNext, TypeOK
      <4>2. disk'[q] \in File \/ disk'[q] = NoFile BY <4>1 DEF CertTypeOK
      <4>3. CASE disk'[q] \in File BY <4>3, CertAssumption DEF File
      <4>4. CASE disk'[q] = NoFile BY <4>4 DEF NoFile
      <4> QED BY <4>2, <4>3, <4>4
    <3>2. Opens(q)' \in Int
      <4>1. (CriticalDays + 1) * DayLen \in Int BY CertAssumption
      <4> QED BY <3>1, <4>1 DEF Opens
    <3>3. now <= From(q)' BY <1>3, <3>2 DEF From, TypeOK, HostTypeOK
    <3>4. Start' = Start /\ Start \in Int BY <1>1, <1>2, DueType DEF Start
    <3>5. From(q)' \in Int /\ now \in Int
      BY <1>3, <3>2 DEF From, TypeOK, HostTypeOK
    <3>6. Start' <= From(q)'
      BY <1>2, <2>1, <3>3, <3>4, <3>5 DEF KeepsUp
    <3> QED BY <3>6 DEF InTime
  <2> QED BY <2>2, <2>3, <2>4
<1> QED BY <1>1, <1>2, <1>4 DEF WarnInv

LEMMA FindWarns ==
    ASSUME TypeOK, WarnInv, FindCertFiles(Daemon)
    PROVE  WarnInv'
<1>0. Daemon \in Runner BY DEF Runner
<1>1. UNCHANGED <<now, has, faults, disk, since, parsed, held, warned>> /\ "certs" \in has
  BY DEF FindCertFiles, Call
<1>2. /\ job[Daemon] = "none" /\ job'[Daemon] = "certs" /\ now >= due["certs"]
      /\ due'["certs"] = now + Period
  BY <1>0, <1>1 DEF FindCertFiles, Call, TypeOK, HostTypeOK, Polled
<1>3. todo'[Daemon] = {p \in Path : disk[p] # NoFile}
  BY <1>0 DEF FindCertFiles, TypeOK, CertTypeOK
<1>4. /\ Start \in Int /\ now \in Int /\ Period \in Nat /\ Slack \in Nat
      /\ due["certs"] = Start + Period /\ Start' = now
  BY <1>1, <1>2, DueType, HostAssumption, CertAssumption DEF Start, TypeOK, HostTypeOK
<1>5. ASSUME faults' = 0 PROVE KeepsUp' /\ HoldsOne' /\ \A p \in Path : InTime(p)'
  <2>1. KeepsUp /\ HoldsOne /\ \A p \in Path : InTime(p) BY <1>1, <1>5 DEF WarnInv
  <2>2. KeepsUp' BY <1>1, <1>4 DEF KeepsUp
  <2>3. HoldsOne' BY <1>1, <1>2, <2>1 DEF HoldsOne
  <2>4. ASSUME NEW p \in Path, Awaits(p)' PROVE InTime(p)'
    <3>1. Awaits(p) /\ From(p)' = From(p) BY <1>1, <2>4 DEF Awaits, From, Opens
    <3>2. Start <= From(p) BY <1>2, <2>1, <3>1 DEF InTime
    <3>3. Carries(p)' BY <1>1, <1>3, <3>1 DEF Carries, Awaits
    <3>4. now <= Start + Period + Slack BY <1>1, <2>1 DEF KeepsUp
    <3>5. From(p) \in Int BY OpensType
    <3>6. Start' <= From(p)' \/ (From(p)' <= Start' /\ Start' <= From(p)' + Period + Slack)
      BY <1>4, <3>1, <3>2, <3>4, <3>5
    <3> QED BY <1>2, <3>3, <3>6 DEF InTime
  <2>5. \A p \in Path : InTime(p)' BY <2>4 DEF InTime
  <2> QED BY <2>2, <2>3, <2>5
<1> QED BY <1>1, <1>5 DEF WarnInv

LEMMA ParseWarns ==
    ASSUME TypeOK, WarnInv, ParseCertificate(Daemon)
    PROVE  WarnInv'
<1>0. Daemon \in Runner BY DEF Runner
<1>1. UNCHANGED <<now, has, due, job, step, disk, since, held, warned>>
  BY DEF ParseCertificate
<1>2. faults' \in Nat /\ faults <= faults' BY DEF ParseCertificate, Fail, TypeOK, HostTypeOK
<1>3. HoldsOne => HoldsOne' BY <1>1 DEF HoldsOne
<1>4. ASSUME NEW p \in Path, faults' = 0, InTime(p) PROVE InTime(p)'
  <2>1. PICK q \in todo[Daemon] :
           /\ todo'[Daemon] = todo[Daemon] \ {q}
           /\ \/ disk[q] = NoFile /\ parsed' = parsed
              \/ parsed'[Daemon] = parsed[Daemon] \cup {CertOf(q)}
    BY <1>0, <1>4 DEF ParseCertificate, Fail, CertOf, TypeOK, HostTypeOK, CertTypeOK
  <2>2. Awaits(p)' = Awaits(p) /\ From(p)' = From(p) /\ Start' = Start
    BY <1>1 DEF Awaits, From, Opens, Start
  <2>3. CertOf(p)' = CertOf(p) BY <1>1 DEF CertOf
  <2>4. Awaits(p) /\ Carries(p) => Carries(p)'
    BY <1>1, <2>1, <2>3 DEF Carries, Awaits
  <2> QED BY <1>1, <1>4, <2>2, <2>4 DEF InTime
<1> QED BY <1>1, <1>2, <1>3, <1>4, WarnLasts

LEMMA JudgeWarns ==
    ASSUME TypeOK, WarnInv, JudgeNext(Daemon)
    PROVE  WarnInv'
<1>0. Daemon \in Runner BY DEF Runner
<1>1. UNCHANGED <<now, has, due, faults, disk, since, todo, warned>> BY DEF JudgeNext
<1>2. /\ job[Daemon] = "certs" /\ step[Daemon] = "parse" /\ todo[Daemon] = {}
      /\ \/ /\ parsed[Daemon] = {} /\ UNCHANGED <<parsed, held>> /\ job'[Daemon] = "none"
         \/ /\ job' = job /\ step'[Daemon] = "store"
            /\ \E c \in parsed[Daemon] :
                  /\ parsed'[Daemon] = parsed[Daemon] \ {c}
                  /\ held'[Daemon] = {[cert |-> c, status |-> EvaluateHealth(c.expires)]}
  BY <1>0 DEF JudgeNext, At, Return, GoOn, TypeOK, HostTypeOK, CertTypeOK
<1>3. HoldsOne => HoldsOne' BY <1>2 DEF HoldsOne
<1>4. ASSUME NEW p \in Path, HoldsOne, InTime(p) PROVE InTime(p)'
  <2>1. Awaits(p)' = Awaits(p) /\ From(p)' = From(p) /\ Start' = Start
    BY <1>1 DEF Awaits, From, Opens, Start
  <2>2. CertOf(p)' = CertOf(p) BY <1>1 DEF CertOf
  <2>3. held[Daemon] = {} BY <1>2, <1>4 DEF HoldsOne
  <2>4. CASE parsed[Daemon] = {}
    <3>1. ~Carries(p) BY <1>2, <2>3, <2>4 DEF Carries
    <3> QED BY <1>4, <2>1, <3>1 DEF InTime
  <2>5. ASSUME NEW c \in parsed[Daemon], job' = job,
               parsed'[Daemon] = parsed[Daemon] \ {c},
               held'[Daemon] = {[cert |-> c, status |-> EvaluateHealth(c.expires)]}
        PROVE  InTime(p)'
    <3>1. \E h \in held'[Daemon] : h.cert = c BY <2>5
    <3>2. Carries(p) => Carries(p)' BY <1>2, <2>2, <2>3, <2>5, <3>1 DEF Carries
    <3> QED BY <1>4, <2>1, <2>5, <3>2 DEF InTime
  <2> QED BY <1>2, <2>4, <2>5
<1>5. job'[Daemon] = "certs" => job[Daemon] = "certs" BY <1>2
<1>6. faults' \in Nat /\ faults <= faults' BY <1>1 DEF TypeOK, HostTypeOK
<1> QED BY <1>1, <1>3, <1>4, <1>5, <1>6, WarnLasts

LEMMA StoreWarns ==
    ASSUME TypeOK, WarnInv, StoreCertificate(Daemon)
    PROVE  WarnInv'
<1>0. Daemon \in Runner BY DEF Runner
<1>1. UNCHANGED <<now, has, due, job, disk, since, todo, parsed>> /\ job[Daemon] = "certs"
  BY DEF StoreCertificate, GoOn, At
<1>2. held'[Daemon] = {} BY <1>0 DEF StoreCertificate, TypeOK, CertTypeOK
<1>3. faults' \in Nat /\ faults <= faults' BY DEF StoreCertificate, Fail, TypeOK, HostTypeOK
<1>4. HoldsOne' BY <1>2 DEF HoldsOne
<1>5. ASSUME NEW p \in Path, faults' = 0, "certs" \in has, KeepsUp, HoldsOne, InTime(p)
      PROVE  InTime(p)'
  <2>1. PICK h \in held[Daemon] :
           /\ rows' = Upserted(h)
           /\ warned' = warned \cup {<<row.path, row.domain, row.expires>> :
                                        row \in {q \in rows' : Selected(q)}}
    BY <1>5 DEF StoreCertificate, Fail, TypeOK, HostTypeOK
  <2>2. /\ From(p)' = From(p) /\ Start' = Start /\ CertOf(p)' = CertOf(p)
        /\ Awaits(p)' => Awaits(p)
    BY <1>1, <2>1 DEF Awaits, From, Opens, Start, CertOf
  <2>3. CASE h.cert # CertOf(p)
    <3>1. Carries(p) => Carries(p)' BY <1>1, <1>5, <2>1, <2>2, <2>3 DEF Carries, HoldsOne
    <3> QED BY <1>1, <1>5, <2>2, <3>1 DEF InTime
  <2>4. CASE h.cert = CertOf(p) /\ Awaits(p) /\ ~(Start <= From(p))
    <3>1. /\ From(p) <= Start /\ Start <= From(p) + Period + Slack
          /\ From(p) + Period + 2 * Slack <= disk[p].expires - DayLen
      BY <1>5, <2>4 DEF InTime, Awaits
    <3>2. Start <= now /\ now <= Start + Slack BY <1>1, <1>5 DEF KeepsUp
    <3>3. /\ From(p) \in Int /\ Opens(p) \in Int /\ Start \in Int /\ disk[p].expires \in Nat
          /\ now \in Nat /\ Slack \in Nat /\ Period \in Nat /\ DayLen \in Nat
          /\ Opens(p) <= From(p)
      <4>1. Opens(p) <= From(p) BY OpensType DEF From
      <4> QED BY <1>5, <4>1, OpensType, DueType, CertAssumption, HostAssumption
              DEF TypeOK, HostTypeOK
    <3>4. Opens(p) <= now /\ now <= disk[p].expires - DayLen BY <3>1, <3>2, <3>3
    <3>5. /\ 0 < DaysRemaining(disk[p].expires)
          /\ DaysRemaining(disk[p].expires) <= CriticalDays
      BY <3>3, <3>4, DaysInside DEF Opens
    <3>6. RowOf(h) \in rows' BY <2>1 DEF Upserted
    <3>7. /\ RowOf(h).path = p /\ RowOf(h).domain = disk[p].domain
          /\ RowOf(h).expires = disk[p].expires
          /\ RowOf(h).days = DaysRemaining(disk[p].expires)
      BY <2>4 DEF RowOf, CertOf
    <3>8. Selected(RowOf(h))
      <4>1. DaysRemaining(disk[p].expires) \in Int
        BY <3>3, CertAssumption DEF DaysRemaining
      <4> QED BY <3>5, <3>7, <4>1 DEF Selected
    <3>9. <<p, disk[p].domain, disk[p].expires>> \in warned' BY <2>1, <3>6, <3>7, <3>8
    <3> QED BY <1>1, <3>9 DEF InTime, Awaits
  <2>5. CASE Start <= From(p) BY <2>2, <2>5 DEF InTime
  <2>6. CASE ~Awaits(p) BY <2>2, <2>6 DEF InTime
  <2> QED BY <2>3, <2>4, <2>5, <2>6
<1> QED BY <1>1, <1>3, <1>4, <1>5, WarnLasts

\* a scan of the panel
LEMMA PanelWarns ==
    ASSUME TypeOK, WarnInv, NEW r \in Runner \ {Daemon},
           \/ FindCertFiles(r) \/ ParseCertificate(r) \/ JudgeNext(r) \/ StoreCertificate(r)
    PROVE  WarnInv'
<1>0. Daemon \in Runner BY DEF Runner
<1>1. UNCHANGED <<disk, since, now, has, due>>
  BY DEF FindCertFiles, ParseCertificate, JudgeNext, StoreCertificate, Call
<1>2. job'[Daemon] = job[Daemon] /\ step'[Daemon] = step[Daemon]
  BY <1>0 DEF FindCertFiles, ParseCertificate, JudgeNext, StoreCertificate, Call, Return, GoOn,
              TypeOK, HostTypeOK
<1>3. UNCHANGED <<todo[Daemon], parsed[Daemon], held[Daemon]>>
  BY <1>0 DEF FindCertFiles, ParseCertificate, JudgeNext, StoreCertificate, TypeOK, CertTypeOK
<1>4. warned \subseteq warned'
  BY DEF FindCertFiles, ParseCertificate, JudgeNext, StoreCertificate
<1>5. faults' \in {faults, faults + 1}
  BY DEF FindCertFiles, ParseCertificate, JudgeNext, StoreCertificate, Call, Fail
<1>6. faults' \in Nat /\ faults <= faults' BY <1>5 DEF TypeOK, HostTypeOK
<1> QED BY <1>1, <1>2, <1>3, <1>4, <1>6, ElsewhereWarns

\* What the other monitors leave alone of the daemon's scans.
KeepsDue ==
    /\ UNCHANGED <<now, has>> /\ faults' \in Nat /\ faults <= faults'
    /\ "certs" \in has => due'["certs"] = due["certs"]

LEMMA CallKeepsDue ==
    ASSUME HostTypeOK, NEW r, NEW j \in Job \ {"certs"}, NEW s, Call(r, j, s)
    PROVE  KeepsDue
BY DEF Call, KeepsDue, HostTypeOK, Polled

LEMMA ServiceKeepsDue == ASSUME HostTypeOK, ServiceNext PROVE KeepsDue
<1>1. ASSUME NEW r \in Runner, CheckAll(r) PROVE KeepsDue
  BY <1>1, CallKeepsDue DEF CheckAll, Job, Polled
<1>2. CASE due' = due
  BY <1>2 DEF ServiceNext, ChangeUnit, CheckAll, IsActive, IsEnabled, StoreServiceStatus,
              Change, Call, Fail, KeepsDue, HostTypeOK
<1> QED BY <1>1, <1>2 DEF ServiceNext, ChangeUnit, IsActive, IsEnabled, StoreServiceStatus, Change

LEMMA JailKeepsDue == ASSUME HostTypeOK, JailNext PROVE KeepsDue
<1>1. ASSUME NEW r \in Runner, ListJails(r) PROVE KeepsDue
  BY <1>1, CallKeepsDue DEF ListJails, Job, Polled
<1>2. ASSUME NEW j \in Jail, Ban(j) \/ Unban(j) PROVE KeepsDue
  BY <1>2 DEF Ban, Unban, Change, KeepsDue, HostTypeOK
<1>3. ASSUME NEW r \in Runner, GetJailStatus(r) \/ StoreJail(r) PROVE KeepsDue
  <2>1. now' = now /\ has' = has /\ due' = due BY <1>3 DEF GetJailStatus, StoreJail
  <2>2. faults' \in {faults, faults + 1} BY <1>3 DEF GetJailStatus, StoreJail, Fail
  <2> QED BY <2>1, <2>2 DEF KeepsDue, HostTypeOK
<1>4. Reload => KeepsDue BY DEF Reload, Change, KeepsDue, HostTypeOK
<1> QED BY <1>1, <1>2, <1>3, <1>4 DEF JailNext

LEMMA GeoKeepsDue == ASSUME HostTypeOK, GeoNext PROVE KeepsDue
<1>1. ASSUME NEW r \in Panel, NEW ip \in IP, LookupIp(r, ip) PROVE KeepsDue
  BY <1>1, CallKeepsDue DEF LookupIp, Job, Polled
<1>2. ASSUME NEW r \in Panel,
             \/ CacheLookup(r) \/ LoadReaders(r) \/ LoadCity(r) \/ LoadAsn(r)
             \/ LookupCity(r) \/ LookupAsn(r) \/ CacheStore(r)
      PROVE  KeepsDue
  <2>1. now' = now /\ has' = has /\ due' = due
    BY <1>2 DEF CacheLookup, LoadReaders, LoadCity, LoadAsn, LoadReader, LookupCity, LookupAsn,
                Resolve, CacheStore
  <2>2. faults' \in {faults, faults + 1}
    BY <1>2 DEF CacheLookup, LoadReaders, LoadCity, LoadAsn, LoadReader, LookupCity, LookupAsn,
                Resolve, CacheStore, Fail
  <2> QED BY <2>1, <2>2 DEF KeepsDue, HostTypeOK
<1>3. CopyToAttackers => KeepsDue BY DEF CopyToAttackers, hostVars, KeepsDue, HostTypeOK
<1> QED BY <1>1, <1>2, <1>3 DEF GeoNext

LEMMA ActiveKeepsDue == ASSUME HostTypeOK, ActiveNext PROVE KeepsDue
<1>1. ASSUME NEW r \in Runner, GetActiveSessions(r) PROVE KeepsDue
  BY <1>1, CallKeepsDue DEF GetActiveSessions, Job, Polled
<1>2. CASE due' = due
  BY <1>2 DEF ActiveNext, ChangeLogins, GetActiveSessions, RunWho, RunW, Answered,
              Change, Call, Fail, KeepsDue, HostTypeOK
<1> QED BY <1>1, <1>2 DEF ActiveNext, ChangeLogins, RunWho, RunW, Answered, Change

LEMMA TickWarns ==
    ASSUME TypeOK, WarnInv, Tick
    PROVE  WarnInv'
<1>1. UNCHANGED <<has, due, job, step, faults, certVars>> /\ now' = now + 1 /\ ScansKeepUp
  BY DEF Tick
<1>2. UNCHANGED <<disk, since, todo, parsed, held, warned>> BY <1>1 DEF certVars, certLocal
<1>3. \A p \in Path : InTime(p) => InTime(p)' BY <1>1, <1>2, InTimeLasts
<1>4. HoldsOne => HoldsOne' BY <1>1, <1>2 DEF HoldsOne
<1>5. KeepsUp => KeepsUp'
  <2> SUFFICES ASSUME KeepsUp, "certs" \in has PROVE KeepsUp' BY <1>1 DEF KeepsUp
  <2>1. /\ Start \in Int /\ due["certs"] \in Nat /\ now \in Nat /\ Period \in Nat /\ Slack \in Nat
        /\ due["certs"] = Start + Period /\ Start' = Start
    BY <1>1, DueType, HostAssumption, CertAssumption DEF Start, TypeOK, HostTypeOK
  <2>2. /\ now < due["certs"] + Slack
        /\ job[Daemon] = "certs" => now + Period < due["certs"] + Slack
    BY <1>1 DEF ScansKeepUp
  <2> QED BY <1>1, <2>1, <2>2 DEF KeepsUp
<1> QED BY <1>1, <1>2, <1>3, <1>4, <1>5 DEF WarnInv

\* A certificate that is on disk early enough for the daemon to scan it inside the
\* seven days and before its last one has been a row the 7-day rule selects, as long
\* as nothing fails and the daemon's scans keep up with the clock.
THEOREM Warned == Spec => []WarnedBeforeLastDay
<1>0. Daemon \in Runner BY DEF Runner
<1>1. Init => WarnInv
  <2> SUFFICES ASSUME Init PROVE WarnInv OBVIOUS
  <2>1. \A p \in Path : disk[p] = NoFile BY DEF Init, CertInit
  <2>2. held[Daemon] = {} BY <1>0 DEF Init, CertInit
  <2>3. KeepsUp
    <3>1. now = 0 /\ job[Daemon] = "none" BY <1>0 DEF Init, HostInit
    <3>2. "certs" \in has => Start = 0 - Period
      BY DEF Init, HostInit, Start, Polled
    <3> QED BY <3>1, <3>2, HostAssumption, CertAssumption DEF KeepsUp
  <2> QED BY <2>1, <2>2, <2>3 DEF WarnInv, HoldsOne, InTime, Awaits
<1>2. TypeOK /\ WarnInv /\ [Next]_vars => WarnInv'
  <2> SUFFICES ASSUME TypeOK, WarnInv, [Next]_vars PROVE WarnInv' OBVIOUS
  <2> USE DEF TypeOK
  <2>1. CASE Tick BY <2>1, TickWarns
  <2>2. ASSUME NEW killed, Kill(killed) PROVE WarnInv'
    <3>1. faults' = faults + 1 /\ faults \in Nat BY <2>2 DEF Kill, KillHost, Fail, HostTypeOK
    <3>2. UNCHANGED <<disk, has>> BY <2>2 DEF Kill, KillHost, CertKill
    <3> QED BY <3>1, <3>2 DEF WarnInv
  <2>3. CASE CertNext
    BY <2>3, FileWarns, FindWarns, ParseWarns, JudgeWarns, StoreWarns, PanelWarns DEF CertNext
  <2>4. ASSUME KeepsDue, Foreign("certs"), UNCHANGED certVars PROVE WarnInv'
    <3>1. UNCHANGED <<disk, since, todo, parsed, held, warned>> BY <2>4 DEF certVars, certLocal
    <3> QED BY <1>0, <2>4, <3>1, ElsewhereWarns DEF KeepsDue, Foreign
  <2>5. CASE ServiceNext /\ UNCHANGED certVars
    BY <2>4, <2>5, ServiceKeepsDue, ServiceForeign DEF Job, Polled
  <2>6. CASE JailNext /\ UNCHANGED certVars
    BY <2>4, <2>6, JailKeepsDue, JailForeign DEF Job, Polled
  <2>7. CASE GeoNext /\ UNCHANGED certVars
    BY <2>4, <2>7, GeoKeepsDue, GeoForeign DEF Job, Polled
  <2>8. CASE ActiveNext /\ UNCHANGED certVars
    BY <2>4, <2>8, ActiveKeepsDue, ActiveForeign DEF Job, Polled
  <2>9. CASE UNCHANGED vars
    <3>1. UNCHANGED <<now, has, due, faults, certVars>> BY <2>9 DEF vars, hostVars
    <3>2. KeepsDue BY <3>1 DEF KeepsDue, HostTypeOK
    <3>3. Foreign("certs") BY <2>9, TickForeign DEF vars
    <3> QED BY <2>4, <3>1, <3>2, <3>3
  <2> QED BY <2>1, <2>2, <2>3, <2>5, <2>6, <2>7, <2>8, <2>9 DEF Next
<1>3. TypeOK /\ WarnInv => WarnedBeforeLastDay
  <2> SUFFICES ASSUME TypeOK, WarnInv, faults = 0, NEW p \in Path,
                      disk[p] # NoFile,
                      From(p) + Period + 2 * Slack <= disk[p].expires - DayLen,
                      now > From(p) + Period + 2 * Slack,
                      Awaits(p)
               PROVE  FALSE
    BY DEF WarnedBeforeLastDay, From, Opens, Awaits
  <2>1. "certs" \in has /\ KeepsUp /\ InTime(p) BY DEF WarnInv
  <2>2. /\ From(p) \in Int /\ Start \in Int /\ now \in Nat /\ Period \in Nat /\ Slack \in Nat
    BY <2>1, OpensType, DueType, HostAssumption, CertAssumption DEF TypeOK, HostTypeOK
  <2>3. CASE Start <= From(p) BY <2>1, <2>2, <2>3 DEF KeepsUp
  <2>4. CASE job[Daemon] = "certs" /\ Start <= From(p) + Period + Slack
    BY <2>1, <2>2, <2>4 DEF KeepsUp
  <2> QED BY <2>1, <2>3, <2>4 DEF InTime
<1> QED BY <1>1, <1>2, <1>3, TypeCorrect, PTL DEF Spec
=============================================================================
