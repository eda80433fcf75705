-------------------------------- MODULE Monitors --------------------------------
(***************************************************************************)
(* The monitors of a server, side by side: the TLS scanner, the service    *)
(* checker, the Fail2Ban collector, geolocation and the list of sessions,  *)
(* run by the daemon and by the panel's threads, either of which may be    *)
(* killed in the middle.                                                   *)
(***************************************************************************)
EXTENDS CertScan, ServiceCheck, JailSnapshot, GeoCache, ActiveSessions

vars == <<hostVars, certVars, svcVars, jailVars, geoVars, activeVars>>

Init == HostInit /\ CertInit /\ ServiceInit /\ JailInit /\ GeoInit /\ ActiveInit

Tick ==
    /\ \E j \in has : now < MaxClock[j]
    /\ ScansKeepUp
    /\ now' = now + 1
    /\ UNCHANGED <<has, due, job, step, overlap, calls, changes, faults>>
    /\ UNCHANGED <<certVars, svcVars, jailVars, geoVars, activeVars>>

Kill(killed) ==
    /\ KillHost(killed)
    /\ CertKill(killed) /\ ServiceKill(killed) /\ JailKill(killed)
    /\ GeoKill(killed) /\ ActiveKill(killed)

Next ==
    \/ Tick
    \/ Kill({Daemon}) \/ Kill(Panel)
    \/ CertNext    /\ UNCHANGED <<svcVars, jailVars, geoVars, activeVars>>
    \/ ServiceNext /\ UNCHANGED <<certVars, jailVars, geoVars, activeVars>>
    \/ JailNext    /\ UNCHANGED <<certVars, svcVars, geoVars, activeVars>>
    \/ GeoNext     /\ UNCHANGED <<certVars, svcVars, jailVars, activeVars>>
    \/ ActiveNext  /\ UNCHANGED <<certVars, svcVars, jailVars, geoVars>>

Spec == Init /\ [][Next]_vars

TypeOK ==
    HostTypeOK /\ CertTypeOK /\ ServiceTypeOK /\ JailTypeOK /\ GeoTypeOK /\ ActiveTypeOK
=============================================================================
