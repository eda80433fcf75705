------------------------------ MODULE MCMonitors ------------------------------
(* Small servers for TLC.                                                  *)
EXTENDS Monitors, TLC
CONSTANTS daemon, p1, p2, d1, d2, s1, s2, s3

\* one address is in both files, the other in one
MCKnown == [ip \in {"a", "b"} |-> IF ip = "a" THEN {"city", "asn"} ELSE {"asn"}]
\* time matters to certificates, and to which row of a service is the latest
MCMaxClock == [j \in Job |-> CASE j = "certs" -> 7 [] OTHER -> 1]

\* only a lookup needs two requests to meet another
MCMaxCalls == [j \in Job |-> IF j = "lookup" THEN 2 ELSE 1]

\* one change of a service is one more kind of row its checks may insert
MCMaxChanges == [j \in Job |-> IF j = "services" THEN 1 ELSE 2]

\* threads of the panel are alike, and so are domains
Alike == Permutations(Panel) \cup Permutations(Domain)
=============================================================================
