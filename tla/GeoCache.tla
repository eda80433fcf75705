-------------------------------- MODULE GeoCache --------------------------------
(***************************************************************************)
(* Geolocation (modules/geolocation/lookup.py).  api_geo_lookup answers    *)
(* from the table geo_cache, or from the two GeoLite2 files, which it then *)
(* caches.  The readers of the files are globals of the panel's process,   *)
(* loaded by the first lookup; the flag that says so is set before they    *)
(* are.  The daily cleanup copies the cached country and ASN to the        *)
(* attackers that have none (modules/daemon/scheduler.py).                 *)
(*                                                                         *)
(* A result is the set of its parts: "city" for country and city, "asn"    *)
(* for ASN and organisation.  A row, once cached, is never fetched again:  *)
(* the SELECT leaves fetched_at out, so that no row counts as stale.       *)
(***************************************************************************)
EXTENDS Host

CONSTANTS
    IP,
    Known     \* [IP -> the parts the two files have of it]

Part == {"city", "asn"}

ASSUME GeoAssumption == Known \in [IP -> SUBSET Part]

VARIABLES
    files,    \* the GeoLite2 files there are
    ready,    \* _readers_loaded
    readers,  \* _city_reader and _asn_reader, those that are not None
    asking,   \* the address each lookup is about
    result,   \* what it has found so far
    cache,    \* the table geo_cache: [IP -> parts], {} for no row
    attacker, \* country and ASN in attacker_stats
    (*** observers ***)
    early,    \* lookups that found the flag set before the readers were
    flawed    \* addresses looked up early, or with a file that could not be read

geoVars == <<files, ready, readers, asking, result, cache, attacker, early, flawed>>

GeoInit ==
    /\ files \in IF "lookup" \in has THEN SUBSET Part ELSE {{}}
    /\ ready = FALSE
    /\ readers = {}
    /\ asking = [r \in Runner |-> {}]
    /\ result = [r \in Runner |-> {}]
    /\ cache = [ip \in IP |-> {}]
    /\ attacker = [ip \in IP |-> {}]
    /\ early = {}
    /\ flawed = {}

\* lookup_ip
LookupIp(r, ip) ==
    /\ Call(r, "lookup", "cache")
    /\ asking' = [asking EXCEPT ![r] = {ip}]
    /\ UNCHANGED <<files, ready, readers, result, cache, attacker, early, flawed>>

\* _cache_lookup: an address that is cached is answered at once; without an
\* answer of the database it counts as not cached
CacheLookup(r) ==
    /\ At(r, "lookup", "cache")
    /\ \E ip \in asking[r] :
          \/ /\ cache[ip] # {}
             /\ Return(r)
             /\ asking' = [asking EXCEPT ![r] = {}]
             /\ UNCHANGED faults
          \/ /\ cache[ip] = {} /\ UNCHANGED faults
             /\ GoOn(r, "load")
             /\ UNCHANGED asking
          \/ /\ cache[ip] # {} /\ Fail
             /\ GoOn(r, "load")
             /\ UNCHANGED asking
    /\ UNCHANGED <<now, has, due, overlap, calls, changes>>
    /\ UNCHANGED <<files, ready, readers, result, cache, attacker, early, flawed>>

Loading == \E r \in Runner : job[r] = "lookup" /\ step[r] \in {"load city", "load asn"}

\* Mutant: the flag is taken for a lock, and set behind the first reader.
LoadReadersNow(r) ==
    /\ At(r, "lookup", "load")
    /\ ready' = TRUE
    /\ readers' = IF ready THEN readers ELSE files \cap {"city"}
    /\ GoOn(r, "city")
    /\ early' = IF Loading THEN early \cup {r} ELSE early
    /\ UNCHANGED <<now, has, due, overlap, calls, changes, faults>>
    /\ UNCHANGED <<files, asking, result, cache, attacker, flawed>>

\* _load_readers, up to the flag
LoadReaders(r) ==
    /\ At(r, "lookup", "load")
    /\ ready' = TRUE
    /\ GoOn(r, IF ready THEN "city" ELSE "load city")
    /\ early' = IF ready /\ Loading THEN early \cup {r} ELSE early
    /\ UNCHANGED <<now, has, due, overlap, calls, changes, faults>>
    /\ UNCHANGED <<files, readers, asking, result, cache, attacker, flawed>>

\* one of the two readers: a file that is not there, or cannot be read, has none
LoadReader(r, part, at, then) ==
    /\ At(r, "lookup", at)
    /\ \/ /\ readers' = readers \cup (files \cap {part})
          /\ UNCHANGED <<faults, flawed>>
       \/ /\ part \in files /\ Fail
          /\ flawed' = IP
          /\ UNCHANGED readers
    /\ GoOn(r, then)
    /\ UNCHANGED <<now, has, due, overlap, calls, changes>>
    /\ UNCHANGED <<files, ready, asking, result, cache, attacker, early>>

LoadCity(r) == LoadReader(r, "city", "load city", "load asn")
LoadAsn(r)  == LoadReader(r, "asn", "load asn", "city")

\* _mmdb_lookup in one of the files: an address it does not have, or an error,
\* leaves the part empty
Resolve(r, part, at, then) ==
    /\ At(r, "lookup", at)
    /\ \E ip \in asking[r] :
          \/ /\ result' = [result EXCEPT ![r] = @ \cup (readers \cap Known[ip] \cap {part})]
             /\ flawed' = IF r \in early THEN flawed \cup {ip} ELSE flawed
             /\ UNCHANGED faults
          \/ /\ part \in readers /\ Fail
             /\ flawed' = flawed \cup {ip}
             /\ UNCHANGED result
    /\ GoOn(r, then)
    /\ UNCHANGED <<now, has, due, overlap, calls, changes>>
    /\ UNCHANGED <<files, ready, readers, asking, cache, attacker, early>>

LookupCity(r) == Resolve(r, "city", "city", "asn")
LookupAsn(r)  == Resolve(r, "asn", "asn", "store")

\* lookup_ip caches what was found, and returns; an error of the upsert is
\* swallowed
CacheStore(r) ==
    /\ At(r, "lookup", "store")
    /\ \E ip \in asking[r] :
          \/ /\ cache' = IF result[r] = {} THEN cache ELSE [cache EXCEPT ![ip] = result[r]]
             /\ UNCHANGED faults
          \/ /\ result[r] # {} /\ Fail
             /\ UNCHANGED cache
    /\ asking' = [asking EXCEPT ![r] = {}]
    /\ result' = [result EXCEPT ![r] = {}]
    /\ early' = early \ {r}
    /\ Return(r)
    /\ UNCHANGED <<now, has, due, overlap, calls, changes>>
    /\ UNCHANGED <<files, ready, readers, attacker, flawed>>

\* the UPDATE of _task_daily_cleanup: an attacker without a country gets what is
\* cached of its address, when that has one
CopyToAttackers ==
    /\ job[Daemon] = "none"
    /\ attacker' = [ip \in IP |-> IF "city" \notin attacker[ip] /\ "city" \in cache[ip]
                                  THEN cache[ip] ELSE attacker[ip]]
    /\ attacker' # attacker
    /\ UNCHANGED hostVars
    /\ UNCHANGED <<files, ready, readers, asking, result, cache, early, flawed>>

\* with the panel's process its readers go
GeoKill(killed) ==
    /\ IF Panel \cap killed = {} THEN UNCHANGED <<ready, readers>>
       ELSE ready' = FALSE /\ readers' = {}
    /\ asking' = Forgotten(asking, killed, {})
    /\ result' = Forgotten(result, killed, {})
    /\ early' = early \ killed
    /\ UNCHANGED <<files, cache, attacker, flawed>>

GeoNext ==
    \/ \E r \in Panel :
          \/ \E ip \in IP : LookupIp(r, ip)
          \/ CacheLookup(r) \/ LoadReaders(r) \/ LoadCity(r) \/ LoadAsn(r)
          \/ LookupCity(r) \/ LookupAsn(r) \/ CacheStore(r)
    \/ CopyToAttackers

-----------------------------------------------------------------------------
(* Properties                                                              *)

GeoTypeOK ==
    /\ files \subseteq Part
    /\ ready \in BOOLEAN
    /\ readers \subseteq Part
    /\ asking \in [Runner -> SUBSET IP]
    /\ result \in [Runner -> SUBSET Part]
    /\ cache \in [IP -> SUBSET Part]
    /\ attacker \in [IP -> SUBSET Part]
    /\ early \subseteq Runner
    /\ flawed \subseteq IP

\* What is cached of an address, for ever as the code has it, and what the
\* attackers get of it, is all the files have: only a lookup that came between
\* the flag and the readers, or met a file it could not read, leaves a row with
\* a part missing.
CachedIsComplete ==
    \A ip \in IP \ flawed :
        /\ cache[ip] # {} => cache[ip] = files \cap Known[ip]
        /\ attacker[ip] \subseteq files \cap Known[ip]
        /\ attacker[ip] # {} => attacker[ip] = cache[ip]
=============================================================================
