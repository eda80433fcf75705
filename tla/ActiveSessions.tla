----------------------------- MODULE ActiveSessions -----------------------------
(***************************************************************************)
(* The list of active sessions (modules/session_monitor/active.py), which  *)
(* api_active_sessions builds from two commands, "who" and then "w -h".    *)
(* Users come and go between the two.  A session is a user and a terminal, *)
(* the key merge_sessions uses; of its other fields only idle is kept,     *)
(* which "w" alone knows.                                                  *)
(***************************************************************************)
EXTENDS Host

CONSTANTS
    Session,
    Skipped   \* the lines parse_w takes for headers: 2

ASSUME ActiveAssumption == Skipped \in Nat

VARIABLES
    logins,   \* the sessions there are
    listed,   \* who_sessions of each call
    answer,   \* what each call last returned: [session, idle]
    (*** observers ***)
    steady,   \* sessions open ever since the call began
    seen,     \* sessions open at some time since
    blind     \* calls whose "who" has failed

activeVars == <<logins, listed, answer, steady, seen, blind>>

Listing == [session : Session, idle : BOOLEAN]

ActiveInit ==
    /\ logins \in IF "who" \in has THEN SUBSET Session ELSE {{}}
    /\ listed = [r \in Runner |-> {}]
    /\ answer = [r \in Runner |-> {}]
    /\ steady = [r \in Runner |-> {}]
    /\ seen = [r \in Runner |-> {}]
    /\ blind = {}

\* a user logs in or out
ChangeLogins ==
    /\ Change("who")
    /\ \E s \in Session :
          logins' = IF s \in logins THEN logins \ {s} ELSE logins \cup {s}
    /\ steady' = [r \in Runner |-> steady[r] \cap logins']
    /\ seen' = [r \in Runner |-> seen[r] \cup logins']
    /\ UNCHANGED <<listed, answer, blind>>

\* get_active_sessions
GetActiveSessions(r) ==
    /\ Call(r, "who", "who")
    /\ steady' = [steady EXCEPT ![r] = logins]
    /\ seen' = [seen EXCEPT ![r] = logins]
    /\ UNCHANGED <<logins, listed, answer, blind>>

\* parse_who on the output of "who", which is empty when it fails
RunWho(r) ==
    /\ At(r, "who", "who")
    /\ \/ /\ listed' = [listed EXCEPT ![r] = logins]
          /\ UNCHANGED <<blind, faults>>
       \/ /\ Fail
          /\ blind' = blind \cup {r}
          /\ UNCHANGED listed
    /\ step' = [step EXCEPT ![r] = "w"]
    /\ UNCHANGED <<now, has, due, job, overlap, calls, changes>>
    /\ UNCHANGED <<logins, answer, steady, seen>>

\* parse_w takes the first lines for headers, which -h has left out: whichever
\* sessions they show are skipped.  (Lines of fewer than eight columns are skipped
\* too, and w cuts long names short, which then make a second entry of a session:
\* both are left out.)
ParsedW ==
    {logins \ head : head \in {h \in SUBSET logins :
        Cardinality(h) = IF Cardinality(logins) < Skipped
                         THEN Cardinality(logins) ELSE Skipped}}

\* Mutant: the output of w is taken instead of that of who when there is one.
MergeSessionsPreferW(who, w) ==
    {[session |-> s, idle |-> s \in w] : s \in IF w # {} THEN w ELSE who}

MergeSessions(who, w) == {[session |-> s, idle |-> s \in w] : s \in who \cup w}

\* "w -h", and the merge: without an answer there are no sessions of w
RunW(r) ==
    /\ At(r, "who", "w")
    /\ \/ /\ \E w \in ParsedW :
                answer' = [answer EXCEPT ![r] = MergeSessions(listed[r], w)]
          /\ UNCHANGED faults
       \/ /\ Fail
          /\ answer' = [answer EXCEPT ![r] = MergeSessions(listed[r], {})]
    /\ step' = [step EXCEPT ![r] = "merged"]
    /\ UNCHANGED <<now, has, due, job, overlap, calls, changes>>
    /\ UNCHANGED <<logins, listed, steady, seen, blind>>

\* the answer has been shown
Answered(r) ==
    /\ At(r, "who", "merged")
    /\ Return(r)
    /\ listed' = [listed EXCEPT ![r] = {}]
    /\ answer' = [answer EXCEPT ![r] = {}]
    /\ steady' = [steady EXCEPT ![r] = {}]
    /\ seen' = [seen EXCEPT ![r] = {}]
    /\ blind' = blind \ {r}
    /\ UNCHANGED <<now, has, due, overlap, calls, changes, faults>>
    /\ UNCHANGED logins

ActiveKill(killed) ==
    /\ listed' = Forgotten(listed, killed, {})
    /\ answer' = Forgotten(answer, killed, {})
    /\ steady' = Forgotten(steady, killed, {})
    /\ seen' = Forgotten(seen, killed, {})
    /\ blind' = blind \ killed
    /\ UNCHANGED logins

ActiveNext ==
    \/ ChangeLogins
    \/ \E r \in Runner : \/ GetActiveSessions(r) \/ RunWho(r)
                         \/ RunW(r) \/ Answered(r)

-----------------------------------------------------------------------------
(* Properties                                                              *)

ActiveTypeOK ==
    /\ logins \subseteq Session
    /\ listed \in [Runner -> SUBSET Session]
    /\ answer \in [Runner -> SUBSET Listing]
    /\ steady \in [Runner -> SUBSET Session]
    /\ seen \in [Runner -> SUBSET Session]
    /\ blind \subseteq Runner

\* Although parse_w drops the first two sessions, and users come and go while
\* the commands run, a session open throughout is on the list as long as "who"
\* answers, and whatever is on the list has been open during the call.
ListIsSandwiched ==
    \A r \in Runner :
        At(r, "who", "merged") =>
            LET shown == {l.session : l \in answer[r]}
            IN  (r \in blind \/ steady[r] \subseteq shown) /\ shown \subseteq seen[r]
=============================================================================
