----------------------------- MODULE ConnectionPool -----------------------------
(***************************************************************************)
(* The connection pool (database/connection.py) and the three ways its     *)
(* connections are used: one statement, a bulk insertion                   *)
(* (database/query.py), and a block of statements under transaction()      *)
(* (database/transaction.py).                                              *)
(*                                                                         *)
(* The server may drop a session at any moment, and rolls back what the    *)
(* session has not committed.  A step that talks to the server is one      *)
(* action.  The pool's lock is held across the pings of get_connection;    *)
(* the other critical sections do no I/O and are single steps.             *)
(***************************************************************************)
EXTENDS Naturals, Sequences, FiniteSets

CONSTANTS
    Thread,
    Conn,     \* connection objects
    NoOne,    \* no thread, no connection
    PoolSize, \* database.pool_size
    Stmts     \* statements in a block, and in a bulk insertion

ASSUME PoolAssumption ==
    /\ PoolSize \in Nat /\ Stmts \in Nat \ {0}
    /\ NoOne \notin Thread /\ NoOne \notin Conn

VARIABLES
    pool,   \* _connections
    lock,   \* holder of _pool_lock
    sess,   \* session behind each connection: "none", "open" or "lost"
    auto,   \* autocommit of each session
    work,   \* statements each session has executed and not committed
    pc,     \* where each thread stands
    conn,   \* the connection each thread holds
    kind,   \* what each thread does: "query", "bulk" or "block"
    stored, \* statements of each thread's present or last call that are durable
    run,    \* statements each thread's call has executed
    result  \* of the call: "none", "ok", "error" or "interrupted"

server == <<sess, auto, work, stored>>
vars   == <<pool, lock, server, pc, conn, kind, run, result>>

Init ==
    /\ pool = <<>>
    /\ lock = NoOne
    /\ sess = [c \in Conn |-> "none"]
    /\ auto = [c \in Conn |-> TRUE]
    /\ work = [c \in Conn |-> 0]
    /\ pc = [t \in Thread |-> "idle"]
    /\ conn = [t \in Thread |-> NoOne]
    /\ kind = [t \in Thread |-> "query"]
    /\ stored = [t \in Thread |-> 0]
    /\ run = [t \in Thread |-> 0]
    /\ result = [t \in Thread |-> "none"]

GoTo(t, step)  == pc' = [pc EXCEPT ![t] = step]
Ends(t, how)   == result' = [result EXCEPT ![t] = how]
Open(t)        == sess[conn[t]] = "open"

\* The statements of a call.
All(t) == IF kind[t] = "query" THEN 1 ELSE Stmts

-----------------------------------------------------------------------------
(* get_connection and return_connection                                    *)

Call(t) ==
    /\ pc[t] = "idle"
    /\ \E k \in {"query", "bulk", "block"} : kind' = [kind EXCEPT ![t] = k]
    /\ stored' = [stored EXCEPT ![t] = 0]
    /\ run' = [run EXCEPT ![t] = 0]
    /\ Ends(t, "none")
    /\ GoTo(t, "get")
    /\ UNCHANGED <<pool, lock, sess, auto, work, conn>>

Lock(t) ==
    /\ pc[t] = "get"
    /\ lock = NoOne
    /\ lock' = t
    /\ GoTo(t, "pop")
    /\ UNCHANGED <<pool, server, conn, kind, run, result>>

\* Mutant: the connection is used and stays in the list.
PopPeek == UNCHANGED pool

\* _connections.pop()
Pop == pool' = SubSeq(pool, 1, Len(pool) - 1)

\* A connection that answers the ping is taken, one that does not is closed.
\* (The second ping, which may reconnect, leaves a usable connection or none.)
Reuse(t) ==
    /\ pc[t] = "pop"
    /\ pool # <<>>
    /\ LET c == pool[Len(pool)]
       IN  /\ Pop
           /\ \/ /\ sess[c] = "open"
                 /\ conn' = [conn EXCEPT ![t] = c]
                 /\ lock' = NoOne
                 /\ GoTo(t, "use")
                 /\ UNCHANGED sess
              \/ /\ sess[c] = "lost"
                 /\ sess' = [sess EXCEPT ![c] = "none"]
                 /\ UNCHANGED <<lock, conn, pc>>
    /\ UNCHANGED <<auto, work, stored, kind, run, result>>

Exhausted(t) ==
    /\ pc[t] = "pop"
    /\ pool = <<>>
    /\ lock' = NoOne
    /\ GoTo(t, "connect")
    /\ UNCHANGED <<pool, server, conn, kind, run, result>>

Connect(t) ==
    /\ pc[t] = "connect"
    /\ \/ \E c \in Conn :
             /\ sess[c] = "none"
             /\ sess' = [sess EXCEPT ![c] = "open"]
             /\ auto' = [auto EXCEPT ![c] = TRUE]
             /\ work' = [work EXCEPT ![c] = 0]
             /\ conn' = [conn EXCEPT ![t] = c]
             /\ GoTo(t, "use")
             /\ UNCHANGED result
       \/ /\ GoTo(t, "idle")
          /\ Ends(t, "error")
          /\ UNCHANGED <<sess, auto, work, conn>>
    /\ UNCHANGED <<pool, lock, stored, kind, run>>

\* Mutant: one connection too many fits.
HasRoomForMore == Len(pool) <= PoolSize

HasRoom == Len(pool) < PoolSize

\* Mutant: a connection that does not fit is dropped.
CloseNot(c) == UNCHANGED sess

Close(c) == sess' = [sess EXCEPT ![c] = "none"]

\* return_connection: a lost connection is pooled like any other.
Return(t) ==
    /\ pc[t] = "return"
    /\ lock = NoOne
    /\ \/ /\ HasRoom
          /\ pool' = Append(pool, conn[t])
          /\ UNCHANGED sess
       \/ /\ ~HasRoom
          /\ Close(conn[t])
          /\ UNCHANGED pool
    /\ conn' = [conn EXCEPT ![t] = NoOne]
    /\ GoTo(t, "idle")
    /\ UNCHANGED <<lock, auto, work, stored, kind, run, result>>

CloseAll ==
    /\ lock = NoOne
    /\ pool # <<>>
    /\ sess' = [c \in Conn |-> IF \E i \in DOMAIN pool : pool[i] = c
                               THEN "none" ELSE sess[c]]
    /\ pool' = <<>>
    /\ UNCHANGED <<lock, auto, work, stored, pc, conn, kind, run, result>>

\* The server drops a session: a restart, a timeout, a network failure.
Drop(c) ==
    /\ sess[c] = "open"
    /\ sess' = [sess EXCEPT ![c] = "lost"]
    /\ work' = [work EXCEPT ![c] = 0]
    /\ UNCHANGED <<pool, lock, auto, stored, pc, conn, kind, run, result>>

-----------------------------------------------------------------------------
(* query.py: one statement, or executemany                                 *)

\* What the server does with a statement: on an autocommit session it is durable
\* at once.
Stores(t) ==
    stored' = [stored EXCEPT ![t] = IF auto[conn[t]] THEN @ + 1 ELSE @]

\* cur.execute, or the next statement of cur.executemany: the driver puts rows
\* together up to a length, or sends each by itself.
Execute(t) ==
    /\ pc[t] = "use" /\ kind[t] # "block" /\ run[t] < All(t)
    /\ Open(t)
    /\ Stores(t)
    /\ work' = [work EXCEPT ![conn[t]] = IF auto[conn[t]] THEN @ ELSE @ + 1]
    /\ run' = [run EXCEPT ![t] = @ + 1]
    /\ GoTo(t, IF run[t] + 1 = All(t) THEN "commit" ELSE "use")
    /\ UNCHANGED <<pool, lock, sess, auto, conn, kind, result>>

\* The statement fails, or its answer is lost with the session.  conn.rollback
\* finds nothing to undo on an autocommit session.
Fail(t) ==
    /\ pc[t] = "use" /\ kind[t] # "block"
    /\ \/ UNCHANGED <<sess, stored>>
       \/ /\ Open(t)
          /\ Stores(t)
          /\ sess' = [sess EXCEPT ![conn[t]] = "lost"]
    /\ work' = [work EXCEPT ![conn[t]] = 0]
    /\ Ends(t, "error")
    /\ GoTo(t, "return")
    /\ UNCHANGED <<pool, lock, auto, conn, kind, run>>

\* conn.commit, or the error that says the session is gone.
CommitQuery(t) ==
    /\ pc[t] = "commit"
    /\ IF Open(t)
       THEN /\ stored' = [stored EXCEPT ![t] = @ + work[conn[t]]]
            /\ work' = [work EXCEPT ![conn[t]] = 0]
            /\ Ends(t, "ok")
       ELSE /\ Ends(t, "error")
            /\ UNCHANGED <<stored, work>>
    /\ GoTo(t, "return")
    /\ UNCHANGED <<pool, lock, sess, auto, conn, kind, run>>

-----------------------------------------------------------------------------
(* transaction.py: a block of statements                                   *)

\* conn.autocommit(False): when it fails there is nothing to roll back.
Start(t) ==
    /\ pc[t] = "use" /\ kind[t] = "block"
    /\ IF Open(t)
       THEN /\ auto' = [auto EXCEPT ![conn[t]] = FALSE]
            /\ GoTo(t, "block")
            /\ UNCHANGED result
       ELSE /\ GoTo(t, "restore")
            /\ Ends(t, "error")
            /\ UNCHANGED auto
    /\ UNCHANGED <<pool, lock, sess, work, stored, conn, kind, run>>

Statement(t) ==
    /\ pc[t] = "block" /\ run[t] < Stmts
    /\ Open(t)
    /\ work' = [work EXCEPT ![conn[t]] = @ + 1]
    /\ run' = [run EXCEPT ![t] = @ + 1]
    /\ UNCHANGED <<pool, lock, sess, auto, stored, pc, conn, kind, result>>

\* A statement fails, or the block raises.
Raise(t) ==
    /\ pc[t] = "block"
    /\ GoTo(t, "rollback")
    /\ Ends(t, "error")
    /\ UNCHANGED <<pool, lock, server, conn, kind, run>>

\* An exception that is no Exception (KeyboardInterrupt, SystemExit) passes
\* by the handler.
Interrupt(t) ==
    /\ pc[t] = "block"
    /\ GoTo(t, "restore")
    /\ Ends(t, "interrupted")
    /\ UNCHANGED <<pool, lock, server, conn, kind, run>>

\* conn.commit; the session may be lost before it or with the answer.
Commit(t) ==
    /\ pc[t] = "block" /\ run[t] = Stmts
    /\ \/ /\ Open(t)
          /\ stored' = [stored EXCEPT ![t] = @ + work[conn[t]]]
          /\ work' = [work EXCEPT ![conn[t]] = 0]
          /\ \/ /\ Ends(t, "ok")
                /\ GoTo(t, "restore")
                /\ UNCHANGED sess
             \/ /\ sess' = [sess EXCEPT ![conn[t]] = "lost"]
                /\ Ends(t, "error")
                /\ GoTo(t, "rollback")
       \/ /\ ~Open(t)
          /\ Ends(t, "error")
          /\ GoTo(t, "rollback")
          /\ UNCHANGED <<sess, work, stored>>
    /\ UNCHANGED <<pool, lock, auto, conn, kind, run>>

\* Mutant: the handler only re-raises.
RollbackNot(t) ==
    /\ pc[t] = "rollback"
    /\ GoTo(t, "restore")
    /\ UNCHANGED <<pool, lock, server, conn, kind, run, result>>

\* conn.rollback; of a lost session it fails, with a warning, and the server has
\* rolled back.
Rollback(t) ==
    /\ pc[t] = "rollback"
    /\ work' = [work EXCEPT ![conn[t]] = 0]
    /\ GoTo(t, "restore")
    /\ UNCHANGED <<pool, lock, sess, auto, stored, conn, kind, run, result>>

\* Mutant: the connection is returned as the block has left it.
RestoreNot(t) ==
    /\ pc[t] = "restore"
    /\ GoTo(t, "return")
    /\ UNCHANGED <<pool, lock, server, conn, kind, run, result>>

\* conn.autocommit(True): the server commits what is not committed yet.
Restore(t) ==
    /\ pc[t] = "restore"
    /\ IF Open(t)
       THEN /\ auto' = [auto EXCEPT ![conn[t]] = TRUE]
            /\ stored' = [stored EXCEPT ![t] = @ + work[conn[t]]]
            /\ work' = [work EXCEPT ![conn[t]] = 0]
       ELSE UNCHANGED <<auto, work, stored>>
    /\ GoTo(t, "return")
    /\ UNCHANGED <<pool, lock, sess, conn, kind, run, result>>

-----------------------------------------------------------------------------

Get(t)   == Lock(t) \/ Reuse(t) \/ Exhausted(t) \/ Connect(t)
Query(t) == Execute(t) \/ Fail(t) \/ CommitQuery(t)
Block(t) == Start(t) \/ Statement(t) \/ Raise(t) \/ Commit(t) \/ Rollback(t) \/ Restore(t)

Next ==
    \/ \E t \in Thread : Call(t) \/ Get(t) \/ Query(t) \/ Block(t) \/ Interrupt(t) \/ Return(t)
    \/ \E c \in Conn : Drop(c)
    \/ CloseAll

Spec == Init /\ [][Next]_vars

-----------------------------------------------------------------------------
(* Properties                                                              *)

Pooled == {pool[i] : i \in DOMAIN pool}
Held   == {c \in Conn : \E t \in Thread : conn[t] = c}

TypeOK ==
    /\ pool \in Seq(Conn) /\ Len(pool) <= PoolSize
    /\ lock \in Thread \cup {NoOne}
    /\ sess \in [Conn -> {"none", "open", "lost"}]
    /\ auto \in [Conn -> BOOLEAN]
    /\ work \in [Conn -> Nat]
    /\ pc \in [Thread -> {"idle", "get", "pop", "connect", "use", "commit",
                          "block", "rollback", "restore", "return"}]
    /\ conn \in [Thread -> Conn \cup {NoOne}]
    /\ kind \in [Thread -> {"query", "bulk", "block"}]
    /\ stored \in [Thread -> Nat]
    /\ run \in [Thread -> 0..Stmts]
    /\ result \in [Thread -> {"none", "ok", "error", "interrupted"}]

\* A connection is in one pair of hands: the pool's, once, or one thread's.
OneHolder ==
    /\ \A i, j \in DOMAIN pool : pool[i] = pool[j] => i = j
    /\ \A t, u \in Thread : (conn[t] = conn[u] /\ conn[t] # NoOne) => t = u
    /\ Pooled \cap Held = {}

\* No session is left open on the server without anyone to close it, so that the
\* process never has more than one per thread besides those of the pool.
NoSessionLost ==
    \A c \in Conn : sess[c] = "open" => c \in Pooled \cup Held

\* What the next user of a connection finds: an autocommit session that holds
\* nothing of the last user's.
CleanWhenPooled ==
    \A c \in Pooled : sess[c] = "open" => (auto[c] /\ work[c] = 0)

\* A call that has succeeded has stored all its statements; a single statement or
\* a block that has failed, all or none, a failed bulk insertion those that were
\* answered and at most the one whose answer was lost.  Only an interrupted block
\* may leave a part.
AllOrNothing ==
    \A t \in Thread :
        pc[t] = "idle" =>
            /\ result[t] = "ok" => stored[t] = All(t)
            /\ (result[t] = "error" /\ kind[t] # "bulk") => stored[t] \in {0, All(t)}
            /\ (result[t] = "error" /\ kind[t] = "bulk") => stored[t] \in {run[t], run[t] + 1}
=============================================================================
