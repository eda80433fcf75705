-------------------------- MODULE ConnectionPoolProofs --------------------------
(***************************************************************************)
(* Proofs about ConnectionPool, for any number of threads and connections, *)
(* any size of the pool and any length of a block or a bulk insertion.     *)
(***************************************************************************)
EXTENDS ConnectionPool, SequenceTheorems, TLAPS

\* t is between get_connection and the end of return_connection.
InHand(t) == pc[t] \in {"use", "commit", "block", "rollback", "restore", "return"}

\* A thread has a connection exactly between the two calls, a connection has
\* one holder, and those without a holder have no session.
HoldInv ==
    /\ \A t \in Thread : InHand(t) <=> conn[t] # NoOne
    /\ OneHolder
    /\ \A c \in Conn : sess[c] # "none" <=> c \in Pooled \cup Held

\* An autocommit session that holds nothing, as long as it lasts.
Clean(c) == sess[c] = "open" => auto[c] = TRUE /\ work[c] = 0

\* A thread at the beginning or the end of what it does holds a session as it
\* found it.
CleanInv ==
    /\ \A c \in Pooled : Clean(c)
    /\ \A t \in Thread : pc[t] \in {"use", "commit", "return"} => Clean(conn[t])

\* What a failed call may have stored.
Part(t) ==
    IF kind[t] = "bulk" THEN {run[t], run[t] + 1} ELSE {0, All(t)}

\* What a call has stored where it stands, and what its session still holds.
Right(t) ==
    /\ pc[t] \in {"get", "pop", "connect"} => stored[t] = 0 /\ run[t] = 0
    /\ pc[t] = "use" => stored[t] = run[t] /\ (kind[t] # "bulk" => run[t] = 0)
    /\ pc[t] = "commit" => kind[t] # "block" /\ stored[t] = All(t) /\ run[t] = All(t)
    /\ pc[t] \in {"block", "rollback", "restore"} => kind[t] = "block"
    /\ pc[t] = "block" => stored[t] = 0 /\ (Open(t) => work[conn[t]] = run[t])
    /\ pc[t] = "rollback" => result[t] = "error" /\ stored[t] \in Part(t)
    /\ pc[t] \in {"restore", "return", "idle"} =>
          /\ result[t] = "ok" => stored[t] = All(t)
          /\ result[t] = "error" => stored[t] \in Part(t)
    /\ (pc[t] = "restore" /\ result[t] # "interrupted" /\ Open(t)) =>
          work[conn[t]] = 0

ResultInv == \A t \in Thread : Right(t)

-----------------------------------------------------------------------------
(* The pool as a stack                                                     *)

\* What _connections.pop() leaves.
LEMMA PopLeaves ==
    ASSUME pool \in Seq(Conn), pool # <<>>, Pop
    PROVE  /\ pool' \in Seq(Conn)
           /\ Len(pool) \in Nat \ {0}
           /\ Len(pool') = Len(pool) - 1
           /\ \A i \in 1..(Len(pool) - 1) : pool'[i] = pool[i]
<1>1. Len(pool) \in Nat \ {0} /\ DOMAIN pool = 1..Len(pool)
  BY EmptySeq, LenProperties
<1>2. \A i \in 1..(Len(pool) - 1) : pool[i] \in Conn
  BY <1>1, ElementOfSeq
<1> QED BY <1>1, <1>2, SubSeqProperties DEF Pop

LEMMA TypeInit == Init => TypeOK
<1> SUFFICES ASSUME Init PROVE TypeOK
  OBVIOUS
<1>1. pool \in Seq(Conn) /\ Len(pool) <= PoolSize
  BY PoolAssumption DEF Init
<1>2. run \in [Thread -> 0..Stmts]
  BY PoolAssumption DEF Init
<1> QED BY <1>1, <1>2 DEF Init, TypeOK

\* The three parts of TypeOK.
PoolOK ==
    /\ pool \in Seq(Conn) /\ Len(pool) <= PoolSize
    /\ lock \in Thread \cup {NoOne}

ServerOK ==
    /\ sess \in [Conn -> {"none", "open", "lost"}]
    /\ auto \in [Conn -> BOOLEAN]
    /\ work \in [Conn -> Nat]
    /\ stored \in [Thread -> Nat]

ThreadOK ==
    /\ pc \in [Thread -> {"idle", "get", "pop", "connect", "use", "commit",
                          "block", "rollback", "restore", "return"}]
    /\ conn \in [Thread -> Conn \cup {NoOne}]
    /\ kind \in [Thread -> {"query", "bulk", "block"}]
    /\ run \in [Thread -> 0..Stmts]
    /\ result \in [Thread -> {"none", "ok", "error", "interrupted"}]

LEMMA TypeParts == TypeOK <=> PoolOK /\ ServerOK /\ ThreadOK
BY DEF TypeOK, PoolOK, ServerOK, ThreadOK

\* A thread with a connection has one of the connections.
LEMMA HandHasConn ==
    ASSUME TypeOK, HoldInv, NEW t \in Thread, InHand(t)
    PROVE  conn[t] \in Conn
BY DEF TypeOK, HoldInv

LEMMA TypeStep == TypeOK /\ HoldInv /\ [Next]_vars => TypeOK'
<1> SUFFICES ASSUME TypeOK, HoldInv, [Next]_vars PROVE TypeOK'
  OBVIOUS
<1> USE DEF GoTo, Ends
<1>1. ASSUME NEW t \in Thread, Call(t) PROVE TypeOK'
  <2>1. 0 \in 0..Stmts
    BY PoolAssumption
  <2> QED BY <1>1, <2>1 DEF Call, TypeOK
<1>2. ASSUME NEW t \in Thread, Lock(t) PROVE TypeOK'
  BY <1>2 DEF Lock, TypeOK, server
<1>3. ASSUME NEW t \in Thread, Reuse(t) PROVE TypeOK'
  <2>1. pool' \in Seq(Conn) /\ Len(pool') <= PoolSize /\ pool[Len(pool)] \in Conn
    <3>1. pool \in Seq(Conn) /\ pool # <<>> /\ Pop /\ Len(pool) <= PoolSize
      BY <1>3 DEF Reuse, TypeOK
    <3>2. pool' \in Seq(Conn) /\ Len(pool) \in Nat \ {0} /\ Len(pool') = Len(pool) - 1
      BY <3>1, PopLeaves
    <3>3. pool[Len(pool)] \in Conn
      BY <3>1, <3>2, ElementOfSeq
    <3> QED BY <3>1, <3>2, <3>3, PoolAssumption
  <2>2. PoolOK'
    BY <1>3, <2>1, TypeParts DEF Reuse, PoolOK
  <2>3. ServerOK'
    BY <1>3, <2>1, TypeParts DEF Reuse, ServerOK
  <2>4. ThreadOK'
    <3>1. CASE conn' = [conn EXCEPT ![t] = pool[Len(pool)]] /\ pc' = [pc EXCEPT ![t] = "use"]
      BY <1>3, <2>1, <3>1, TypeParts DEF Reuse, ThreadOK
    <3>2. CASE UNCHANGED <<conn, pc>>
      BY <1>3, <3>2, TypeParts DEF Reuse, ThreadOK
    <3> QED BY <1>3, <3>1, <3>2 DEF Reuse
  <2> QED BY <2>2, <2>3, <2>4 DEF TypeOK, PoolOK, ServerOK, ThreadOK
<1>4. ASSUME NEW t \in Thread, Exhausted(t) PROVE TypeOK'
  BY <1>4 DEF Exhausted, TypeOK, server
<1>5. ASSUME NEW t \in Thread, Connect(t) PROVE TypeOK'
  <2>1. PoolOK'
    BY <1>5, TypeParts DEF Connect, PoolOK
  <2>2. ServerOK'
    <3>1. CASE UNCHANGED <<sess, auto, work>>
      BY <1>5, <3>1, TypeParts DEF Connect, ServerOK
    <3>2. ASSUME NEW c \in Conn,
                 sess' = [sess EXCEPT ![c] = "open"],
                 auto' = [auto EXCEPT ![c] = TRUE],
                 work' = [work EXCEPT ![c] = 0]
          PROVE  ServerOK'
      <4>1. auto' \in [Conn -> BOOLEAN]
        BY <3>2, TypeParts, Zenon DEF ServerOK
      <4>2. sess' \in [Conn -> {"none", "open", "lost"}] /\ work' \in [Conn -> Nat]
        BY <3>2, TypeParts DEF ServerOK
      <4>3. stored' \in [Thread -> Nat]
        BY <1>5, TypeParts DEF Connect, ServerOK
      <4> QED BY <4>1, <4>2, <4>3 DEF ServerOK
    <3> QED BY <1>5, <3>1, <3>2 DEF Connect
  <2>3. ThreadOK'
    BY <1>5, TypeParts DEF Connect, ThreadOK
  <2> QED BY <2>1, <2>2, <2>3 DEF TypeOK, PoolOK, ServerOK, ThreadOK
<1>6. ASSUME NEW t \in Thread, Execute(t) \/ Fail(t) \/ CommitQuery(t) PROVE TypeOK'
  <2>1. conn[t] \in Conn
    BY <1>6, HandHasConn DEF Execute, Fail, CommitQuery, InHand
  <2>2. /\ stored[t] + work[conn[t]] \in Nat /\ stored[t] + 1 \in Nat
        /\ work[conn[t]] + 1 \in Nat
    BY <2>1 DEF TypeOK
  <2>3. PoolOK'
    BY <1>6, TypeParts DEF Execute, Fail, CommitQuery, PoolOK
  <2>4. ServerOK'
    <3>1. CASE Execute(t)
      BY <3>1, <2>2, TypeParts DEF Execute, Stores, ServerOK
    <3>2. CASE Fail(t)
      <4>1. stored' \in [Thread -> Nat]
        BY <3>2, <2>2, TypeParts DEF Fail, Stores, ServerOK
      <4>2. sess' \in [Conn -> {"none", "open", "lost"}]
        BY <3>2, TypeParts DEF Fail, ServerOK
      <4>3. work' \in [Conn -> Nat] /\ auto' \in [Conn -> BOOLEAN]
        BY <3>2, TypeParts DEF Fail, ServerOK
      <4> QED BY <4>1, <4>2, <4>3 DEF ServerOK
    <3>3. CASE CommitQuery(t)
      BY <3>3, <2>2, TypeParts DEF CommitQuery, ServerOK
    <3> QED BY <1>6, <3>1, <3>2, <3>3
  <2>5. ThreadOK'
    <3>1. CASE Execute(t)
      <4>1. run[t] + 1 \in 0..Stmts
        BY <3>1, PoolAssumption DEF Execute, All, TypeOK
      <4> QED BY <3>1, <4>1, TypeParts DEF Execute, ThreadOK
    <3>2. CASE Fail(t) \/ CommitQuery(t)
      BY <3>2, TypeParts DEF Fail, CommitQuery, ThreadOK
    <3> QED BY <1>6, <3>1, <3>2
  <2> QED BY <2>3, <2>4, <2>5 DEF TypeOK, PoolOK, ServerOK, ThreadOK
<1>7. ASSUME NEW t \in Thread, Start(t) \/ Raise(t) \/ Interrupt(t) \/ Rollback(t)
      PROVE  TypeOK'
  <2>1. CASE Start(t)
    BY <2>1 DEF Start, TypeOK
  <2>2. CASE Raise(t) \/ Interrupt(t)
    BY <2>2 DEF Raise, Interrupt, TypeOK, server
  <2>3. CASE Rollback(t)
    BY <2>3 DEF Rollback, TypeOK
  <2> QED BY <1>7, <2>1, <2>2, <2>3
<1>8. ASSUME NEW t \in Thread, Statement(t) PROVE TypeOK'
  <2>1. conn[t] \in Conn
    BY <1>8, HandHasConn DEF Statement, InHand
  <2>2. work[conn[t]] + 1 \in Nat /\ run[t] + 1 \in 0..Stmts
    BY <1>8, <2>1, PoolAssumption DEF TypeOK, Statement
  <2> QED BY <1>8, <2>2 DEF Statement, TypeOK
<1>9. ASSUME NEW t \in Thread, Commit(t) \/ Restore(t) PROVE TypeOK'
  <2>1. conn[t] \in Conn
    BY <1>9, HandHasConn DEF Commit, Restore, InHand
  <2>2. stored[t] + work[conn[t]] \in Nat
    BY <2>1 DEF TypeOK
  <2>3. PoolOK'
    BY <1>9, TypeParts DEF Commit, Restore, PoolOK
  <2>4. ServerOK'
    <3>1. CASE Commit(t)
      <4>1. CASE UNCHANGED <<sess, work, stored>>
        BY <3>1, <4>1, TypeParts DEF Commit, ServerOK
      <4>2. CASE /\ stored' = [stored EXCEPT ![t] = @ + work[conn[t]]]
                 /\ work' = [work EXCEPT ![conn[t]] = 0]
        <5>1. stored' \in [Thread -> Nat] /\ work' \in [Conn -> Nat]
          BY <4>2, <2>2, TypeParts DEF ServerOK
        <5>2. sess' \in [Conn -> {"none", "open", "lost"}] /\ auto' \in [Conn -> BOOLEAN]
          BY <3>1, TypeParts DEF Commit, ServerOK
        <5> QED BY <5>1, <5>2 DEF ServerOK
      <4> QED BY <3>1, <4>1, <4>2 DEF Commit
    <3>2. CASE Restore(t)
      <4>1. CASE UNCHANGED <<auto, work, stored>>
        BY <3>2, <4>1, TypeParts DEF Restore, ServerOK
      <4>2. CASE /\ auto' = [auto EXCEPT ![conn[t]] = TRUE]
                 /\ stored' = [stored EXCEPT ![t] = @ + work[conn[t]]]
                 /\ work' = [work EXCEPT ![conn[t]] = 0]
        <5>1. stored' \in [Thread -> Nat] /\ work' \in [Conn -> Nat]
          BY <4>2, <2>2, TypeParts DEF ServerOK
        <5>2. auto' \in [Conn -> BOOLEAN]
          BY <4>2, TypeParts, Zenon DEF ServerOK
        <5>3. sess' \in [Conn -> {"none", "open", "lost"}]
          BY <3>2, TypeParts DEF Restore, ServerOK
        <5> QED BY <5>1, <5>2, <5>3 DEF ServerOK
      <4> QED BY <3>2, <4>1, <4>2 DEF Restore
    <3> QED BY <1>9, <3>1, <3>2
  <2>5. ThreadOK'
    BY <1>9, TypeParts DEF Commit, Restore, ThreadOK
  <2> QED BY <2>3, <2>4, <2>5 DEF TypeOK, PoolOK, ServerOK, ThreadOK
<1>10. ASSUME NEW t \in Thread, Return(t) PROVE TypeOK'
  <2>1. conn[t] \in Conn
    BY <1>10, HandHasConn DEF Return, InHand
  <2>2. pool' \in Seq(Conn) /\ Len(pool') <= PoolSize
    <3>1. CASE HasRoom /\ pool' = Append(pool, conn[t])
      <4>1. Len(pool) \in Nat
        BY LenProperties DEF TypeOK
      <4>2. Append(pool, conn[t]) \in Seq(Conn) /\ Len(Append(pool, conn[t])) = Len(pool) + 1
        BY <2>1, AppendProperties DEF TypeOK
      <4> QED BY <3>1, <4>1, <4>2, PoolAssumption DEF HasRoom
    <3>2. CASE UNCHANGED pool
      BY <3>2 DEF TypeOK
    <3> QED BY <1>10, <3>1, <3>2 DEF Return
  <2> QED BY <1>10, <2>2 DEF Return, Close, TypeOK
<1>11. ASSUME NEW c \in Conn, Drop(c) PROVE TypeOK'
  BY <1>11 DEF Drop, TypeOK
<1>12. CASE CloseAll
  <2>1. pool' \in Seq(Conn) /\ Len(pool') <= PoolSize
    BY <1>12, PoolAssumption DEF CloseAll
  <2> QED BY <1>12, <2>1 DEF CloseAll, TypeOK
<1>13. CASE UNCHANGED vars
  BY <1>13 DEF vars, server, TypeOK
<1> QED BY <1>1, <1>2, <1>3, <1>4, <1>5, <1>6, <1>7, <1>8, <1>9, <1>10, <1>11, <1>12,
           <1>13 DEF Next, Get, Query, Block

-----------------------------------------------------------------------------
(* Who holds what                                                          *)

LEMMA HoldInit == Init => HoldInv
<1> SUFFICES ASSUME Init PROVE HoldInv
  OBVIOUS
<1>1. Pooled = {} /\ Held = {}
  BY PoolAssumption DEF Init, Pooled, Held
<1> QED BY <1>1, PoolAssumption DEF Init, HoldInv, OneHolder, InHand

\* Steps that move no connection and open or close no session.
LEMMA HoldFrame ==
    ASSUME HoldInv, UNCHANGED <<pool, conn>>,
           \A t \in Thread : InHand(t)' <=> InHand(t),
           \A c \in Conn : sess'[c] # "none" <=> sess[c] # "none"
    PROVE  HoldInv'
<1>1. Pooled' = Pooled /\ Held' = Held
  BY DEF Pooled, Held
<1> QED BY <1>1 DEF HoldInv, OneHolder

\* What the pool holds without its top.
LEMMA PopTakes ==
    ASSUME TypeOK, OneHolder, pool # <<>>, Pop
    PROVE  /\ pool[Len(pool)] \in Conn
           /\ pool[Len(pool)] \in Pooled
           /\ Pooled' = Pooled \ {pool[Len(pool)]}
           /\ \A i, j \in DOMAIN pool' : pool'[i] = pool'[j] => i = j
<1>1. /\ pool' \in Seq(Conn)
      /\ Len(pool) \in Nat \ {0}
      /\ Len(pool') = Len(pool) - 1
      /\ \A i \in 1..(Len(pool) - 1) : pool'[i] = pool[i]
  BY PopLeaves DEF TypeOK
<1>2. DOMAIN pool = 1..Len(pool) /\ DOMAIN pool' = 1..(Len(pool) - 1)
  BY <1>1, LenProperties DEF TypeOK
<1>3. pool[Len(pool)] \in Conn
  BY <1>1, ElementOfSeq DEF TypeOK
<1>4. pool[Len(pool)] \in Pooled
  BY <1>1, <1>2 DEF Pooled
<1>5. \A i, j \in DOMAIN pool : pool[i] = pool[j] => i = j
  BY DEF OneHolder
<1>6. \A i, j \in DOMAIN pool' : pool'[i] = pool'[j] => i = j
  BY <1>1, <1>2, <1>5
<1>7. Pooled' \subseteq Pooled \ {pool[Len(pool)]}
  <2> SUFFICES ASSUME NEW i \in 1..(Len(pool) - 1)
               PROVE  pool'[i] \in Pooled /\ pool'[i] # pool[Len(pool)]
    BY <1>2 DEF Pooled
  <2>1. i \in 1..Len(pool) /\ Len(pool) \in 1..Len(pool) /\ i # Len(pool)
    BY <1>1
  <2> QED BY <1>1, <1>2, <1>5, <2>1 DEF Pooled
<1>8. Pooled \ {pool[Len(pool)]} \subseteq Pooled'
  <2> SUFFICES ASSUME NEW i \in 1..Len(pool), pool[i] # pool[Len(pool)]
               PROVE  pool[i] \in Pooled'
    BY <1>2 DEF Pooled
  <2>1. i \in 1..(Len(pool) - 1)
    BY <1>1
  <2> QED BY <1>1, <1>2, <2>1 DEF Pooled
<1> QED BY <1>3, <1>4, <1>6, <1>7, <1>8

\* What it holds with one more on top.
LEMMA PushPuts ==
    ASSUME TypeOK, OneHolder, NEW c \in Conn, c \notin Pooled, pool' = Append(pool, c)
    PROVE  /\ Pooled' = Pooled \cup {c}
           /\ \A i, j \in DOMAIN pool' : pool'[i] = pool'[j] => i = j
<1>1. /\ pool' \in Seq(Conn)
      /\ Len(pool) \in Nat
      /\ Len(pool') = Len(pool) + 1
      /\ \A i \in 1..Len(pool) : pool'[i] = pool[i]
      /\ pool'[Len(pool) + 1] = c
  BY AppendProperties, LenProperties DEF TypeOK
<1>2. DOMAIN pool = 1..Len(pool) /\ DOMAIN pool' = 1..(Len(pool) + 1)
  BY <1>1, LenProperties DEF TypeOK
<1>3. \A i \in 1..(Len(pool) + 1) : i \in 1..Len(pool) \/ i = Len(pool) + 1
  BY <1>1
<1>4. \A i \in 1..Len(pool) : i \in 1..(Len(pool) + 1) /\ pool[i] # c
  BY <1>1, <1>2 DEF Pooled
<1>5. Len(pool) + 1 \in 1..(Len(pool) + 1)
  BY <1>1
<1>6. Pooled' = Pooled \cup {c}
  BY <1>1, <1>2, <1>3, <1>4, <1>5 DEF Pooled
<1>7. \A i, j \in DOMAIN pool' : pool'[i] = pool'[j] => i = j
  BY <1>1, <1>2, <1>3, <1>4 DEF OneHolder
<1> QED BY <1>6, <1>7

\* While t has a connection nobody else has it.
LEMMA Exclusive ==
    ASSUME TypeOK, HoldInv, NEW t \in Thread, InHand(t)
    PROVE  /\ conn[t] \in Conn
           /\ conn[t] \notin Pooled
           /\ sess[conn[t]] # "none"
           /\ \A u \in Thread : u # t => conn[u] # conn[t]
<1>1. conn[t] \in Conn /\ conn[t] # NoOne
  BY HandHasConn DEF HoldInv
<1>2. conn[t] \in Held
  BY <1>1 DEF Held
<1> QED BY <1>1, <1>2 DEF HoldInv, OneHolder

LEMMA HoldStep == TypeOK /\ HoldInv /\ [Next]_vars => HoldInv'
<1> SUFFICES ASSUME TypeOK, HoldInv, [Next]_vars PROVE HoldInv'
  OBVIOUS
<1> USE DEF GoTo, Ends
<1>0. PoolAssumption /\ pc \in [Thread -> {"idle", "get", "pop", "connect", "use", "commit",
                                           "block", "rollback", "restore", "return"}]
  BY PoolAssumption DEF TypeOK, PoolAssumption
<1>1. ASSUME NEW t \in Thread, Call(t) \/ Lock(t) \/ Exhausted(t) PROVE HoldInv'
  BY <1>0, <1>1, HoldFrame DEF Call, Lock, Exhausted, InHand, server
<1>2. ASSUME NEW t \in Thread,
             \/ Execute(t) \/ CommitQuery(t) \/ Start(t) \/ Statement(t) \/ Raise(t)
             \/ Interrupt(t) \/ Rollback(t) \/ Restore(t)
      PROVE  HoldInv'
  <2>1. UNCHANGED <<pool, conn, sess>>
    BY <1>2 DEF Execute, CommitQuery, Start, Statement, Raise, Interrupt, Rollback,
                Restore, server
  <2>2. \A u \in Thread : InHand(u)' <=> InHand(u)
    BY <1>0, <1>2 DEF Execute, CommitQuery, Start, Statement, Raise, Interrupt,
                      Rollback, Restore, InHand
  <2> QED BY <2>1, <2>2, HoldFrame
<1>3. ASSUME NEW t \in Thread, Fail(t) \/ Commit(t) PROVE HoldInv'
  <2>1. \A u \in Thread : InHand(u)' <=> InHand(u)
    BY <1>0, <1>3 DEF Fail, Commit, InHand
  <2>2. \A c \in Conn : sess'[c] # "none" <=> sess[c] # "none"
    <3>1. CASE UNCHANGED sess
      BY <3>1
    <3>2. CASE Open(t) /\ sess' = [sess EXCEPT ![conn[t]] = "lost"]
      BY <3>2 DEF Open, TypeOK
    <3> QED BY <1>3, <3>1, <3>2 DEF Fail, Commit
  <2> QED BY <1>3, <2>1, <2>2, HoldFrame DEF Fail, Commit
<1>4. ASSUME NEW c \in Conn, Drop(c) PROVE HoldInv'
  <2>1. \A b \in Conn : sess'[b] # "none" <=> sess[b] # "none"
    BY <1>4 DEF Drop, TypeOK
  <2> QED BY <1>4, <2>1, HoldFrame DEF Drop, InHand
<1>5. ASSUME NEW t \in Thread, Reuse(t) PROVE HoldInv'
  <2> DEFINE c == pool[Len(pool)]
  <2>1. /\ c \in Conn /\ c \in Pooled
        /\ Pooled' = Pooled \ {c}
        /\ \A i, j \in DOMAIN pool' : pool'[i] = pool'[j] => i = j
    BY <1>5, PopTakes DEF Reuse, HoldInv
  <2>2. conn[t] = NoOne /\ c \notin Held
    BY <1>5, <2>1 DEF Reuse, InHand, HoldInv, OneHolder
  <2> HIDE DEF c
  <2>3. CASE conn' = [conn EXCEPT ![t] = c] /\ pc' = [pc EXCEPT ![t] = "use"]
             /\ UNCHANGED sess
    <3>1. Held' = Held \cup {c}
      BY <1>0, <2>1, <2>2, <2>3, PoolAssumption DEF Held, TypeOK
    <3>2. \A u \in Thread : InHand(u)' <=> conn'[u] # NoOne
      BY <1>0, <2>1, <2>3, PoolAssumption DEF InHand, HoldInv, TypeOK
    <3>3. \A u, v \in Thread : (conn'[u] = conn'[v] /\ conn'[u] # NoOne) => u = v
      BY <2>1, <2>2, <2>3 DEF HoldInv, OneHolder, TypeOK, Held
    <3>4. \A b \in Conn : sess'[b] # "none" <=> b \in Pooled' \cup Held'
      BY <2>1, <2>3, <3>1 DEF HoldInv
    <3> QED BY <2>1, <3>1, <3>2, <3>3, <3>4 DEF HoldInv, OneHolder
  <2>4. CASE sess' = [sess EXCEPT ![c] = "none"] /\ UNCHANGED <<conn, pc>>
    <3>1. Held' = Held
      BY <2>4 DEF Held
    <3>2. \A b \in Conn : sess'[b] # "none" <=> b \in Pooled' \cup Held'
      BY <2>1, <2>2, <2>4, <3>1 DEF HoldInv, TypeOK
    <3> QED BY <2>1, <2>4, <3>1, <3>2 DEF HoldInv, OneHolder, InHand
  <2> QED BY <1>5, <2>3, <2>4 DEF Reuse, c
<1>6. ASSUME NEW t \in Thread, Connect(t) PROVE HoldInv'
  <2>1. conn[t] = NoOne /\ UNCHANGED pool
    BY <1>6 DEF Connect, InHand, HoldInv
  <2>2. ASSUME NEW c \in Conn, sess[c] = "none",
               sess' = [sess EXCEPT ![c] = "open"],
               conn' = [conn EXCEPT ![t] = c],
               pc' = [pc EXCEPT ![t] = "use"]
        PROVE  HoldInv'
    <3>1. c \notin Pooled \cup Held
      BY <2>2 DEF HoldInv
    <3>2. Pooled' = Pooled /\ Held' = Held \cup {c}
      BY <2>1, <2>2, PoolAssumption DEF Pooled, Held, TypeOK
    <3>3. \A u \in Thread : InHand(u)' <=> conn'[u] # NoOne
      BY <1>0, <2>2, PoolAssumption DEF InHand, HoldInv, TypeOK
    <3>4. \A u, v \in Thread : (conn'[u] = conn'[v] /\ conn'[u] # NoOne) => u = v
      BY <2>2, <3>1 DEF HoldInv, OneHolder, TypeOK, Held
    <3>5. \A b \in Conn : sess'[b] # "none" <=> b \in Pooled' \cup Held'
      BY <2>2, <3>2 DEF HoldInv, TypeOK
    <3> QED BY <2>1, <3>1, <3>2, <3>3, <3>4, <3>5 DEF HoldInv, OneHolder
  <2>3. CASE UNCHANGED <<sess, conn>> /\ pc' = [pc EXCEPT ![t] = "idle"]
    BY <1>0, <1>6, <2>1, <2>3, HoldFrame DEF Connect, InHand
  <2> QED BY <1>6, <2>2, <2>3 DEF Connect
<1>7. ASSUME NEW t \in Thread, Return(t) PROVE HoldInv'
  <2> DEFINE c == conn[t]
  <2>1. /\ c \in Conn /\ c # NoOne /\ c \notin Pooled /\ c \in Held /\ sess[c] # "none"
        /\ \A u \in Thread : u # t => conn[u] # c
    BY <1>7, Exclusive, PoolAssumption DEF Return, InHand, Held
  <2>2. conn' = [conn EXCEPT ![t] = NoOne] /\ pc' = [pc EXCEPT ![t] = "idle"]
    BY <1>7 DEF Return
  <2> HIDE DEF c
  <2>3. Held' = Held \ {c}
    BY <2>1, <2>2, PoolAssumption DEF Held, TypeOK, c
  <2>4. \A u \in Thread : InHand(u)' <=> conn'[u] # NoOne
    BY <1>0, <2>2 DEF InHand, HoldInv, TypeOK
  <2>5. \A u, v \in Thread : (conn'[u] = conn'[v] /\ conn'[u] # NoOne) => u = v
    BY <2>2 DEF HoldInv, OneHolder, TypeOK
  <2>6. CASE pool' = Append(pool, c) /\ UNCHANGED sess
    <3>1. /\ Pooled' = Pooled \cup {c}
          /\ \A i, j \in DOMAIN pool' : pool'[i] = pool'[j] => i = j
      BY <2>1, <2>6, PushPuts DEF HoldInv
    <3>2. \A b \in Conn : sess'[b] # "none" <=> b \in Pooled' \cup Held'
      BY <2>1, <2>3, <2>6, <3>1 DEF HoldInv
    <3> QED BY <2>3, <2>4, <2>5, <3>1, <3>2 DEF HoldInv, OneHolder
  <2>7. CASE Close(c) /\ UNCHANGED pool
    <3>1. Pooled' = Pooled
      BY <2>7 DEF Pooled
    <3>2. \A b \in Conn : sess'[b] # "none" <=> b \in Pooled' \cup Held'
      BY <2>1, <2>3, <2>7, <3>1 DEF HoldInv, Close, TypeOK
    <3> QED BY <2>3, <2>4, <2>5, <2>7, <3>1, <3>2 DEF HoldInv, OneHolder
  <2> QED BY <1>7, <2>6, <2>7 DEF Return, c
<1>8. CASE CloseAll
  <2>1. Pooled' = {} /\ DOMAIN pool' = {}
    BY <1>8 DEF CloseAll, Pooled
  <2>2. Held' = Held /\ UNCHANGED <<conn, pc>>
    BY <1>8 DEF CloseAll, Held
  <2>3. \A b \in Conn : sess'[b] = IF b \in Pooled THEN "none" ELSE sess[b]
    BY <1>8 DEF CloseAll, Pooled
  <2> QED BY <2>1, <2>2, <2>3 DEF HoldInv, OneHolder, InHand
<1>9. CASE UNCHANGED vars
  BY <1>9, HoldFrame DEF vars, server, InHand
<1> QED BY <1>1, <1>2, <1>3, <1>4, <1>5, <1>6, <1>7, <1>8, <1>9
        DEF Next, Get, Query, Block

-----------------------------------------------------------------------------
(* What a connection carries over to its next user                         *)

LEMMA CleanInit == Init => CleanInv
BY DEF Init, CleanInv, Pooled

\* A step may spoil only the connection of the thread that takes it.
LEMMA CleanFrame ==
    ASSUME TypeOK, HoldInv, CleanInv, NEW t \in Thread, InHand(t),
           UNCHANGED <<pool, conn>>,
           \A u \in Thread \ {t} : pc'[u] = pc[u],
           \A c \in Conn \ {conn[t]} : Clean(c) => Clean(c)',
           pc'[t] \in {"use", "commit", "return"} => Clean(conn[t])'
    PROVE  CleanInv'
<1>1. Pooled' = Pooled
  BY DEF Pooled
<1>2. Pooled \subseteq Conn \ {conn[t]}
  <2>1. \A i \in DOMAIN pool : pool[i] \in Conn
    BY ElementOfSeq, LenProperties DEF TypeOK
  <2> QED BY <2>1, Exclusive DEF Pooled
<1>3. ASSUME NEW u \in Thread, u # t, pc'[u] \in {"use", "commit", "return"}
      PROVE  Clean(conn[u])'
  <2>1. InHand(u) /\ pc[u] \in {"use", "commit", "return"} /\ conn'[u] = conn[u]
    BY <1>3 DEF InHand
  <2>2. conn[u] \in Conn \ {conn[t]}
    BY <1>3, <2>1, Exclusive
  <2>3. Clean(conn[u])
    BY <2>1 DEF CleanInv
  <2> QED BY <2>1, <2>2, <2>3 DEF Clean
<1> QED BY <1>1, <1>2, <1>3 DEF CleanInv, Clean

LEMMA CleanStep == TypeOK /\ HoldInv /\ CleanInv /\ [Next]_vars => CleanInv'
<1> SUFFICES ASSUME TypeOK, HoldInv, CleanInv, [Next]_vars PROVE CleanInv'
  OBVIOUS
<1> USE DEF GoTo, Ends
<1>0. pc \in [Thread -> {"idle", "get", "pop", "connect", "use", "commit",
                         "block", "rollback", "restore", "return"}]
  BY DEF TypeOK
<1>p. Pooled \subseteq Conn
  <2>1. \A i \in DOMAIN pool : pool[i] \in Conn
    BY ElementOfSeq, LenProperties DEF TypeOK
  <2> QED BY <2>1 DEF Pooled
<1>1. ASSUME NEW t \in Thread, Call(t) \/ Lock(t) \/ Exhausted(t) PROVE CleanInv'
  BY <1>0, <1>1 DEF Call, Lock, Exhausted, CleanInv, Clean, Pooled, server
<1>2. ASSUME NEW t \in Thread, Reuse(t) PROVE CleanInv'
  <2> DEFINE c == pool[Len(pool)]
  <2>1. c \in Conn /\ c \in Pooled /\ Pooled' = Pooled \ {c} /\ c \notin Held
    BY <1>2, PopTakes DEF Reuse, HoldInv, OneHolder
  <2>2. UNCHANGED <<auto, work>>
    BY <1>2 DEF Reuse
  <2> HIDE DEF c
  <2>3. CASE conn' = [conn EXCEPT ![t] = c] /\ pc' = [pc EXCEPT ![t] = "use"]
             /\ UNCHANGED sess
    BY <1>0, <2>1, <2>2, <2>3 DEF CleanInv, Clean, TypeOK
  <2>4. CASE sess' = [sess EXCEPT ![c] = "none"] /\ UNCHANGED <<conn, pc>>
    <3>1. \A b : Clean(b) => Clean(b)'
      BY <2>1, <2>2, <2>4 DEF Clean, TypeOK
    <3> QED BY <2>1, <2>4, <3>1 DEF CleanInv, Clean
  <2> QED BY <1>2, <2>3, <2>4 DEF Reuse, c
<1>3. ASSUME NEW t \in Thread, Connect(t) PROVE CleanInv'
  <2>1. UNCHANGED pool /\ Pooled' = Pooled
    BY <1>3 DEF Connect, Pooled
  <2>2. ASSUME NEW c \in Conn,
               sess' = [sess EXCEPT ![c] = "open"],
               auto' = [auto EXCEPT ![c] = TRUE],
               work' = [work EXCEPT ![c] = 0],
               conn' = [conn EXCEPT ![t] = c],
               pc' = [pc EXCEPT ![t] = "use"]
        PROVE  CleanInv'
    <3>1. auto'[c] = TRUE /\ \A b \in Conn \ {c} : auto'[b] = auto[b]
      BY <2>2 DEF TypeOK
    <3>2. \A b \in Conn : Clean(b) => Clean(b)'
      BY <2>2, <3>1 DEF Clean, TypeOK
    <3>3. Clean(c)'
      BY <2>2, <3>1 DEF Clean, TypeOK
    <3>4. ASSUME NEW u \in Thread, pc'[u] \in {"use", "commit", "return"}
          PROVE  Clean(conn[u])'
      <4>1. CASE u = t
        BY <2>2, <3>3, <4>1 DEF TypeOK, Clean
      <4>2. CASE u # t
        <5>1. pc[u] = pc'[u] /\ conn'[u] = conn[u]
          BY <1>0, <2>2, <4>2 DEF TypeOK
        <5>2. conn[u] \in Conn /\ Clean(conn[u])
          BY <3>4, <5>1, HandHasConn DEF InHand, CleanInv
        <5> QED BY <5>1, <5>2, <3>2 DEF Clean
      <4> QED BY <4>1, <4>2
    <3> QED BY <1>p, <2>1, <3>2, <3>4 DEF CleanInv, Clean
  <2>3. CASE UNCHANGED <<sess, auto, work, conn>> /\ pc' = [pc EXCEPT ![t] = "idle"]
    BY <1>0, <2>1, <2>3 DEF CleanInv, Clean
  <2> QED BY <1>3, <2>2, <2>3 DEF Connect
<1>4. ASSUME NEW t \in Thread, Execute(t) \/ Fail(t) \/ CommitQuery(t) \/ Start(t) \/ Statement(t)
                               \/ Raise(t) \/ Interrupt(t) \/ Commit(t) \/ Rollback(t)
                               \/ Restore(t)
      PROVE  CleanInv'
  <2>1. InHand(t) /\ conn[t] \in Conn
    BY <1>4, HandHasConn DEF InHand, Execute, Fail, CommitQuery, Start, Statement, Raise,
                             Interrupt, Commit, Rollback, Restore
  <2>2. UNCHANGED <<pool, conn>> /\ \A u \in Thread \ {t} : pc'[u] = pc[u]
    BY <1>0, <1>4 DEF Execute, Fail, CommitQuery, Start, Statement, Raise, Interrupt, Commit,
                      Rollback, Restore
  <2>3. \A c \in Conn \ {conn[t]} :
            sess'[c] = sess[c] /\ auto'[c] = auto[c] /\ work'[c] = work[c]
    BY <1>4, <2>1 DEF Execute, Fail, CommitQuery, Start, Statement, Raise, Interrupt, Commit,
                      Rollback, Restore, TypeOK, server
  <2>4. \A c \in Conn \ {conn[t]} : Clean(c) => Clean(c)'
    BY <2>3 DEF Clean
  <2>5. pc'[t] \in {"use", "commit", "return"} => Clean(conn[t])'
    <3>1. CASE Execute(t) \/ Fail(t) \/ CommitQuery(t)
      <4>1. Clean(conn[t])
        BY <3>1 DEF Execute, Fail, CommitQuery, CleanInv
      <4>2. UNCHANGED <<auto, conn>> /\ (sess'[conn[t]] = "open" => Open(t))
        BY <2>1, <3>1 DEF Execute, Fail, CommitQuery, Open, TypeOK
      <4>3. Open(t) => work'[conn[t]] = 0
        <5>1. CASE Execute(t)
          BY <2>1, <4>1, <5>1 DEF Execute, Clean, Open, TypeOK
        <5>2. CASE Fail(t) \/ CommitQuery(t)
          BY <2>1, <5>2 DEF Fail, CommitQuery, TypeOK
        <5> QED BY <3>1, <5>1, <5>2
      <4> QED BY <4>1, <4>2, <4>3 DEF Clean, Open
    <3>2. CASE Start(t) \/ Statement(t) \/ Raise(t) \/ Interrupt(t) \/ Commit(t) \/ Rollback(t)
      BY <1>0, <3>2 DEF Start, Statement, Raise, Interrupt, Commit, Rollback
    <3>3. CASE Restore(t)
      <4>1. UNCHANGED <<sess, conn>>
        BY <3>3 DEF Restore
      <4>2. Open(t) => auto'[conn[t]] = TRUE /\ work'[conn[t]] = 0
        BY <2>1, <3>3 DEF Restore, TypeOK
      <4> QED BY <4>1, <4>2 DEF Clean, Open
    <3> QED BY <1>4, <3>1, <3>2, <3>3
  <2> QED BY <2>1, <2>2, <2>4, <2>5, CleanFrame
<1>5. ASSUME NEW t \in Thread, Return(t) PROVE CleanInv'
  <2>1. conn[t] \in Conn /\ conn[t] \notin Pooled /\ Clean(conn[t])
    BY <1>5, Exclusive DEF Return, InHand, CleanInv
  <2>2. Pooled' \subseteq Pooled \cup {conn[t]}
    <3>1. CASE pool' = Append(pool, conn[t])
      BY <2>1, <3>1, PushPuts DEF HoldInv
    <3>2. CASE UNCHANGED pool
      BY <3>2 DEF Pooled
    <3> QED BY <1>5, <3>1, <3>2 DEF Return
  <2>3. \A b \in Conn : Clean(b) => Clean(b)'
    BY <1>5, <2>1 DEF Return, Close, Clean, TypeOK
  <2>4. ASSUME NEW u \in Thread, pc'[u] \in {"use", "commit", "return"}
        PROVE  Clean(conn[u])'
    <3>1. pc[u] = pc'[u] /\ conn'[u] = conn[u]
      BY <1>0, <1>5, <2>4 DEF Return, TypeOK
    <3>2. conn[u] \in Conn /\ Clean(conn[u])
      BY <2>4, <3>1, HandHasConn DEF InHand, CleanInv
    <3> QED BY <2>3, <3>1, <3>2 DEF Clean
  <2> QED BY <1>p, <2>1, <2>2, <2>3, <2>4 DEF CleanInv, Clean
<1>6. ASSUME NEW c \in Conn, Drop(c) PROVE CleanInv'
  <2>1. \A b : Clean(b) => Clean(b)'
    BY <1>6 DEF Drop, Clean, TypeOK
  <2> QED BY <1>6, <2>1 DEF Drop, CleanInv, Clean, Pooled
<1>7. CASE CloseAll
  <2>1. Pooled' = {}
    BY <1>7 DEF CloseAll, Pooled
  <2>2. ASSUME NEW u \in Thread, pc'[u] \in {"use", "commit", "return"}
        PROVE  Clean(conn[u])'
    <3>1. UNCHANGED <<pc, conn, auto, work>>
      BY <1>7 DEF CloseAll
    <3>2. conn[u] \in Conn /\ Clean(conn[u])
      BY <2>2, <3>1, HandHasConn DEF InHand, CleanInv
    <3>3. sess'[conn[u]] = "open" => sess[conn[u]] = "open"
      BY <1>7, <3>2 DEF CloseAll
    <3> QED BY <3>1, <3>2, <3>3 DEF Clean
  <2> QED BY <2>1, <2>2 DEF CleanInv, Clean
<1>8. CASE UNCHANGED vars
  BY <1>8 DEF vars, server, CleanInv, Clean, Pooled
<1> QED BY <1>1, <1>2, <1>3, <1>4, <1>5, <1>6, <1>7, <1>8 DEF Next, Get, Query, Block

-----------------------------------------------------------------------------
(* What a call has stored                                                  *)

LEMMA ResultInit == Init => ResultInv
BY DEF Init, ResultInv, Right

\* A thread is right still when nothing of it has changed and its session holds
\* what it held, if it is still there.
LEMMA StillRight ==
    ASSUME NEW u \in Thread, Right(u),
           pc'[u] = pc[u], conn'[u] = conn[u], kind'[u] = kind[u],
           stored'[u] = stored[u], run'[u] = run[u], result'[u] = result[u],
           (InHand(u) /\ sess'[conn[u]] = "open") =>
               sess[conn[u]] = "open" /\ work'[conn[u]] = work[conn[u]]
    PROVE  Right(u)'
BY DEF Right, Part, All, Open, InHand

\* Those who do not take the step are right still if their sessions are spared.
LEMMA OthersRight ==
    ASSUME TypeOK, HoldInv, ResultInv, NEW t \in Thread,
           \A u \in Thread \ {t} :
               /\ pc'[u] = pc[u] /\ conn'[u] = conn[u] /\ kind'[u] = kind[u]
               /\ stored'[u] = stored[u] /\ run'[u] = run[u] /\ result'[u] = result[u],
           \A u \in Thread \ {t} : InHand(u) =>
               sess'[conn[u]] = sess[conn[u]] /\ work'[conn[u]] = work[conn[u]],
           Right(t)'
    PROVE  ResultInv'
<1>1. ASSUME NEW u \in Thread, u # t PROVE Right(u)'
  <2>1. Right(u)
    BY DEF ResultInv
  <2> QED BY <1>1, <2>1, StillRight
<1> QED BY <1>1 DEF ResultInv

LEMMA ResultStep ==
    TypeOK /\ HoldInv /\ CleanInv /\ ResultInv /\ [Next]_vars => ResultInv'
<1> SUFFICES ASSUME TypeOK, HoldInv, CleanInv, ResultInv, [Next]_vars PROVE ResultInv'
  OBVIOUS
<1> USE DEF GoTo, Ends
<1>0. /\ pc \in [Thread -> {"idle", "get", "pop", "connect", "use", "commit",
                            "block", "rollback", "restore", "return"}]
      /\ conn \in [Thread -> Conn \cup {NoOne}]
      /\ stored \in [Thread -> Nat]
      /\ run \in [Thread -> 0..Stmts]
      /\ kind \in [Thread -> {"query", "bulk", "block"}]
      /\ result \in [Thread -> {"none", "ok", "error", "interrupted"}]
  BY DEF TypeOK
<1>1. ASSUME NEW t \in Thread, Call(t) \/ Lock(t) \/ Exhausted(t) PROVE ResultInv'
  <2>1. Right(t)
    BY DEF ResultInv
  <2>2. Right(t)'
    BY <1>0, <1>1, <2>1 DEF Call, Lock, Exhausted, Right, server
  <2> QED BY <1>0, <1>1, <2>2, OthersRight DEF Call, Lock, Exhausted, server
<1>2. ASSUME NEW t \in Thread, Reuse(t) PROVE ResultInv'
  <2> DEFINE c == pool[Len(pool)]
  <2>1. c \in Conn /\ c \in Pooled
    BY <1>2, PopTakes DEF Reuse, HoldInv
  <2>2. /\ UNCHANGED <<work, stored, kind, run, result>>
        /\ \A u \in Thread \ {t} : pc'[u] = pc[u] /\ conn'[u] = conn[u]
        /\ \A b \in Conn \ {c} : sess'[b] = sess[b]
    BY <1>0, <1>2, <2>1 DEF Reuse, TypeOK
  <2>3. pc[t] = "pop" /\ pc'[t] \in {"pop", "use"}
    BY <1>0, <1>2 DEF Reuse
  <2> HIDE DEF c
  <2>4. \A u \in Thread : InHand(u) => conn[u] \in Conn \ {c}
    BY <2>1, Exclusive
  <2>5. Right(t)
    BY DEF ResultInv
  <2>6. Right(t)'
    BY <2>2, <2>3, <2>5 DEF Right
  <2> QED BY <2>2, <2>4, <2>6, OthersRight
<1>3. ASSUME NEW t \in Thread, Connect(t) PROVE ResultInv'
  <2>1. Right(t)
    BY DEF ResultInv
  <2>2. UNCHANGED <<stored, kind, run>> /\ pc[t] = "connect"
    BY <1>3 DEF Connect
  <2>3. \A u \in Thread \ {t} :
            pc'[u] = pc[u] /\ conn'[u] = conn[u] /\ result'[u] = result[u]
    BY <1>0, <1>3 DEF Connect
  <2>4. Right(t)'
    <3>1. pc'[t] = "use" \/ (pc'[t] = "idle" /\ result'[t] = "error")
      BY <1>0, <1>3 DEF Connect
    <3> QED BY <2>1, <2>2, <3>1 DEF Right, Part
  <2>5. \A u \in Thread : InHand(u) =>
            sess'[conn[u]] = sess[conn[u]] /\ work'[conn[u]] = work[conn[u]]
    <3>1. CASE UNCHANGED <<sess, work>>
      BY <3>1
    <3>2. ASSUME NEW c \in Conn, sess[c] = "none", sess' = [sess EXCEPT ![c] = "open"],
                 work' = [work EXCEPT ![c] = 0], NEW u \in Thread, InHand(u)
          PROVE  sess'[conn[u]] = sess[conn[u]] /\ work'[conn[u]] = work[conn[u]]
      <4>1. conn[u] \in Conn /\ conn[u] # c
        BY <3>2, Exclusive
      <4> QED BY <3>2, <4>1 DEF TypeOK
    <3> QED BY <1>3, <3>1, <3>2 DEF Connect
  <2> QED BY <2>2, <2>3, <2>4, <2>5, OthersRight
<1>4. ASSUME NEW t \in Thread, Execute(t) \/ Fail(t) \/ CommitQuery(t) \/ Start(t) \/ Statement(t)
                               \/ Raise(t) \/ Interrupt(t) \/ Commit(t) \/ Rollback(t)
                               \/ Restore(t)
      PROVE  ResultInv'
  <2>1. InHand(t) /\ conn[t] \in Conn
    BY <1>4, HandHasConn DEF InHand, Execute, Fail, CommitQuery, Start, Statement, Raise,
                             Interrupt, Commit, Rollback, Restore
  <2>2. /\ UNCHANGED <<conn, kind>>
        /\ \A u \in Thread \ {t} : /\ pc'[u] = pc[u] /\ stored'[u] = stored[u]
                                   /\ run'[u] = run[u] /\ result'[u] = result[u]
    <3>1. CASE Fail(t)
      <4>1. stored' = stored \/ stored' = [stored EXCEPT ![t] = stored'[t]]
        BY <1>0, <3>1 DEF Fail, Stores
      <4> QED BY <1>0, <3>1, <4>1 DEF Fail
    <3>2. CASE Execute(t) \/ CommitQuery(t)
      BY <1>0, <3>2 DEF Execute, Stores, CommitQuery
    <3>3. CASE Start(t) \/ Statement(t) \/ Raise(t) \/ Interrupt(t) \/ Commit(t)
               \/ Rollback(t) \/ Restore(t)
      BY <1>0, <3>3 DEF Start, Statement, Raise, Interrupt, Commit, Rollback, Restore, server
    <3> QED BY <1>4, <3>1, <3>2, <3>3
  <2>3. \A c \in Conn \ {conn[t]} : sess'[c] = sess[c] /\ work'[c] = work[c]
    BY <1>4, <2>1 DEF Execute, Fail, CommitQuery, Start, Statement, Raise, Interrupt, Commit,
                      Rollback, Restore, TypeOK, server
  <2>4. \A u \in Thread \ {t} : InHand(u) =>
            sess'[conn[u]] = sess[conn[u]] /\ work'[conn[u]] = work[conn[u]]
    BY <2>1, <2>3, Exclusive
  <2>5. Right(t) /\ (pc[t] \in {"use", "commit"} => Clean(conn[t]))
    BY DEF ResultInv, CleanInv
  <2>w. work[conn[t]] \in Nat /\ stored[t] \in Nat /\ run[t] \in Nat /\ Stmts \in Nat \ {0}
    BY <1>0, <2>1, PoolAssumption DEF TypeOK
  <2>6. Right(t)'
    <3>1. CASE Execute(t)
      <4>1. /\ pc[t] = "use" /\ kind[t] # "block" /\ kind'[t] = kind[t]
            /\ stored[t] = run[t] /\ (kind[t] # "bulk" => run[t] = 0)
        BY <1>0, <2>2, <2>5, <3>1 DEF Execute, Right
      <4>2. stored'[t] = run[t] + 1 /\ run'[t] = run[t] + 1
        BY <1>0, <2>5, <3>1, <4>1 DEF Execute, Stores, Clean, Open
      <4>3. \/ pc'[t] = "commit" /\ run[t] + 1 = All(t)
            \/ pc'[t] = "use" /\ run[t] + 1 # All(t)
        BY <1>0, <3>1 DEF Execute
      <4>4. kind[t] # "bulk" => All(t) = 1 /\ run[t] + 1 = 1
        BY <1>0, <4>1 DEF All
      <4> QED BY <4>1, <4>2, <4>3, <4>4 DEF Right, All
    <3>2. CASE Fail(t)
      <4>1. /\ kind'[t] = kind[t] /\ kind[t] # "block" /\ pc'[t] = "return"
            /\ run'[t] = run[t] /\ result'[t] = "error"
            /\ stored[t] = run[t] /\ (kind[t] # "bulk" => run[t] = 0)
        BY <1>0, <2>2, <2>5, <3>2 DEF Fail, Right
      <4>2. stored'[t] = run[t] \/ stored'[t] = run[t] + 1
        BY <1>0, <3>2, <4>1 DEF Fail, Stores
      <4>3. stored'[t] \in Part(t)'
        BY <1>0, <4>1, <4>2 DEF Part, All
      <4> QED BY <4>1, <4>3 DEF Right
    <3>c. CASE CommitQuery(t)
      <4>1. /\ stored[t] = All(t) /\ run[t] = All(t) /\ kind[t] # "block"
            /\ kind'[t] = kind[t] /\ run'[t] = run[t] /\ pc'[t] = "return"
        BY <1>0, <2>2, <2>5, <3>c DEF CommitQuery, Right
      <4>2. stored'[t] = stored[t] /\ result'[t] \in {"ok", "error"}
        BY <1>0, <2>5, <2>w, <3>c, <4>1 DEF CommitQuery, Right, Clean, Open
      <4> QED BY <4>1, <4>2 DEF Right, Part, All
    <3>3. CASE Start(t)
      <4>1. /\ stored'[t] = 0 /\ run'[t] = 0 /\ kind'[t] = "block"
            /\ UNCHANGED <<sess, work, conn>>
        BY <1>0, <2>5, <3>3 DEF Start, Right
      <4>2. \/ pc'[t] = "block" /\ work[conn[t]] = 0
            \/ pc'[t] = "restore" /\ result'[t] = "error" /\ ~Open(t)
        BY <1>0, <2>5, <3>3 DEF Start, Clean, Open
      <4> QED BY <4>1, <4>2 DEF Right, Part, All, Open
    <3>4. CASE Statement(t)
      <4>1. /\ pc'[t] = "block" /\ kind'[t] = "block" /\ stored'[t] = 0
            /\ work'[conn[t]] = work[conn[t]] + 1 /\ run'[t] = run[t] + 1
            /\ work[conn[t]] = run[t] /\ conn'[t] = conn[t]
        BY <1>0, <2>1, <2>5, <3>4 DEF Statement, Right, TypeOK
      <4> QED BY <4>1 DEF Right
    <3>5. CASE Raise(t) \/ Interrupt(t)
      <4>1. /\ kind'[t] = "block" /\ stored'[t] = 0
            /\ \/ pc'[t] = "rollback" /\ result'[t] = "error"
               \/ pc'[t] = "restore" /\ result'[t] = "interrupted"
        BY <1>0, <2>5, <3>5 DEF Raise, Interrupt, Right, server
      <4> QED BY <4>1 DEF Right, Part, All
    <3>6. CASE Commit(t)
      <4>1. kind'[t] = "block" /\ stored[t] = 0 /\ (Open(t) => work[conn[t]] = Stmts)
        BY <2>2, <2>5, <3>6 DEF Commit, Right
      <4>2. /\ stored'[t] = 0 \/ stored'[t] = Stmts
            /\ \/ pc'[t] = "rollback" /\ result'[t] = "error"
               \/ /\ pc'[t] = "restore" /\ result'[t] = "ok"
                  /\ stored'[t] = Stmts /\ work'[conn[t]] = 0
        BY <1>0, <2>1, <2>w, <3>6, <4>1 DEF Commit, TypeOK
      <4> QED BY <2>2, <4>1, <4>2 DEF Right, Part, All
    <3>7. CASE Rollback(t)
      <4>1. /\ pc'[t] = "restore" /\ kind'[t] = "block" /\ result'[t] = "error"
            /\ stored'[t] = 0 \/ stored'[t] = Stmts
            /\ work'[conn[t]] = 0
        BY <1>0, <2>1, <2>5, <3>7 DEF Rollback, Right, Part, All, TypeOK
      <4> QED BY <2>2, <4>1 DEF Right, Part, All
    <3>8. CASE Restore(t)
      <4>1. /\ pc[t] = "restore" /\ pc'[t] = "return"
            /\ kind[t] = "block" /\ kind'[t] = "block" /\ result'[t] = result[t]
        BY <1>0, <2>2, <2>5, <3>8 DEF Restore, Right
      <4>2. result[t] # "interrupted" => stored'[t] = stored[t]
        BY <1>0, <2>5, <2>w, <3>8 DEF Restore, Right
      <4>3. /\ result[t] = "ok" => stored[t] = Stmts
            /\ result[t] = "error" => stored[t] = 0 \/ stored[t] = Stmts
        BY <2>5, <4>1 DEF Right, Part, All
      <4> QED BY <4>1, <4>2, <4>3 DEF Right, Part, All
    <3> QED BY <1>4, <3>1, <3>2, <3>c, <3>3, <3>4, <3>5, <3>6, <3>7, <3>8
  <2> QED BY <2>2, <2>4, <2>6, OthersRight
<1>5. ASSUME NEW t \in Thread, Return(t) PROVE ResultInv'
  <2>1. UNCHANGED <<work, stored, kind, run, result>> /\ pc[t] = "return" /\ pc'[t] = "idle"
    BY <1>0, <1>5 DEF Return
  <2>2. \A u \in Thread \ {t} : pc'[u] = pc[u] /\ conn'[u] = conn[u]
    BY <1>0, <1>5 DEF Return
  <2>3. conn[t] \in Conn /\ \A u \in Thread \ {t} : InHand(u) => conn[u] \in Conn \ {conn[t]}
    BY <2>1, Exclusive DEF InHand
  <2>4. \A b \in Conn \ {conn[t]} : sess'[b] = sess[b]
    BY <1>5, <2>3 DEF Return, Close, TypeOK
  <2>5. Right(t)
    BY DEF ResultInv
  <2>6. Right(t)'
    BY <2>1, <2>5 DEF Right, Part, All
  <2> QED BY <2>1, <2>2, <2>3, <2>4, <2>6, OthersRight
<1>6. ASSUME NEW c \in Conn, Drop(c) PROVE ResultInv'
  <2>1. ASSUME NEW u \in Thread PROVE Right(u)'
    <3>1. Right(u)
      BY DEF ResultInv
    <3>2. (InHand(u) /\ sess'[conn[u]] = "open") =>
              sess[conn[u]] = "open" /\ work'[conn[u]] = work[conn[u]]
      <4> SUFFICES ASSUME InHand(u), sess'[conn[u]] = "open"
                   PROVE  sess[conn[u]] = "open" /\ work'[conn[u]] = work[conn[u]]
        OBVIOUS
      <4>1. conn[u] \in Conn
        BY HandHasConn
      <4> QED BY <1>6, <4>1 DEF Drop, TypeOK
    <3> QED BY <1>6, <3>1, <3>2, StillRight DEF Drop
  <2> QED BY <2>1 DEF ResultInv
<1>7. CASE CloseAll
  <2>1. ASSUME NEW u \in Thread PROVE Right(u)'
    <3>1. Right(u)
      BY DEF ResultInv
    <3>2. (InHand(u) /\ sess'[conn[u]] = "open") => sess[conn[u]] = "open"
      BY <1>7, HandHasConn DEF CloseAll
    <3> QED BY <1>7, <3>1, <3>2, StillRight DEF CloseAll
  <2> QED BY <2>1 DEF ResultInv
<1>8. CASE UNCHANGED vars
  <2>1. ASSUME NEW u \in Thread PROVE Right(u)'
    BY <1>8, StillRight DEF vars, server, ResultInv
  <2> QED BY <2>1 DEF ResultInv
<1> QED BY <1>1, <1>2, <1>3, <1>4, <1>5, <1>6, <1>7, <1>8 DEF Next, Get, Query, Block

-----------------------------------------------------------------------------
(* Theorems                                                                *)

Inv == TypeOK /\ HoldInv /\ CleanInv /\ ResultInv

LEMMA Invariance == Spec => []Inv
<1>1. Init => Inv
  BY TypeInit, HoldInit, CleanInit, ResultInit DEF Inv
<1>2. Inv /\ [Next]_vars => Inv'
  BY TypeStep, HoldStep, CleanStep, ResultStep DEF Inv
<1> QED BY <1>1, <1>2, PTL DEF Spec

\* Pool, sessions and threads keep their types, and the pool its size
\* (return_connection compares before it appends).
THEOREM TypeCorrect == Spec => []TypeOK
<1>1. Inv => TypeOK
  BY DEF Inv
<1> QED BY <1>1, Invariance, PTL

\* No connection is ever in two places, though popping, pinging, closing and
\* appending are spread over get_connection, return_connection and close_all.
THEOREM SoleHolder == Spec => []OneHolder
<1>1. Inv => OneHolder
  BY DEF Inv, HoldInv
<1> QED BY <1>1, Invariance, PTL

\* No session is left to nobody (return_connection closes what does not fit).
THEOREM NoLeak == Spec => []NoSessionLost
<1>1. Inv => NoSessionLost
  BY DEF Inv, HoldInv, NoSessionLost
<1> QED BY <1>1, Invariance, PTL

\* Who takes a connection finds nothing of its last user (transaction() rolls
\* back and restores autocommit before it returns the connection).
THEOREM CleanHandover == Spec => []CleanWhenPooled
<1>1. Inv => CleanWhenPooled
  BY DEF Inv, CleanInv, Clean, CleanWhenPooled
<1> QED BY <1>1, Invariance, PTL

\* A call that succeeds stores all of its statements; one that fails stores none,
\* all, or, when it is a bulk insertion, its first ones (query.py, where the rollback
\* of an autocommit session undoes nothing; transaction()).
THEOREM Atomic == Spec => []AllOrNothing
<1>1. Inv => AllOrNothing
  BY DEF Inv, ResultInv, Right, Part, AllOrNothing
<1> QED BY <1>1, Invariance, PTL
================================================================================
