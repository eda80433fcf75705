--------------------------- MODULE MCConnectionPool ---------------------------
(* Threads are interchangeable, and so are connections. *)
EXTENDS ConnectionPool, TLC

Alike == Permutations(Thread) \cup Permutations(Conn)
=============================================================================
