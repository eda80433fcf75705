----------------------------- MODULE MCLogIngest -----------------------------
(* Values of the constants of LogIngest for TLC.                           *)
EXTENDS LogIngest

CONSTANTS failed,    \* Failed password for root
          accepted,  \* Accepted publickey for root
          undated,   \* a failure of root whose line has no syslog timestamp
          noise,     \* a line no pattern matches
          root

\* what the log says where lines can be refused by the database
StoreLines == {accepted, undated}
\* what it says where only the reading of the log is at stake
ReadLines  == {failed, noise}

TypeOfLine(l) ==
    CASE l = accepted -> "login.success"
      [] l = noise    -> "none"
      [] OTHER        -> "login.failure"

StoreEventType == [l \in StoreLines |-> TypeOfLine(l)]
ReadEventType  == [l \in ReadLines |-> TypeOfLine(l)]

StoreWho == [l \in StoreLines |-> root]
ReadWho  == [l \in ReadLines |-> root]
=============================================================================
