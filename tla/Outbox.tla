-------------------------------- MODULE Outbox --------------------------------
(***************************************************************************)
(* What the notification queue promises when one process works on it: a    *)
(* message is decided once, sent or failed; it is given up only after      *)
(* Limit attempts, and has at most one more: Limit may be read as the      *)
(* number of attempts or as that of the retries behind the first.          *)
(***************************************************************************)
EXTENDS Naturals

CONSTANTS Message, Limit

VARIABLES fate,    \* [Message -> {"none", "queued", "sent", "failed"}]
          attempts \* [Message -> 0..(Limit + 1)]

ovars == <<fate, attempts>>

OInit == /\ fate = [m \in Message |-> "none"]
         /\ attempts = [m \in Message |-> 0]

Enqueue(m) == /\ fate[m] = "none"
              /\ fate' = [fate EXCEPT ![m] = "queued"]
              /\ UNCHANGED attempts

Attempt(m) == /\ fate[m] = "queued"
              /\ attempts[m] <= Limit
              /\ attempts' = [attempts EXCEPT ![m] = @ + 1]
              /\ UNCHANGED fate

Succeed(m) == /\ fate[m] = "queued"
              /\ attempts[m] > 0
              /\ fate' = [fate EXCEPT ![m] = "sent"]
              /\ UNCHANGED attempts

GiveUp(m) == /\ fate[m] = "queued"
             /\ attempts[m] >= Limit
             /\ fate' = [fate EXCEPT ![m] = "failed"]
             /\ UNCHANGED attempts

ONext == \E m \in Message : Enqueue(m) \/ Attempt(m) \/ Succeed(m) \/ GiveUp(m)

OSpec == OInit /\ [][ONext]_ovars
=============================================================================
