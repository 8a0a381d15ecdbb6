----------------------------- MODULE JobContract -----------------------------
(***************************************************************************)
(* What the job engine promises about the end of a job (engine.go:680-690, *)
(* "nothing acknowledged before it is durable"): a client is told that a   *)
(* job succeeded or failed only when the record says so, and from then on  *)
(* the record says so for ever, whatever restarts come.  A cancellation is *)
(* promised less: the job may be found open again, and one that is refused *)
(* because the queue is full may be cancelled before it is gone, or come   *)
(* back as cancelled.                                                      *)
(*                                                                         *)
(* The record of a job in "lost" could not be written, or lost a change in *)
(* a power loss; nothing is promised of it.                                *)
(***************************************************************************)
CONSTANT Jobs

VARIABLES record,   \* the durable state of each job
          told,     \* the end a client has read, of each job
          lost

vars == <<record, told, lost>>

Promised == {"succeeded", "failed"}
Entries  == {"none", "open", "cancelled"} \cup Promised
Tellings == {"none"} \cup Promised

Init ==
    /\ record = [j \in Jobs |-> "none"]
    /\ told = [j \in Jobs |-> "none"]
    /\ lost = {}

Becomes(j, r, t) ==
    /\ record' = [record EXCEPT ![j] = r]
    /\ told' = [told EXCEPT ![j] = t]

Accept(j) == record[j] = "none" /\ Becomes(j, "open", told[j]) /\ UNCHANGED lost
Refuse(j) == record[j] \in {"open", "cancelled"} /\ Becomes(j, "none", told[j]) /\ UNCHANGED lost
Linger(j) == record[j] = "none" /\ Becomes(j, "cancelled", told[j]) /\ UNCHANGED lost
Reopen(j) == record[j] = "cancelled" /\ Becomes(j, "open", told[j]) /\ UNCHANGED lost

Settle(j) ==
    /\ record[j] = "open"
    /\ \E e \in Promised \cup {"cancelled"} :
          \E t \in {told[j]} \cup ({e} \cap Promised) : Becomes(j, e, t)
    /\ UNCHANGED lost

Tell(j) ==
    /\ record[j] \in Promised
    /\ Becomes(j, record[j], record[j]) /\ UNCHANGED lost

Lose(J) ==
    /\ lost' = lost \cup J
    /\ record' \in [Jobs -> Entries] /\ told' \in [Jobs -> Tellings]
    /\ \A j \in Jobs \ J : record'[j] = record[j] /\ told'[j] = told[j]

Next ==
    \/ \E j \in Jobs : Accept(j) \/ Refuse(j) \/ Linger(j) \/ Reopen(j) \/ Settle(j) \/ Tell(j)
    \/ \E J \in SUBSET Jobs : Lose(J)

Spec == Init /\ [][Next]_vars
=============================================================================
