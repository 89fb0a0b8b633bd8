------------------------------ MODULE Ingestion ------------------------------
(***************************************************************************)
(* What the scanning of a mailbox promises, whatever the workers, their    *)
(* transactions and their crashes: each message, known by its dedup_key,   *)
(* is stored once and for good, is judged when it is stored or never, and  *)
(* has the policy of its classification executed at most once.             *)
(***************************************************************************)
CONSTANT Keys

VARIABLE stage  \* stage[k]: "absent", or what the Email row with key k is

Stage == {"absent", "bare", "whitelisted", "analysed", "handled"}

Init == stage = [k \in Keys |-> "absent"]

\* A message of this transaction failed earlier, and is stored all the same.
StoredUnjudged(k) == stage[k] = "absent" /\ stage'[k] = "bare"

\* The message the transaction is about is stored, or its policy is executed.
Store(k) == stage[k] = "absent" /\ stage'[k] \in {"bare", "whitelisted", "analysed"}
Act(k)   == stage[k] = "analysed" /\ stage'[k] = "handled"

\* A transaction is about one message.
Transaction(k) ==
  /\ stage' \in [Keys -> Stage]
  /\ Store(k) \/ Act(k)
  /\ \A j \in Keys \ {k} : stage'[j] = stage[j] \/ StoredUnjudged(j)

Next == \E k \in Keys : Transaction(k)

Spec == Init /\ [][Next]_stage
==============================================================================
