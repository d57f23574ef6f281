--------------------------- MODULE RollbackLedger ---------------------------
(***************************************************************************)
(* RollbackLedgerCache of internal/storage (rollbackledger_service.go,     *)
(* rollbackledger_adapter.go): a value is put into the memory that Get     *)
(* reads, and then into the durable copy, which may fail.                  *)
(***************************************************************************)
CONSTANTS Keys, Values, None

VARIABLES
  memory,   \* what Get answers: key -> value or None
  durable,  \* what Durable answers
  refused   \* history: the keys whose last Put failed

vars == <<memory, durable, refused>>

TypeOK ==
  /\ memory \in [Keys -> Values \cup {None}]
  /\ durable \in [Keys -> Values \cup {None}]
  /\ refused \subseteq Keys

Init ==
  /\ memory = [k \in Keys |-> None]
  /\ durable = [k \in Keys |-> None]
  /\ refused = {}

Put(k, v, fail) ==
  /\ memory' = [memory EXCEPT ![k] = v]
  /\ durable' = IF fail THEN durable ELSE [durable EXCEPT ![k] = v]
  /\ refused' = IF fail THEN refused \cup {k} ELSE refused \ {k}

Next == \E k \in Keys, v \in Values, fail \in BOOLEAN : Put(k, v, fail)

Spec == Init /\ [][Next]_vars

\* "failed write was visible in cache": the test asks that a Put that fails
\* leaves what Get answers as it was.
FailedPutIsInvisible == [][\A k \in refused' : memory'[k] = memory[k]]_vars
=============================================================================
