--------------------------- MODULE FanoutContract ---------------------------
(***************************************************************************)
(* What broadcastMessage promises its caller: every recipient is settled   *)
(* once, as sent or as failed, a recipient settled as sent has every part  *)
(* of the announcement, and the result is given when all are settled.      *)
(***************************************************************************)
CONSTANTS Recipients

VARIABLES settled,   \* what the result says of each recipient so far
          complete,  \* the recipients that have every part
          returned   \* broadcastMessage has returned

contractVars == <<settled, complete, returned>>

ContractInit ==
    /\ settled = [r \in Recipients |-> "pending"]
    /\ complete = {}
    /\ returned = FALSE

\* The last part arrives, and its answer may not.
Receive(r) ==
    /\ settled[r] = "pending"
    /\ complete' = complete \cup {r}
    /\ UNCHANGED <<settled, returned>>

Settle(r, outcome) ==
    /\ settled[r] = "pending"
    /\ complete' \in {complete, complete \cup {r}}
    /\ outcome = "sent" => r \in complete'
    /\ settled' = [settled EXCEPT ![r] = outcome]
    /\ UNCHANGED returned

Return ==
    /\ ~returned
    /\ \A r \in Recipients : settled[r] # "pending"
    /\ returned' = TRUE
    /\ UNCHANGED <<settled, complete>>

ContractNext ==
    \/ \E r \in Recipients : \/ Receive(r)
                             \/ \E outcome \in {"sent", "failed"} : Settle(r, outcome)
    \/ Return

ContractSpec == ContractInit /\ [][ContractNext]_contractVars
=============================================================================
