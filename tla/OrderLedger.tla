----------------------------- MODULE OrderLedger -----------------------------
(***************************************************************************)
(* What the execution path promises about one client_order_id, without     *)
(* threads, windows, previews or clocks (docs/EXECUTION_DESIGN.md, sections *)
(* 1.1 and 2.4): the attempt is on record before the broker can know of it, *)
(* the broker comes to hold at most one order for it, and the record never *)
(* says more than the broker can be held to - "accepted" and "rejected" are *)
(* facts, "unknown" and "submitting" leave the question open.              *)
(***************************************************************************)
CONSTANT Ids   \* client_order_ids

VARIABLES
    ledger,    \* submit_status of the orders row of each id, "none" without one
    broker     \* what the broker did with it

Statuses == {"none", "submitting", "accepted", "rejected", "unknown"}

LedgerTypeOK ==
    /\ ledger \in [Ids -> Statuses]
    /\ broker \in [Ids -> {"unasked", "asked", "holds", "refused"}]

LedgerInit ==
    /\ ledger = [i \in Ids |-> "none"]
    /\ broker = [i \in Ids |-> "unasked"]

\* The audit row is written.
Record(i) ==
    /\ ledger[i] = "none"
    /\ ledger' = [ledger EXCEPT ![i] = "submitting"]
    /\ UNCHANGED broker

\* The order is submitted, once, and only against an open audit row.
Ask(i) ==
    /\ ledger[i] = "submitting"
    /\ broker[i] = "unasked"
    /\ broker' = [broker EXCEPT ![i] = "asked"]
    /\ UNCHANGED ledger

\* The broker answers, perhaps long after the program has given up on it.
Decide(i) ==
    /\ broker[i] = "asked"
    /\ \E d \in {"holds", "refused"} : broker' = [broker EXCEPT ![i] = d]
    /\ UNCHANGED ledger

\* The row is settled, by what is known of the order.
Settle(i) ==
    /\ ledger[i] = "submitting"
    /\ broker[i] # "unasked"
    /\ \E s \in {"unknown"} \cup (IF broker[i] = "holds" THEN {"accepted"} ELSE {})
                            \cup (IF broker[i] = "refused" THEN {"rejected"} ELSE {}) :
         ledger' = [ledger EXCEPT ![i] = s]
    /\ UNCHANGED broker

LedgerNext == \E i \in Ids : Record(i) \/ Ask(i) \/ Decide(i) \/ Settle(i)

LedgerSpec == LedgerInit /\ [][LedgerNext]_<<ledger, broker>>
=============================================================================
