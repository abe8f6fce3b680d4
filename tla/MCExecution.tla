----------------------------- MODULE MCExecution -----------------------------
(* Small instances of Execution for TLC.                                    *)
EXTENDS Execution, TLC

\* Requests, previews, windows and operators are interchangeable; used only
\* by the runs without a liveness property.
Symmetry == Permutations(Requests) \cup Permutations(Previews)
            \cup Permutations(Windows) \cup Permutations(Operators)

Odd == CHOOSE p \in Previews : TRUE

\* Somebody has armed, and every preview was built and passed, one of them
\* perhaps ill formed: what Spec comes to before the first confirm, without
\* the orders in which it may.
ReadyInit ==
    /\ now = 0 /\ boot = 0
    /\ window = [w \in Windows |-> [state |-> "open", expires |-> ArmTtl, boot |-> 0]]
    /\ armTx = [o \in Operators |-> NoTx]
    /\ \E ok \in Shapes :
          preview = [p \in Previews |-> [state |-> "live", made |-> 0, verdict |-> {},
                                         wellFormed |-> ok \/ p # Odd, boot |-> 0]]
    /\ pc = [r \in Requests |-> "idle"] /\ holds = [r \in Requests |-> NoPreview]
    /\ reason = [r \in Requests |-> FALSE] /\ checked = [r \in Requests |-> -1]
    /\ row = [r \in Requests |-> NoRow] /\ outcome = [r \in Requests |-> "none"]
    /\ wire = [r \in Requests |-> "unsent"]

ReadySpec == ReadyInit /\ [][Next]_vars /\ Fairness
=============================================================================
