---------------------------- MODULE SchemaLedger ----------------------------
(***************************************************************************)
(* What the migration runner promises about the database, without runners, *)
(* locks, plans or crashes (db/migrate.py, the module docstring): each     *)
(* change of it is one migration of some checkout, in its place in the     *)
(* order and next to no edited file, and takes effect with its row or not  *)
(* at all - unless the body takes the transaction into its own hands, and  *)
(* then the rows stay as they were.                                        *)
(***************************************************************************)
EXTENDS Integers

CONSTANTS Versions, Checkouts

VARIABLES
    applied,   \* schema_migrations: version -> checksum, "none" without a row
    schema     \* what the database holds of a version

SchemaInit ==
    /\ applied = [v \in Versions |-> "none"]
    /\ schema = [v \in Versions |-> "none"]

\* The turn of v has come on the way up: what is below it is in, and what is
\* in is as the files say.
TurnUp(files, v) ==
    /\ applied[v] = "none"
    /\ \A w \in DOMAIN files : w < v => applied[w] # "none"
    /\ \A w \in DOMAIN files : applied[w] \in {"none", files[w].sum}

\* ... and on the way down: what is above it is out.
TurnDown(files, v) ==
    /\ applied[v] # "none"
    /\ \A w \in DOMAIN files : w > v => applied[w] = "none"

Apply(files, v) ==
    /\ TurnUp(files, v) /\ files[v].up = "plain"
    /\ applied' = [applied EXCEPT ![v] = files[v].sum]
    /\ schema' = [schema EXCEPT ![v] = files[v].sum]

Revert(files, v) ==
    /\ TurnDown(files, v) /\ files[v].down = "plain"
    /\ applied' = [applied EXCEPT ![v] = "none"]
    /\ schema' = [schema EXCEPT ![v] = "none"]

\* A body ends the transaction it runs in.
Tear(files, v) ==
    /\ \/ /\ TurnUp(files, v) /\ files[v].up = "tx"
          /\ schema' = [schema EXCEPT ![v] = "part"]
       \/ /\ TurnDown(files, v) /\ files[v].down = "tx"
          /\ schema' = [schema EXCEPT ![v] = "torn"]
    /\ UNCHANGED applied

SchemaNext ==
    \E files \in Checkouts : \E v \in DOMAIN files :
        Apply(files, v) \/ Revert(files, v) \/ Tear(files, v)

SchemaSpec == SchemaInit /\ [][SchemaNext]_<<applied, schema>>
=============================================================================
