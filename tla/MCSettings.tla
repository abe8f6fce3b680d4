----------------------------- MODULE MCSettings ------------------------------
(* Small instances of Settings for TLC: one web process, in whose threads   *)
(* values are read and set.                                                 *)
EXTENDS Settings

CONSTANTS web

MCHome == [t \in Threads |-> web]
MCDefault == [k \in Keys |-> IF k = "floor" THEN 1 ELSE 2]
=============================================================================
