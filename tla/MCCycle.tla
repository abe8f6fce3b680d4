------------------------------ MODULE MCCycle --------------------------------
(* Small instances of Cycle for TLC.                                        *)
EXTENDS Cycle
=============================================================================
