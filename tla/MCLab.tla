-------------------------------- MODULE MCLab --------------------------------
(* A small instance of Lab for TLC.  Two requests share no row and no job, so *)
(* one request is enough for what an interleaving can do.                     *)
EXTENDS Lab

CONSTANTS m1, m2, m3
MCItems == <<m1, m2, m3>>
=============================================================================
