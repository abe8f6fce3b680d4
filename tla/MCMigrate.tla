------------------------------ MODULE MCMigrate ------------------------------
(* A small instance of Migrate for TLC: what two checkouts of a repository, *)
(* an edit of an applied file, a late branch and ill-behaved bodies look    *)
(* like to the runner.                                                      *)
EXTENDS Migrate, TLC

Plain(s) == [sum |-> s, destructive |-> FALSE, up |-> "plain", down |-> "plain"]
First == 1 :> Plain("a")
Second == 2 :> Plain("b")
Third == 3 :> [Plain("c") EXCEPT !.destructive = TRUE]

MCCheckouts == {
    First @@ Second @@ Third,
    First @@ Third,                                       \* a branch without 2
    (1 :> Plain("x")) @@ Second,                          \* 1 edited
    First @@ (2 :> [Plain("b") EXCEPT !.up = "error"]) @@ Third,
    First @@ (2 :> [Plain("b") EXCEPT !.up = "tx", !.down = "tx"]) }
=============================================================================
