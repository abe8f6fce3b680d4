------------------------------- MODULE MCFacts -------------------------------
(* Small instances of Facts for TLC: three companies, one that restates a    *)
(* year after the next one is out, and two whose filings the vendor misdates *)
(* by a date that is before the period's end or one that might be right.     *)
EXTENDS Facts

F(period, ends, filed, stamp) ==
    [period |-> period, ends |-> ends, filed |-> filed, stamp |-> stamp]

Restated == {F(1, 1, 2, 2), F(2, 2, 3, 3), F(1, 1, 4, 4)}
Misdated == {F(1, 1, 2, None), F(2, 3, 4, 2)}
Plausibly == {F(1, 1, 2, 2), F(2, 2, 4, 3)}

CONSTANTS s1, s2
MCScopes == {<<>>, <<s1, s2>>}
MCWorlds == {Restated, Misdated, Plausibly}
=============================================================================
