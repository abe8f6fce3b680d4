-------------------------------- MODULE MCViews ---------------------------------
(* Two threads, two accounts, two names; the order that completes the book may   *)
(* be filled, and either account may have a slate that is retired or removed.    *)
EXTENDS Views

CONSTANTS A, B, r1, r2

MCAsks == {<<r1, "recon", 1>>, <<r1, "recon", 2>>, <<r1, "page", 2>>, <<r2, "page", 1>>}

Book(a, b, c) == [shares |-> (A :> a @@ B :> b), cash |-> c]
Lean == Book(1, 0, 3)
Full == Book(1, 1, 2)
Other == Book(1, 0, 1)

MCBooks == (1 :> {Lean, Full}) @@ (2 :> {Other})
MCFills == {<<Lean, Full>>}

Quarter == [force |-> TRUE, target |-> (A :> 25 @@ B :> 25)]
Retired == [force |-> FALSE, target |-> (A :> 25 @@ B :> 25)]

MCPlans == {Quarter, Retired}
MCSlates == {(1 :> p) @@ (2 :> None) : p \in {Quarter, Retired, None}} \cup {(1 :> None) @@ (2 :> Quarter)}
MCEdits == {<<Quarter, None>>}
MCCashBand == 20..60
MCCredentials == {{}, {1, 2}}
=============================================================================
