------------------------------ MODULE MCArchive ------------------------------
(* Small instances of Archive for TLC: one symbol and a handful of things   *)
(* that happen to symbols.                                                  *)
EXTENDS Archive

Plain == [prints |-> Dates, since |-> 1, split |-> None, move |-> None,
          carried |-> TRUE, common |-> TRUE, delist |-> {}, held |-> FALSE,
          torn |-> {}]
\* Another issuer takes the symbol over on the fourth session, at another
\* price; it splits on the last one.
Recycled == [Plain EXCEPT !.prints = {1, 4, 5}, !.since = 4, !.move = 4,
                          !.split = 5, !.delist = {2}]
\* A halt over which the price fell, and a later one over a split.
Halted == [Plain EXCEPT !.prints = {1, 3, 5}, !.move = 2, !.split = 4]
\* A warrant no provider knows, whose price broke.
Warrant == [Plain EXCEPT !.prints = {1, 3}, !.move = 3, !.carried = FALSE,
                         !.common = FALSE]
\* Its first day file has to be copied again, so that the row is younger than
\* its bars; a split is announced for after the archive's end.
Torn == [Plain EXCEPT !.prints = {1, 3, 4}, !.move = 3, !.torn = {1}, !.split = 6]
\* A symbol a real portfolio holds.
Held == [Recycled EXCEPT !.held = TRUE]

\* FMP lists its delisting before the day files up to it are loaded.
Early == [Plain EXCEPT !.prints = {1, 2}, !.delist = {3}]
\* The day file in the middle of what looks like a hole is copied again later:
\* Worlds <- ReloadedWorlds shows what SpliceEndsSeries says and the code does not.
Reloaded == [Plain EXCEPT !.prints = {1, 3, 4}, !.move = 3, !.torn = {3}]

MCWorlds == {Recycled, Halted, Warrant, Torn, Held, Early}
ReloadedWorlds == {Reloaded}
=============================================================================
