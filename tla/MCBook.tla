------------------------------- MODULE MCBook --------------------------------
(* Four days, the third without a session, and a split before the fourth. *)
EXTENDS Book

MCSessions == {1, 2, 4}
MCQuote == <<2, 3, 3, 2>>
MCRatio == <<1, 1, 1, 2>>
MCByHand == {<<"live", 2, 2>>, <<"backfill", 1, 4>>}
MCExitsOn == {<<2, 4>>}
MCJudgments == {<<3, "sell">>}
MCSleeve == [shares |-> 1, cost |-> 2, cash |-> 1]
MCMaxRuns == [p \in {"night", "hand", "exit"} |-> IF p = "night" THEN 2 ELSE 1]
=============================================================================
