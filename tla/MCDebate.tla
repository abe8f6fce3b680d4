------------------------------- MODULE MCDebate -------------------------------
(* A small instance of Debate for TLC: one debate with a rebuttal, before a  *)
(* jury of three or a paired one of one lens, on the keys of two owners.     *)
EXTENDS Debate, TLC

CONSTANTS d1, a, b
MCRounds == d1 :> 2
MCPanels == d1 :> {<<3, FALSE>>, <<1, TRUE>>}
MCKeys == "anthropic" :> <<a, b>> @@ "gemini" :> <<b, a>>
MCSeating == "anthropic" :> 1 @@ "gemini" :> 1
=============================================================================
