----------------------------- MODULE MCRiskEngine ----------------------------
(***************************************************************************)
(* Two files with one basename, and one command of each kind:              *)
(*   cat   cat a/conf                    green                             *)
(*   cp    cp a/conf b/conf              yellow, modifies its second word  *)
(*   pipe  cat b/conf | dd of=a/conf     red by its second part            *)
(***************************************************************************)
EXTENDS RiskEngine, TLC

CONSTANTS a, b, cat, cp, pipe

MCCommand == {cat, cp, pipe}
MCFile == {a, b}
MCPartsOf ==
  cat :> <<{"green"}>> @@ cp :> <<{"yellow"}>> @@ pipe :> <<{"green"}, {"red"}>>
MCNamesOf == cat :> <<a>> @@ cp :> <<a, b>> @@ pipe :> <<b, a>>
MCWritesOf == cat :> {} @@ cp :> {b} @@ pipe :> {a}
MCBasenameOf == a :> "conf" @@ b :> "conf"
MCSymmetry == Permutations(Call)
==============================================================================
