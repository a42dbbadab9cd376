------------------------------ MODULE RiskTiers ------------------------------
(***************************************************************************)
(* The vocabulary of silicon_valet/risk: the three tiers, the pattern      *)
(* tables, and what the classifier computes for a command.                 *)
(*                                                                         *)
(* A shell command is the sequence of its "|"-separated parts; a command   *)
(* without a pipe has one part.  Of a part's text only one thing matters   *)
(* here: which of the three pattern tables (GREEN_PATTERNS,                *)
(* YELLOW_PATTERNS, RED_PATTERNS) have a pattern that matches it.  A part  *)
(* is therefore the set of the tables that match.  Each of the eight sets  *)
(* is the set of some text: "frobnicate" matches none, "cat a >> b"        *)
(* matches the green and the yellow table.                                 *)
(***************************************************************************)
EXTENDS Integers, Sequences

RiskTier == {"green", "yellow", "red"}

\* A pipe component: the pattern tables that match its text.
Part == SUBSET RiskTier

PipeCommand == {command \in Seq(Part) : Len(command) > 0}

\* The classifier's tier_order.
tier_order == [t \in RiskTier |->
                 CASE t = "green" -> 0 [] t = "yellow" -> 1 [] t = "red" -> 2]

\* Mutant of MatchTier: the green table is tried before the red one.
MatchTierGreenFirst(part) ==
  IF "green" \in part THEN "green" ELSE IF "red" \in part THEN "red" ELSE "yellow"

\* _match_tier: red is tried first, green before yellow, and what no table
\* matches is yellow.
MatchTier(part) ==
  IF "red" \in part THEN "red"
  ELSE IF "green" \in part THEN "green"
  ELSE "yellow"

TiersOf(command) == {MatchTier(command[i]) : i \in DOMAIN command}

\* What classify answers, as a definition rather than as the loop of
\* RiskClassifier (which is shown to compute it): the highest tier of a part.
Classify(command) ==
  IF "red" \in TiersOf(command) THEN "red"
  ELSE IF "yellow" \in TiersOf(command) THEN "yellow"
  ELSE "green"

\* ClassifiedAction.backup_needed.
BackupNeeded(command) == Classify(command) = "yellow"
==============================================================================
