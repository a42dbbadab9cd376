--------------------------- MODULE RiskClassifier ----------------------------
(***************************************************************************)
(* RiskClassifier.classify: one command after another is classified, a     *)
(* single command by _match_tier, a pipe chain by the loop that keeps the  *)
(* highest tier met so far.                                                *)
(***************************************************************************)
EXTENDS RiskTiers

CONSTANT Commands        \* the commands the classifier is called with

ASSUME CommandsAssumption == Commands \subseteq PipeCommand

VARIABLES
  command,               \* the argument of classify
  position,              \* the part the loop looks at next
  highest_tier,          \* the loop's local
  action                 \* the ClassifiedAction returned, or NoAction

vars == <<command, position, highest_tier, action>>

NoAction == [tier |-> "none", backup_needed |-> FALSE]
ClassifiedAction == [tier : RiskTier, backup_needed : BOOLEAN]

Init ==
  /\ command \in Commands
  /\ position = 1
  /\ highest_tier = "green"
  /\ action = NoAction

Answer(tier) ==
  action' = [tier |-> tier, backup_needed |-> tier = "yellow"]

IsPipeChain == Len(command) > 1

\* classify without a "|" in the command.
ClassifySingle ==
  /\ action = NoAction
  /\ ~IsPipeChain
  /\ Answer(MatchTier(command[1]))
  /\ UNCHANGED <<command, position, highest_tier>>

\* Mutant of Higher: the last part that differs wins.
LastWins(tier, than) == tier_order[tier] # tier_order[than]

\* The loop's comparison.
Higher(tier, than) == tier_order[tier] > tier_order[than]

NextPosition == position + 1

\* One turn of the loop of _classify_pipe_chain.
ScanPart ==
  /\ action = NoAction
  /\ IsPipeChain
  /\ position <= Len(command)
  /\ LET tier == MatchTier(command[position])
     IN  highest_tier' = IF Higher(tier, highest_tier) THEN tier ELSE highest_tier
  /\ position' = NextPosition
  /\ UNCHANGED <<command, action>>

\* The end of _classify_pipe_chain.
FinishChain ==
  /\ action = NoAction
  /\ IsPipeChain
  /\ position > Len(command)
  /\ Answer(highest_tier)
  /\ UNCHANGED <<command, position, highest_tier>>

\* The next call of classify starts with fresh locals.
NextCommand ==
  /\ action # NoAction
  /\ command' \in Commands
  /\ position' = 1
  /\ highest_tier' = "green"
  /\ action' = NoAction

Next == ClassifySingle \/ ScanPart \/ FinishChain \/ NextCommand

Spec == Init /\ [][Next]_vars

------------------------------------------------------------------------------
\* Type invariant of the classifier's locals and of what it returns.
TypeOK ==
  /\ command \in Commands
  /\ position \in 1 .. Len(command) + 1
  /\ highest_tier \in RiskTier
  /\ action \in ClassifiedAction \cup {NoAction}

\* The loop and the single-command branch (classify, _classify_pipe_chain)
\* return the highest tier of any part, and ask for a backup exactly when
\* that tier is yellow, wherever in the chain the decisive part stands.
ReturnsHighestTier ==
  action # NoAction =>
    /\ action.tier = Classify(command)
    /\ action.backup_needed = BackupNeeded(command)

\* Only commands all of whose parts match the green table and none the red
\* one come out green, that is, run without a prompt: an unknown part, an
\* empty part ("a || b" has one) or a red part anywhere prevents it.
GreenOnlyIfEveryPartIsGreen ==
  action.tier = "green" =>
    \A i \in DOMAIN command : "green" \in command[i] /\ "red" \notin command[i]
==============================================================================
