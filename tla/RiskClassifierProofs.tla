------------------------- MODULE RiskClassifierProofs -------------------------
(***************************************************************************)
(* The classifier returns the highest tier of any part, for commands of    *)
(* any length and any combination of matching pattern tables.              *)
(***************************************************************************)
EXTENDS RiskClassifier, TLAPS

\* The facts about the tables every proof below uses.
LEMMA TierFacts ==
  /\ tier_order["green"] = 0 /\ tier_order["yellow"] = 1 /\ tier_order["red"] = 2
  /\ \A part : MatchTier(part) \in RiskTier
BY DEF tier_order, MatchTier, RiskTier

LEMMA PartsOfCommand ==
  ASSUME NEW com \in Commands
  PROVE  /\ com \in Seq(Part)
         /\ Len(com) \in Nat \ {0}
         /\ DOMAIN com = 1 .. Len(com)
BY CommandsAssumption DEF PipeCommand

\* What the loop knows of the parts it has passed.
LoopInv ==
  /\ \A i \in 1 .. (position - 1) :
       tier_order[MatchTier(command[i])] <= tier_order[highest_tier]
  /\ highest_tier # "green" =>
       \E i \in 1 .. (position - 1) : MatchTier(command[i]) = highest_tier

IInv == TypeOK /\ LoopInv /\ ReturnsHighestTier

\* A tier that bounds every part's and is some part's, or green, is the one
\* Classify names.
LEMMA HighestIsClassify ==
  ASSUME NEW com \in Commands, NEW top \in RiskTier,
         \A i \in 1 .. Len(com) : tier_order[MatchTier(com[i])] <= tier_order[top],
         top # "green" => \E i \in 1 .. Len(com) : MatchTier(com[i]) = top
  PROVE  top = Classify(com)
<1>1. \A i \in DOMAIN com : MatchTier(com[i]) \in RiskTier
  BY TierFacts
<1>2. DOMAIN com = 1 .. Len(com)
  BY PartsOfCommand
<1>3. CASE top = "red"
  BY <1>2, <1>3 DEF Classify, TiersOf
<1>4. CASE top = "yellow"
  <2>1. \A i \in DOMAIN com : MatchTier(com[i]) # "red"
    BY <1>2, <1>4, TierFacts
  <2> QED
    BY <1>2, <1>4, <2>1 DEF Classify, TiersOf
<1>5. CASE top = "green"
  <2>1. \A i \in DOMAIN com : MatchTier(com[i]) # "red" /\ MatchTier(com[i]) # "yellow"
    BY <1>2, <1>5, TierFacts
  <2> QED
    BY <1>5, <2>1 DEF Classify, TiersOf
<1> QED
  BY <1>3, <1>4, <1>5 DEF RiskTier

LEMMA InitEstablishes == Init => IInv
<1> SUFFICES ASSUME Init PROVE IInv
  OBVIOUS
<1>1. TypeOK
  BY PartsOfCommand DEF Init, TypeOK, RiskTier, NoAction
<1>2. LoopInv
  BY DEF Init, LoopInv
<1> QED
  BY <1>1, <1>2 DEF Init, IInv, ReturnsHighestTier

LEMMA StepPreserves == IInv /\ [Next]_vars => IInv'
<1> SUFFICES ASSUME IInv, [Next]_vars PROVE IInv'
  OBVIOUS
<1> USE DEF IInv, NextPosition
<1>0. /\ command \in Commands /\ Len(command) \in Nat \ {0}
      /\ DOMAIN command = 1 .. Len(command)
      /\ position \in 1 .. Len(command) + 1 /\ highest_tier \in RiskTier
  BY PartsOfCommand DEF TypeOK
<1>1. CASE ClassifySingle
  <2>1. Len(command) = 1
    BY <1>0, <1>1 DEF ClassifySingle, IsPipeChain
  <2>2. MatchTier(command[1]) \in RiskTier
    BY TierFacts
  <2>3. MatchTier(command[1]) = Classify(command)
    BY <1>0, <2>1, <2>2, HighestIsClassify, TierFacts DEF RiskTier
  <2>4. TypeOK'
    BY <1>1, <2>2 DEF ClassifySingle, Answer, TypeOK, ClassifiedAction
  <2>5. LoopInv'
    BY <1>1 DEF ClassifySingle, LoopInv
  <2>6. ReturnsHighestTier'
    BY <1>1, <2>3 DEF ClassifySingle, Answer, ReturnsHighestTier, BackupNeeded
  <2> QED
    BY <2>4, <2>5, <2>6
<1>2. CASE ScanPart
  <2> DEFINE tier == MatchTier(command[position])
  <2>1. tier \in RiskTier /\ position \in Nat /\ position' = position + 1
    BY <1>0, <1>2, TierFacts DEF ScanPart
  <2>2. highest_tier' \in RiskTier
    BY <1>0, <1>2, <2>1 DEF ScanPart
  <2>3. TypeOK'
    BY <1>0, <1>2, <2>1, <2>2 DEF ScanPart, TypeOK
  <2>4. /\ tier_order[highest_tier] <= tier_order[highest_tier']
        /\ tier_order[tier] <= tier_order[highest_tier']
    BY <1>0, <1>2, <2>1, TierFacts DEF ScanPart, Higher, RiskTier
  <2>5. ASSUME NEW i \in 1 .. (position' - 1)
        PROVE  tier_order[MatchTier(command'[i])] <= tier_order[highest_tier']
    <3>1. i \in 1 .. (position - 1) \/ i = position
      BY <2>1
    <3>2. CASE i = position
      BY <1>2, <2>4, <3>2 DEF ScanPart
    <3>3. CASE i \in 1 .. (position - 1)
      <4>1. tier_order[MatchTier(command[i])] <= tier_order[highest_tier]
        BY <3>3 DEF LoopInv
      <4>2. MatchTier(command[i]) \in RiskTier /\ command' = command
        BY <1>2, TierFacts DEF ScanPart
      <4> QED
        BY <1>0, <2>2, <2>4, <4>1, <4>2, TierFacts DEF RiskTier
    <3> QED
      BY <3>1, <3>2, <3>3
  <2>6. highest_tier' # "green" =>
          \E i \in 1 .. (position' - 1) : MatchTier(command'[i]) = highest_tier'
    <3>1. CASE highest_tier' = highest_tier
      BY <1>2, <2>1, <3>1 DEF ScanPart, LoopInv
    <3>2. CASE highest_tier' = tier
      BY <1>0, <1>2, <2>1, <3>2 DEF ScanPart
    <3> QED
      BY <1>2, <3>1, <3>2 DEF ScanPart
  <2>7. ReturnsHighestTier'
    BY <1>2 DEF ScanPart, ReturnsHighestTier
  <2> QED
    BY <2>3, <2>5, <2>6, <2>7 DEF LoopInv
<1>3. CASE FinishChain
  <2>1. position = Len(command) + 1
    BY <1>0, <1>3 DEF FinishChain
  <2>2. highest_tier = Classify(command)
    BY <1>0, <2>1, HighestIsClassify DEF LoopInv
  <2>3. TypeOK'
    BY <1>0, <1>3 DEF FinishChain, Answer, TypeOK, ClassifiedAction
  <2>4. LoopInv'
    BY <1>3 DEF FinishChain, LoopInv
  <2>5. ReturnsHighestTier'
    BY <1>3, <2>2 DEF FinishChain, Answer, ReturnsHighestTier, BackupNeeded
  <2> QED
    BY <2>3, <2>4, <2>5
<1>4. CASE NextCommand
  <2>1. TypeOK'
    BY <1>4, PartsOfCommand DEF NextCommand, TypeOK, RiskTier, NoAction
  <2>2. LoopInv'
    BY <1>4 DEF NextCommand, LoopInv
  <2> QED
    BY <1>4, <2>1, <2>2 DEF NextCommand, ReturnsHighestTier
<1>5. CASE UNCHANGED vars
  BY <1>5 DEF vars, TypeOK, LoopInv, ReturnsHighestTier
<1> QED
  BY <1>1, <1>2, <1>3, <1>4, <1>5 DEF Next

\* classify and _classify_pipe_chain: whatever they return is the highest
\* tier of any part, with the backup flag that belongs to it.
THEOREM ClassifierReturnsHighestTier == Spec => []ReturnsHighestTier
<1>1. IInv => ReturnsHighestTier
  BY DEF IInv
<1> QED
  BY <1>1, InitEstablishes, StepPreserves, PTL DEF Spec

\* A command comes out green only if every part of it matches the green
\* table and none the red one.
THEOREM GreenNeedsEveryPart == Spec => []GreenOnlyIfEveryPartIsGreen
<1>1. IInv => GreenOnlyIfEveryPartIsGreen
  <2> SUFFICES ASSUME IInv, action.tier = "green", NEW i \in DOMAIN command
               PROVE  "green" \in command[i] /\ "red" \notin command[i]
    BY DEF GreenOnlyIfEveryPartIsGreen
  <2>1. Classify(command) = "green"
    BY DEF IInv, ReturnsHighestTier, NoAction
  <2>2. MatchTier(command[i]) \in TiersOf(command)
    BY DEF TiersOf
  <2>3. MatchTier(command[i]) = "green"
    BY <2>1, <2>2, TierFacts DEF Classify, RiskTier
  <2> QED
    BY <2>3 DEF MatchTier
<1> QED
  BY <1>1, InitEstablishes, StepPreserves, PTL DEF Spec
==============================================================================
