SPECIFICATION Spec
CONSTANT Commands <- MCCommands
INVARIANT ReturnsHighestTier
INVARIANT GreenOnlyIfEveryPartIsGreen
