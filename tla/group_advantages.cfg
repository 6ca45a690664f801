\* Two prompts of two and one trajectories, up to four rows, two ranks.
CONSTANTS
  Trajectories = 3
  RolloutN = 2
  MaxRows = 4
  WorldSize = 2
  Rewards = {0, 3}
  Returns = {0, 1}
  Observations = {"a", "b", "c"}
  SimilarPairs <- Chain
SPECIFICATION AdvantageSpec
INVARIANT StepGroupsAreOfOneState
INVARIANT AdvantagesAreRelative
\* The advantages have been computed.
CHECK_DEADLOCK FALSE
