CONSTANTS
  MaxLearned = 3
SPECIFICATION Spec
PROPERTY UpgradeKeepsLearning
