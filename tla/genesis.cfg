SPECIFICATION GenSpec
CONSTANTS
  ConfiguredPowers = {0, 1, 2}
  MaxValidators = 7
CHECK_DEADLOCK FALSE
INVARIANTS SafeSizes ByzantineMargin PowerBudget
