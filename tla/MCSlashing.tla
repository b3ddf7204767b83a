----------------------------- MODULE MCSlashing -----------------------------
EXTENDS SlashingMachine
UnitPower == [v \in Validators |-> 1]
\* Odd and tiny stakes, so that percentages round down, also to nothing.
SmallStake == [v \in Validators |-> IF v = 0 THEN 5 ELSE 1]
=============================================================================
