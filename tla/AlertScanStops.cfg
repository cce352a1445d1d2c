SPECIFICATION Spec
CONSTANT ProofGaps = TRUE
CONSTANT Causes = {}
CONSTANT Runs = {}
CONSTANT MaxDisturbed = 0
INVARIANT ScanContinues
