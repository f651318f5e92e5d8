--------------------------- MODULE MCExperimentRun ---------------------------
EXTENDS ExperimentRun, TLC

CONSTANTS r1, r2

MCRuns == {r1, r2}

MCSymmetry == Permutations(MCRuns)
=============================================================================
