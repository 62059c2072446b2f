------------------------ MODULE MCRFSCWorkStealing --------------------------
EXTENDS RFSCWorkStealing, MCRFSC, TLC

Sym == Permutations(Worker)
=============================================================================
