------------------------ MODULE MCRFSCPriorityQueue -------------------------
EXTENDS RFSCPriorityQueue, MCRFSC, TLC

Sym == Permutations(Worker)
=============================================================================
