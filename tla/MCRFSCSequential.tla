--------------------------- MODULE MCRFSCSequential --------------------------
EXTENDS RFSCSequential, MCRFSC
=============================================================================
