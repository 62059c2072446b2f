--------------------------- MODULE MCExploration ----------------------------
EXTENDS Exploration, MCRFSC

MCFirst == << >>
\* The new nodes on the path of n.
MCNew == [n \in MCNode |->
            {n \o SubSeq(MCExt[n], 1, k) : k \in 1 .. Len(MCExt[n])}]
=============================================================================
