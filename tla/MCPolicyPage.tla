--------------------------- MODULE MCPolicyPage ---------------------------
EXTENDS PolicyPage, TLC

\* No property tells the policies apart.
MCSymmetry == Permutations(Policies)

\* Two texts are written, or one is and a call is lost.
MCTextsAndFaults == edits + faults <= 2
=============================================================================
