------------------------------- MODULE MCQueue -------------------------------
EXTENDS Queue, TLC

\* Cells are interchangeable: only equality is ever tested on them.
CellSymmetry == Permutations(Node)

=============================================================================
