------------------------------- MODULE MCGuiFocus -------------------------------
EXTENDS GuiFocus, TLC
Symmetry == Permutations(Boxes \ Fields)
================================================================================
