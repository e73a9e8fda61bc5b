--------------------------- MODULE MCComplexLock ---------------------------
EXTENDS ComplexLock, TLC

\* The threads that never lock recursively are interchangeable.
Symmetry == Permutations(Thread \ RecThread)
=============================================================================
